---------------------------- MODULE CNodeProofs ----------------------------
(***************************************************************************)
(* What is proved of CNode, for any finite sets of messages and threads,   *)
(* any commands among those there are, any limits and any size of the      *)
(* queue.                                                                  *)
(***************************************************************************)
EXTENDS CNode, FiniteSetTheorems, TLAPS

USE RequestsAssumption, ThreadsAssumption, CommandsAssumption, SizeAssumption,
    LimitsAssumption, MarksAssumption

-----------------------------------------------------------------------------
\* The types, in three groups; replies are sequences, and jobsLeft is an integer
\* until it is known to count something.
ThreadPcs == {"idle", "judge", "command", "compile", "run", "send", "finish"}

MapTyped == /\ DOMAIN priorityMap \subseteq Words
            /\ priorityMap \in [DOMAIN priorityMap -> Levels \cup {0, 1}]

MainTyped ==
  /\ clock \in 0..MaxClock /\ maxDiffTime \in Limits
  /\ MapTyped
  /\ pc \in {"receive", "check", "command"}
  /\ current \in Requests \cup {NoRequest}
  /\ command \in [Requests -> Commands \cup {NoCommand}]
  /\ timestamp \in [Requests -> 0..MaxClock]
  /\ stage \in {"serving", "ended", "joined", "over", "crashed"}

PoolTyped ==
  /\ queue \subseteq Requests /\ jobsLeft \in Int
  /\ priority \in [Requests -> Levels \cup {0, 1}]
  /\ added \in [Requests -> 0..MaxClock]

JobTyped ==
  /\ tpc \in [Threads -> ThreadPcs]
  /\ job \in [Threads -> Requests \cup {NoRequest}]
  /\ resp \in [Threads -> Results \cup {NoResult}]
  /\ content \in Requests \cup {Absent, Empty} /\ compiling \in Threads \cup {NoThread}
  /\ effects \in Seq(Requests)
  /\ replies \in [Requests -> Seq(Results)]

Typed == MainTyped /\ PoolTyped /\ JobTyped

\* Who has what: process its message, a busy thread its job, no two threads the same.
Held == /\ pc = "receive" <=> current = NoRequest
        /\ \A t \in Threads : tpc[t] = "idle" <=> job[t] = NoRequest
        /\ \A t, u \in Threads : job[t] = job[u] /\ job[t] # NoRequest => t = u

\* A message is nowhere until it is received, and then in one place until it is answered.
Placed ==
  /\ \A r \in Requests : command[r] = NoCommand =>
       r # current /\ r \notin queue /\ replies[r] = <<>> /\ \A t \in Threads : job[t] # r
  /\ \A r \in queue : r # current /\ replies[r] = <<>> /\ \A t \in Threads : job[t] # r
  /\ current # NoRequest => replies[current] = <<>> /\ \A t \in Threads : job[t] # current
  /\ \A t \in Threads : job[t] # NoRequest =>
       IF tpc[t] = "finish" THEN Len(replies[job[t]]) = 1 ELSE replies[job[t]] = <<>>
  /\ \A r \in Requests : command[r] # NoCommand =>
       r = current \/ r \in queue \/ (\E t \in Threads : job[t] = r) \/ Len(replies[r]) = 1

\* A thread that compiles or runs has a job that asks for it, and a reply ready
\* from the moment its command took effect until it is sent.
Handled ==
  \A t \in Threads : /\ tpc[t] = "compile" => Command(t) = "compile"
                     /\ resp[t] # NoResult <=> tpc[t] \in {"run", "send"}

\* The main loop has ended where main has come further, and the pool is empty
\* once it is joined.
Ended == /\ stage # "serving" => pc = "receive"
         /\ stage \in {"joined", "over"} => queue = {} /\ AllIdle

NodeInv == Typed /\ Held /\ Placed /\ Handled /\ Ended

\* The invariant holds when main begins.
LEMMA NodeInitially == Init => NodeInv
  <1> SUFFICES ASSUME Init PROVE NodeInv
    OBVIOUS
  <1>1. MapTyped
    BY DEF Init, MapTyped, Words, JobCommands
  <1>2. Typed
    BY <1>1 DEF Init, Typed, MainTyped, PoolTyped, JobTyped, ThreadPcs
  <1>3. Held /\ Placed /\ Handled /\ Ended
    BY DEF Init, Held, Placed, Handled, Ended, AllIdle
  <1>. QED
    BY <1>2, <1>3 DEF NodeInv

-----------------------------------------------------------------------------
\* The steps, by what they do to the messages.

\* process answers the message it has.
Answers == /\ \E x \in Refusals \cup {"OK"} :
                Send(x) /\ (x \notin Refusals => command[current] \in AdminCommands)
           /\ current \in Requests
           /\ stage = "serving"
           /\ UNCHANGED <<command, timestamp, behindVars, aroundVars>>

\* A thread gets on with its job.
Working == {"judge", "command", "compile", "run", "send"}
Works(t) == /\ tpc[t] \in Working /\ job[t] \in Requests
            /\ \E s \in Working : tpc' = [tpc EXCEPT ![t] = s]
            /\ UNCHANGED <<mainVars, poolVars, job, replies>>

\* The branches of process that end in a reply of its own.
LEMMA AnswerSteps ==
  ASSUME NodeInv,
         \/ SocketTimeout \/ Plain \/ GetStatistics \/ Exhausted
         \/ \E d \in Limits : SetMaxDiffTime(d)
         \/ \E w \in Words : RemovePriority(w) \/ \E p \in Levels : SetPriority(w, p)
  PROVE  Answers
  BY DEF NodeInv, Held, Ended, Typed, MainTyped, SocketTimeout, Plain, GetStatistics, Exhausted,
         IsJob, On, Refuse, SetMaxDiffTime, RemovePriority, SetPriority, Answers, Refusals,
         AdminCommands, messageVars, aroundVars

\* What a thread does between taking a job and sending its reply.
LEMMA WorkSteps ==
  ASSUME NodeInv, NEW t \in Threads,
         \/ \E late \in BOOLEAN : Judge(t, late)
         \/ CheckCode(t) \/ Unsupported(t) \/ Remove(t)
         \/ BeginCompile(t) \/ EndCompile(t) \/ BeginRun(t) \/ EndRun(t)
  PROVE  Works(t)
  BY DEF NodeInv, Held, Typed, JobTyped, Judge, Judged, CheckCode, Unsupported, Remove, BeginCompile,
         EndCompile, BeginRun, EndRun, Respond, Works, Working

-----------------------------------------------------------------------------
\* The types.

\* Looking a priority up keeps the map one of priorities.
LEMMA MapOfLooked ==
  ASSUME MapTyped, NEW w \in Words, priorityMap' = Looked(w)
  PROVE  MapTyped'
  BY DEF MapTyped, Looked, PriorityOf

\* Setting a priority, for any word there is, keeps the map one of priorities.
LEMMA MapOfSet ==
  ASSUME MapTyped, NEW w \in Words, NEW p \in Levels,
         priorityMap' = [c \in DOMAIN priorityMap \cup {w} |-> IF c = w THEN p ELSE priorityMap[c]]
  PROVE  MapTyped'
  BY DEF MapTyped

\* So does removing one.
LEMMA MapOfRemoved ==
  ASSUME MapTyped, NEW w, priorityMap' = [c \in DOMAIN priorityMap \ {w} |-> priorityMap[c]]
  PROVE  MapTyped'
  BY DEF MapTyped

\* A reply is added to those of its message.
LEMMA RepliedTyped ==
  ASSUME replies \in [Requests -> Seq(Results)], NEW r \in Requests, NEW x \in Results
  PROVE  Replied(r, x) \in [Requests -> Seq(Results)]
  BY DEF Replied

\* The message process has, and the command it becomes a job for.
LEMMA JobCommand ==
  ASSUME NodeInv, IsJob
  PROVE  current \in Requests /\ command[current] \in Words
  BY DEF NodeInv, Typed, MainTyped, Held, IsJob, Words, AdminCommands, AllCommands, JobCommands,
         Placed

\* The steps of process keep the types.
LEMMA MainStepTyped ==
  ASSUME NodeInv, Process
  PROVE  Typed'
  <1> USE DEF NodeInv, Typed, MainTyped
  <1>1. ASSUME Answers PROVE JobTyped' /\ pc' = "receive" /\ current' = NoRequest
    <2>1. PICK x \in Refusals \cup {"OK"} : Send(x)
      BY <1>1 DEF Answers
    <2>2. Replied(current, x) \in [Requests -> Seq(Results)]
      BY <1>1, RepliedTyped DEF Answers, JobTyped, Results
    <2>. QED
      BY <1>1, <2>1, <2>2 DEF Answers, JobTyped, Send, behindVars, threadVars, storeVars
  <1>2. CASE SocketTimeout \/ Plain \/ GetStatistics
    <2>1. JobTyped' /\ pc' = "receive" /\ current' = NoRequest
      BY <1>1, <1>2, AnswerSteps
    <2>. QED
      BY <1>2, <2>1 DEF SocketTimeout, Plain, GetStatistics, PoolTyped, MapTyped,
         behindVars, poolVars, aroundVars, nodeVars, messageVars
  <1>3. ASSUME NEW d \in Limits, SetMaxDiffTime(d) PROVE Typed'
    <2>1. JobTyped' /\ pc' = "receive" /\ current' = NoRequest
      BY <1>1, <1>3, AnswerSteps
    <2>. QED
      BY <1>3, <2>1 DEF SetMaxDiffTime, PoolTyped, MapTyped, behindVars, poolVars, aroundVars,
         messageVars
  <1>4. ASSUME NEW w \in Words, RemovePriority(w) PROVE Typed'
    <2>1. JobTyped' /\ pc' = "receive" /\ current' = NoRequest
      BY <1>1, <1>4, AnswerSteps
    <2>2. MapTyped'
      BY <1>4, MapOfRemoved DEF RemovePriority
    <2>. QED
      BY <1>4, <2>1, <2>2 DEF RemovePriority, PoolTyped, behindVars, poolVars, aroundVars, messageVars
  <1>5. ASSUME NEW w \in Words, NEW p \in Levels, SetPriority(w, p) PROVE Typed'
    <2>1. JobTyped' /\ pc' = "receive" /\ current' = NoRequest
      BY <1>1, <1>5, AnswerSteps
    <2>2. MapTyped'
      BY <1>5, MapOfSet DEF SetPriority
    <2>. QED
      BY <1>5, <2>1, <2>2 DEF SetPriority, PoolTyped, behindVars, poolVars, aroundVars, messageVars
  <1>6. CASE Exhausted
    <2>1. JobTyped' /\ pc' = "receive" /\ current' = NoRequest
      BY <1>1, <1>6, AnswerSteps
    <2>2. MapTyped'
      BY <1>6, JobCommand, MapOfLooked DEF Exhausted
    <2>. QED
      BY <1>6, <2>1, <2>2 DEF Exhausted, PoolTyped, behindVars, poolVars, aroundVars, messageVars
  <1>7. CASE AddJob
    <2>1. current \in Requests /\ MapTyped'
      BY <1>7, JobCommand, MapOfLooked DEF AddJob
    <2>2. PriorityOf(command[current]) \in Levels \cup {0, 1}
      BY DEF PriorityOf, MapTyped
    <2>3. PoolTyped'
      BY <1>7, <2>1, <2>2 DEF AddJob, PoolTyped, Counted
    <2>. QED
      BY <1>7, <2>1, <2>3 DEF AddJob, JobTyped, aroundVars, messageVars, threadVars, storeVars
  <1>8. CASE InTime
    BY <1>8 DEF InTime, PoolTyped, JobTyped, MapTyped, behindVars, poolVars, threadVars, storeVars,
       aroundVars, nodeVars, messageVars
  <1>. QED
    BY <1>2, <1>3, <1>4, <1>5, <1>6, <1>7, <1>8 DEF Process

\* A step of a job leaves the types of what is process's alone.
LEMMA MainUnchangedTyped ==
  ASSUME Typed, UNCHANGED mainVars, PoolTyped', JobTyped'
  PROVE  Typed'
  BY DEF Typed, MainTyped, MapTyped, mainVars, aroundVars, nodeVars, messageVars, processVars

\* The steps of the pool's threads keep the types.
LEMMA JobStepTyped ==
  ASSUME NodeInv, NEW t \in Threads, JobStep(t)
  PROVE  Typed'
  <1> USE DEF NodeInv, Typed
  <1>1. ASSUME NEW r \in Requests, StartJob(t, r) PROVE Typed'
    BY <1>1, MainUnchangedTyped DEF StartJob, PoolTyped, JobTyped, ThreadPcs, storeVars
  <1>2. ASSUME NEW late \in BOOLEAN, Judge(t, late) PROVE Typed'
    BY <1>2, MainUnchangedTyped DEF Judge, Judged, PoolTyped, JobTyped, ThreadPcs, Results, Refusals,
       poolVars, storeVars
  <1>3. CASE CheckCode(t) \/ Unsupported(t) \/ Remove(t)
    <2>1. job[t] \in Requests
      BY <1>3 DEF CheckCode, Unsupported, Remove, Respond, Held, JobTyped
    <2>2. effects' \in Seq(Requests)
      <3>1. effects' = effects \/ effects' = Append(effects, job[t])
        BY <1>3 DEF CheckCode, Unsupported, Remove, TakesEffect, storeVars
      <3>. QED
        BY <2>1, <3>1 DEF JobTyped
    <2>. QED
      BY <1>3, <2>2, MainUnchangedTyped DEF CheckCode, Checked, Unsupported, Remove, Respond, Dropped,
         PoolTyped, JobTyped, ThreadPcs, Results, poolVars, storeVars
  <1>4. CASE BeginCompile(t)
    BY <1>4, MainUnchangedTyped DEF BeginCompile, PoolTyped, JobTyped, ThreadPcs, poolVars
  <1>5. CASE EndCompile(t)
    <2>1. job[t] \in Requests
      BY <1>5 DEF EndCompile, Respond, Held, JobTyped
    <2>2. effects' \in Seq(Requests)
      BY <1>5, <2>1 DEF EndCompile, TakesEffect, JobTyped
    <2>. QED
      BY <1>5, <2>1, <2>2, MainUnchangedTyped DEF EndCompile, Respond, Dropped, PoolTyped, JobTyped,
         ThreadPcs, Results, poolVars
  <1>6. CASE BeginRun(t) \/ EndRun(t)
    BY <1>6, MainUnchangedTyped DEF BeginRun, EndRun, PoolTyped, JobTyped, ThreadPcs, Results,
       poolVars, storeVars
  <1>7. CASE SendResp(t)
    <2>1. job[t] \in Requests /\ resp[t] \in Results
      BY <1>7 DEF SendResp, Held, Handled, JobTyped
    <2>2. replies' \in [Requests -> Seq(Results)]
      BY <1>7, <2>1, RepliedTyped DEF SendResp, JobTyped
    <2>. QED
      BY <1>7, <2>2, MainUnchangedTyped DEF SendResp, PoolTyped, JobTyped, ThreadPcs, poolVars, storeVars
  <1>8. CASE FinishJob(t)
    BY <1>8, MainUnchangedTyped DEF FinishJob, PoolTyped, JobTyped, ThreadPcs, storeVars
  <1>. QED
    BY <1>1, <1>2, <1>3, <1>4, <1>5, <1>6, <1>7, <1>8 DEF JobStep

\* Every step keeps the types.
LEMMA NodeStepTyped ==
  ASSUME NodeInv, [Next]_vars
  PROVE  Typed'
  <1> USE DEF NodeInv, Typed
  <1>1. CASE Tick
    BY <1>1 DEF Tick, MainTyped, MapTyped, PoolTyped, JobTyped, behindVars, poolVars, threadVars,
       storeVars, nodeVars, messageVars, processVars
  <1>2. ASSUME NEW r \in Requests, NEW c \in Commands, NEW s \in 0..MaxClock, Receive(r, c, s)
        PROVE  Typed'
    BY <1>2 DEF Receive, MainTyped, MapTyped, PoolTyped, JobTyped, behindVars, poolVars, threadVars,
       storeVars, nodeVars, aroundVars
  <1>3. CASE Disconnect \/ JoinPool \/ \E t \in Threads : Crash(t)
    BY <1>3 DEF Disconnect, JoinPool, Crash, MainTyped, MapTyped, PoolTyped, JobTyped, behindVars,
       poolVars, threadVars, storeVars, nodeVars, messageVars, processVars
  <1>4. CASE DestroyRunner
    BY <1>4 DEF DestroyRunner, MainTyped, MapTyped, PoolTyped, JobTyped, poolVars, threadVars,
       nodeVars, messageVars, processVars
  <1>5. CASE UNCHANGED vars
    BY <1>5 DEF vars, MainTyped, MapTyped, PoolTyped, JobTyped, poolVars, threadVars, storeVars,
       nodeVars, messageVars, processVars
  <1>. QED
    BY <1>1, <1>2, <1>3, <1>4, <1>5, MainStepTyped, JobStepTyped DEF Next, Over

-----------------------------------------------------------------------------
\* Where the messages are.

\* An answer from process takes its message out of the process's hands.
LEMMA AnswersPlace ==
  ASSUME NodeInv, Answers
  PROVE  (Held /\ Placed /\ Handled /\ Ended)'
  <1> USE DEF NodeInv, Typed, MainTyped, PoolTyped, JobTyped
  <1>1. PICK x \in Refusals \cup {"OK"} : Send(x)
    BY DEF Answers
  <1>2. /\ replies' = [replies EXCEPT ![current] = Append(@, x)]
        /\ pc' = "receive" /\ current' = NoRequest /\ current \in Requests
        /\ UNCHANGED <<command, queue, tpc, job, resp, stage>>
    BY <1>1 DEF Answers, Send, Replied, behindVars, poolVars, threadVars, aroundVars
  <1>3. x \in Results /\ replies[current] = <<>>
    BY <1>2 DEF Placed, Results
  <1>4. /\ \A r \in Requests : r # current => replies'[r] = replies[r]
        /\ Len(replies'[current]) = 1
    BY <1>2, <1>3
  <1>5. Held' /\ Handled' /\ Ended'
    BY <1>2 DEF Held, Handled, Ended, Command, AllIdle
  <1>6. Placed'
    BY <1>2, <1>4 DEF Placed, Held
  <1>. QED
    BY <1>5, <1>6

\* A thread that gets on with its job moves no message.
LEMMA WorksPlace ==
  ASSUME NodeInv, NEW t \in Threads, Works(t)
  PROVE  (Held /\ Placed /\ Ended)'
  <1> USE DEF NodeInv, Typed, MainTyped, PoolTyped, JobTyped
  <1>1. PICK s \in Working : tpc' = [tpc EXCEPT ![t] = s]
    BY DEF Works
  <1>2. /\ tpc[t] \in Working /\ job[t] \in Requests
        /\ UNCHANGED <<pc, current, command, queue, job, replies, stage>>
    BY DEF Works, mainVars, processVars, messageVars, aroundVars, poolVars
  <1>3. Held' /\ Ended'
    BY <1>1, <1>2 DEF Held, Ended, AllIdle, Working
  <1>4. Placed'
    BY <1>1, <1>2 DEF Placed, Working
  <1>. QED
    BY <1>3, <1>4

\* A reply is ready exactly when a command has taken effect.
LEMMA WorksHandled ==
  ASSUME NodeInv, NEW t \in Threads,
         \/ \E late \in BOOLEAN : Judge(t, late)
         \/ CheckCode(t) \/ Unsupported(t) \/ Remove(t)
         \/ BeginCompile(t) \/ EndCompile(t) \/ BeginRun(t) \/ EndRun(t)
  PROVE  Handled'
  <1> USE DEF NodeInv, Typed, JobTyped
  <1>0. job' = job /\ command' = command
    BY DEF Judge, CheckCode, Unsupported, Remove, BeginCompile, EndCompile, BeginRun, EndRun,
       mainVars, messageVars
  <1>1. NoResult \notin Results /\ Refusals \subseteq Results
    BY DEF Results
  <1>2. ASSUME NEW late \in BOOLEAN, Judge(t, late) PROVE Handled'
    BY <1>0, <1>1, <1>2 DEF Judge, Judged, Handled, Command, Refusals
  <1>3. CASE CheckCode(t) \/ Unsupported(t) \/ Remove(t)
    <2>1. /\ tpc[t] = "command" /\ tpc' = [tpc EXCEPT ![t] = "send"]
          /\ \E x \in Results : resp' = [resp EXCEPT ![t] = x]
      BY <1>3 DEF CheckCode, Unsupported, Remove, Respond, Results
    <2>. QED
      BY <1>0, <1>1, <2>1 DEF Handled, Command
  <1>4. CASE BeginCompile(t)
    BY <1>0, <1>4 DEF BeginCompile, Handled, Command
  <1>5. CASE EndCompile(t)
    BY <1>0, <1>5 DEF EndCompile, Respond, Handled, Command, Results
  <1>6. CASE BeginRun(t)
    BY <1>0, <1>6 DEF BeginRun, Handled, Command, Results
  <1>7. CASE EndRun(t)
    BY <1>0, <1>7 DEF EndRun, Handled, Command
  <1>. QED
    BY <1>2, <1>3, <1>4, <1>5, <1>6, <1>7

\* A message that is received is in process and nowhere else.
LEMMA ReceivePlace ==
  ASSUME NodeInv, NEW r \in Requests, NEW c \in Commands, NEW s \in 0..MaxClock, Receive(r, c, s)
  PROVE  (Held /\ Placed /\ Handled /\ Ended)'
  <1> USE DEF NodeInv, Typed, MainTyped, PoolTyped, JobTyped
  <1>1. /\ pc = "receive" /\ stage = "serving" /\ command[r] = NoCommand
        /\ pc' = "check" /\ current' = r
        /\ command' = [command EXCEPT ![r] = c] /\ c # NoCommand
        /\ UNCHANGED <<queue, tpc, job, resp, replies, stage>>
    BY DEF Receive, behindVars, poolVars, threadVars, aroundVars, AllCommands
  <1>2. \A t \in Threads : job[t] # NoRequest => job[t] # r
    BY <1>1 DEF Placed
  <1>3. Held' /\ Handled' /\ Ended'
    BY <1>1, <1>2 DEF Held, Handled, Ended, Command, AllIdle
  <1>4. \A q \in Requests : command'[q] = IF q = r THEN c ELSE command[q]
    BY <1>1
  <1>5. r \notin queue /\ replies[r] = <<>> /\ \A t \in Threads : job[t] # r
    BY <1>1 DEF Placed
  <1>6. current = NoRequest
    BY <1>1 DEF Held
  <1>7. Placed'
    <2>1. \A q \in Requests : command'[q] = NoCommand =>
            q # r /\ q \notin queue /\ replies[q] = <<>> /\ \A t \in Threads : job[t] # q
      BY <1>1, <1>4 DEF Placed
    <2>2. \A q \in queue : q # r /\ replies[q] = <<>> /\ \A t \in Threads : job[t] # q
      BY <1>5 DEF Placed
    <2>3. \A q \in Requests : command'[q] # NoCommand =>
            q = r \/ q \in queue \/ (\E t \in Threads : job[t] = q) \/ Len(replies[q]) = 1
      BY <1>4, <1>6 DEF Placed
    <2>. QED
      BY <1>1, <1>5, <2>1, <2>2, <2>3 DEF Placed
  <1>. QED
    BY <1>3, <1>7

\* addJob moves the message from process to the queue.
LEMMA AddJobPlace ==
  ASSUME NodeInv, AddJob
  PROVE  (Held /\ Placed /\ Handled /\ Ended)'
  <1> USE DEF NodeInv, Typed, MainTyped, PoolTyped, JobTyped
  <1>1. /\ pc = "command" /\ current \in Requests
        /\ queue' = queue \cup {current}
        /\ pc' = "receive" /\ current' = NoRequest
        /\ UNCHANGED <<command, tpc, job, resp, replies, stage>>
    BY JobCommand DEF AddJob, IsJob, messageVars, threadVars, aroundVars
  <1>2. Held' /\ Handled' /\ Ended'
    BY <1>1 DEF Held, Handled, Ended, Command, AllIdle
  <1>3. Placed'
    BY <1>1 DEF Placed, Held
  <1>. QED
    BY <1>2, <1>3

\* A thread that starts a job has it from the queue, and nobody else has it.
LEMMA StartPlace ==
  ASSUME NodeInv, NEW t \in Threads, NEW r \in Requests, StartJob(t, r)
  PROVE  (Held /\ Placed /\ Handled /\ Ended)'
  <1> USE DEF NodeInv, Typed, MainTyped, PoolTyped, JobTyped
  <1>1. /\ tpc[t] = "idle" /\ tpc' = [tpc EXCEPT ![t] = "judge"]
        /\ r \in queue /\ queue' = queue \ {r}
        /\ job' = [job EXCEPT ![t] = r]
        /\ UNCHANGED <<pc, current, command, resp, replies, stage>>
    BY DEF StartJob, mainVars, processVars, messageVars, aroundVars
  <1>2. replies[r] = <<>> /\ r # current /\ \A u \in Threads : job[u] # r
    BY <1>1 DEF Placed
  <1>3. Held' /\ Handled' /\ Ended'
    BY <1>1, <1>2 DEF Held, Handled, Ended, Command, AllIdle
  <1>4. Placed'
    BY <1>1, <1>2 DEF Placed, Held
  <1>. QED
    BY <1>3, <1>4

\* A job that is answered leaves the thread's hands with one reply.
LEMMA SendRespPlace ==
  ASSUME NodeInv, NEW t \in Threads, SendResp(t)
  PROVE  (Held /\ Placed /\ Handled /\ Ended)'
  <1> USE DEF NodeInv, Typed, MainTyped, PoolTyped, JobTyped
  <1>1. /\ tpc[t] = "send" /\ tpc' = [tpc EXCEPT ![t] = "finish"]
        /\ replies' = [replies EXCEPT ![job[t]] = Append(@, resp[t])]
        /\ resp' = [resp EXCEPT ![t] = NoResult]
        /\ UNCHANGED <<pc, current, command, queue, job, stage>>
    BY DEF SendResp, Replied, mainVars, processVars, messageVars, aroundVars, poolVars
  <1>2. job[t] \in Requests /\ resp[t] \in Results /\ replies[job[t]] = <<>>
    BY <1>1 DEF Held, Handled, Placed
  <1>3. /\ \A r \in Requests : r # job[t] => replies'[r] = replies[r]
        /\ Len(replies'[job[t]]) = 1
    BY <1>1, <1>2
  <1>4. Held' /\ Handled' /\ Ended'
    BY <1>1, <1>2 DEF Held, Handled, Ended, Command, AllIdle
  <1>5. Placed'
    BY <1>1, <1>2, <1>3 DEF Placed, Held
  <1>. QED
    BY <1>4, <1>5

\* A thread that finishes leaves an answered message behind.
LEMMA FinishPlace ==
  ASSUME NodeInv, NEW t \in Threads, FinishJob(t)
  PROVE  (Held /\ Placed /\ Handled /\ Ended)'
  <1> USE DEF NodeInv, Typed, MainTyped, PoolTyped, JobTyped
  <1>1. /\ tpc[t] = "finish" /\ tpc' = [tpc EXCEPT ![t] = "idle"]
        /\ job' = [job EXCEPT ![t] = NoRequest]
        /\ UNCHANGED <<pc, current, command, queue, resp, replies, stage>>
    BY DEF FinishJob, mainVars, processVars, messageVars, aroundVars
  <1>2. job[t] \in Requests /\ Len(replies[job[t]]) = 1
    BY <1>1 DEF Held, Placed
  <1>3. Held' /\ Handled' /\ Ended'
    BY <1>1, <1>2 DEF Held, Handled, Ended, Command, AllIdle
  <1>4. Placed'
    BY <1>1, <1>2 DEF Placed, Held
  <1>. QED
    BY <1>3, <1>4

\* The steps that move no message.
LEMMA StillPlace ==
  ASSUME NodeInv,
         \/ Tick \/ InTime \/ Disconnect \/ JoinPool \/ DestroyRunner
         \/ \E t \in Threads : Crash(t)
         \/ UNCHANGED vars
  PROVE  (Held /\ Placed /\ Handled /\ Ended)'
  <1> USE DEF NodeInv, Typed, MainTyped
  <1>1. UNCHANGED <<current, command, queue, tpc, job, resp, replies>>
    BY DEF Tick, InTime, Disconnect, JoinPool, DestroyRunner, Crash, vars, behindVars, poolVars,
       threadVars, messageVars, processVars
  <1>2. pc' = "receive" <=> pc = "receive"
    BY DEF Tick, InTime, Disconnect, JoinPool, DestroyRunner, Crash, vars, processVars
  <1>3. Held' /\ Placed' /\ Handled'
    BY <1>1, <1>2 DEF Held, Placed, Handled, Command
  <1>4. Ended'
    BY <1>1, <1>2 DEF Ended, AllIdle, Tick, InTime, Disconnect, JoinPool, Joinable, DestroyRunner,
       Crash, vars, aroundVars
  <1>. QED
    BY <1>3, <1>4

\* Where every message is, which threads have a reply ready, and what the end of main
\* has waited for, at every moment.
THEOREM NodeInvariant == Spec => []NodeInv
  <1>1. Init => NodeInv
    BY NodeInitially
  <1>2. NodeInv /\ [Next]_vars => NodeInv'
    <2> SUFFICES ASSUME NodeInv, [Next]_vars PROVE NodeInv'
      OBVIOUS
    <2>1. Typed'
      BY NodeStepTyped
    <2>2. CASE Process
      BY <2>1, <2>2, AnswerSteps, AnswersPlace, AddJobPlace, StillPlace DEF Process, NodeInv
    <2>3. ASSUME NEW t \in Threads, JobStep(t) PROVE NodeInv'
      BY <2>1, <2>3, WorkSteps, WorksPlace, WorksHandled, StartPlace, SendRespPlace, FinishPlace
         DEF JobStep, NodeInv
    <2>4. ASSUME NEW r \in Requests, NEW c \in Commands, NEW s \in 0..MaxClock, Receive(r, c, s)
          PROVE  NodeInv'
      BY <2>1, <2>4, ReceivePlace DEF NodeInv
    <2>. QED
      BY <2>1, <2>2, <2>3, <2>4, StillPlace DEF Next, Over, NodeInv
  <1>. QED
    BY <1>1, <1>2, PTL DEF Spec

-----------------------------------------------------------------------------
\* The limit of the pool.

Busy == {t \in Threads : tpc[t] # "idle"}

\* Both sets jobsLeft is compared with are finite.
LEMMA SetsAreFinite ==
  ASSUME NodeInv
  PROVE  IsFiniteSet(queue) /\ IsFiniteSet(Busy)
  BY FS_Subset DEF NodeInv, Typed, PoolTyped, Busy

\* A thread that starts a job becomes one more that is busy.
LEMMA OneMoreIsBusy ==
  ASSUME tpc \in [Threads -> ThreadPcs], NEW t \in Threads,
         tpc[t] = "idle", tpc' = [tpc EXCEPT ![t] = "judge"]
  PROVE  t \notin Busy /\ Busy' = Busy \cup {t}
  BY DEF Busy

\* addJob has tested the limit, and a job that was counted stays counted on its way from
\* the queue to a thread.
LEMMA LimitStep ==
  ASSUME NodeInv, LimitKept, [Next]_vars
  PROVE  LimitKept'
  <1> USE DEF NodeInv, Typed, PoolTyped, JobTyped, MainTyped
  <1>1. /\ jobsLeft = Cardinality(queue) + Cardinality(Busy)
        /\ jobsLeft <= MaxQueueSize
    BY DEF LimitKept, Busy
  <1>2. /\ Cardinality(queue) \in Nat /\ Cardinality(Busy) \in Nat
        /\ IsFiniteSet(queue) /\ IsFiniteSet(Busy)
    BY SetsAreFinite, FS_CardinalityType
  <1>3. LimitKept' <=> /\ jobsLeft' = Cardinality(queue') + Cardinality(Busy')
                       /\ jobsLeft' <= MaxQueueSize
    BY DEF LimitKept, Busy
  <1>0. ASSUME UNCHANGED <<queue, jobsLeft>>, Busy' = Busy PROVE LimitKept'
    BY <1>0, <1>1, <1>3
  <1>4. CASE AddJob
    <2>1. current \in Requests /\ current \notin queue /\ Busy' = Busy
      BY <1>4, JobCommand DEF Placed, AddJob, Busy, threadVars
    <2>2. Cardinality(queue') = Cardinality(queue) + 1
      BY <1>2, <1>4, <2>1, FS_AddElement DEF AddJob
    <2>3. jobsLeft' = jobsLeft + 1 /\ jobsLeft + 1 <= MaxQueueSize
      BY <1>4 DEF AddJob, Counted, Full
    <2>. QED
      BY <1>1, <1>2, <1>3, <2>1, <2>2, <2>3
  <1>5. ASSUME NEW t \in Threads, NEW r \in Requests, StartJob(t, r) PROVE LimitKept'
    <2>0. /\ tpc[t] = "idle" /\ tpc' = [tpc EXCEPT ![t] = "judge"]
          /\ r \in queue /\ queue' = queue \ {r}
      BY <1>5 DEF StartJob
    <2>1. t \notin Busy /\ Busy' = Busy \cup {t}
      BY <2>0, OneMoreIsBusy
    <2>2. Cardinality(queue') = Cardinality(queue) - 1
      BY <1>2, <2>0, FS_RemoveElement
    <2>3. Cardinality(Busy') = Cardinality(Busy) + 1
      BY <1>2, <2>1, FS_AddElement
    <2>4. jobsLeft' = jobsLeft
      BY <1>5 DEF StartJob
    <2>. QED
      BY <1>1, <1>2, <1>3, <2>2, <2>3, <2>4
  <1>6. ASSUME NEW t \in Threads, FinishJob(t) PROVE LimitKept'
    <2>1. t \in Busy /\ Busy' = Busy \ {t} /\ queue' = queue /\ jobsLeft' = jobsLeft - 1
      BY <1>6 DEF FinishJob, Busy
    <2>2. Cardinality(Busy') = Cardinality(Busy) - 1
      BY <1>2, <2>1, FS_RemoveElement
    <2>. QED
      <3>1. Cardinality(queue') = Cardinality(queue)
        BY <2>1
      <3>2. jobsLeft' = Cardinality(queue') + Cardinality(Busy')
        BY <1>1, <1>2, <2>1, <2>2, <3>1
      <3>3. jobsLeft' <= MaxQueueSize
        BY <1>1, <2>1
      <3>. QED
        BY <1>3, <3>2, <3>3
  <1>7. ASSUME NEW t \in Threads, Works(t) \/ SendResp(t) PROVE LimitKept'
    <2>1. UNCHANGED <<queue, jobsLeft>>
      BY <1>7 DEF Works, SendResp, poolVars
    <2>2. Busy' = Busy
      BY <1>7 DEF Works, Working, SendResp, Busy
    <2>. QED
      BY <1>0, <2>1, <2>2
  <1>8. CASE Answers
    BY <1>0, <1>8 DEF Answers, behindVars, poolVars, threadVars, Busy
  <1>9. CASE Process
    BY <1>0, <1>4, <1>8, <1>9, AnswerSteps DEF Process, InTime, behindVars, poolVars, threadVars, Busy
  <1>10. CASE \E t \in Threads : JobStep(t)
    BY <1>5, <1>6, <1>7, <1>10, WorkSteps DEF JobStep
  <1>11. ASSUME \/ Tick \/ Disconnect \/ JoinPool \/ DestroyRunner \/ UNCHANGED vars
                \/ \E t \in Threads : Crash(t)
                \/ \E r \in Requests, c \in Commands, s \in 0..MaxClock : Receive(r, c, s)
         PROVE  LimitKept'
    BY <1>0, <1>11 DEF Tick, Disconnect, JoinPool, DestroyRunner, Crash, Receive, vars, behindVars,
       poolVars, threadVars, Busy
  <1>. QED
    BY <1>9, <1>10, <1>11 DEF Next, Over

\* At first there is no job to count.
LEMMA LimitInitially == Init => LimitKept
  <1> SUFFICES ASSUME Init PROVE LimitKept
    OBVIOUS
  <1>1. Busy = {} /\ queue = {} /\ jobsLeft = 0
    BY DEF Init, Busy
  <1>2. Cardinality(queue) = 0 /\ Cardinality(Busy) = 0
    BY <1>1, FS_EmptySet
  <1>3. LimitKept <=> jobsLeft = Cardinality(queue) + Cardinality(Busy) /\ jobsLeft <= MaxQueueSize
    BY DEF LimitKept, Busy
  <1>. QED
    BY <1>1, <1>2, <1>3

\* The jobs that are queued or in the threads' hands are exactly those jobsLeft counts,
\* and they are never more than the queue may have.
THEOREM LimitIsKept == Spec => []LimitKept
  <1>1. NodeInv /\ LimitKept /\ [Next]_vars => LimitKept'
    BY LimitStep
  <1>. QED
    BY <1>1, LimitInitially, NodeInvariant, PTL DEF Spec

\* Every variable has its type, the counter of jobs a natural number among them.
THEOREM TypeCorrect == Spec => []TypeOK
  <1>1. NodeInv /\ LimitKept => TypeOK
    <2> SUFFICES ASSUME NodeInv, LimitKept PROVE TypeOK
      OBVIOUS
    <2> USE DEF NodeInv, Typed, PoolTyped, JobTyped, MainTyped, MapTyped
    <2>1. jobsLeft \in Nat
      BY SetsAreFinite, FS_CardinalityType DEF LimitKept, Busy
    <2>2. \A r \in Requests : \A i \in 1..Len(replies[r]) : replies[r][i] \in Results
      OBVIOUS
    <2>. QED
      BY <2>1, <2>2 DEF TypeOK, ThreadPcs
  <1>. QED
    BY <1>1, NodeInvariant, LimitIsKept, PTL

\* No message is lost on its way, answered twice, or worked on by two threads.
THEOREM EveryMessageIsInOnePlace == Spec => []AnsweredOnce
  <1>1. NodeInv => AnsweredOnce
    <2> SUFFICES ASSUME NodeInv, NEW r \in Requests, command[r] # NoCommand
                 PROVE  Len(replies[r]) + One(current = r) + One(r \in queue)
                          + Cardinality(Hands(r)) = 1
      BY DEF AnsweredOnce
    <2> USE DEF NodeInv, Typed, PoolTyped, JobTyped, MainTyped
    <2>0. Cardinality({}) = 0 /\ \A t : Cardinality({t}) = 1
      BY FS_EmptySet, FS_Singleton
    <2>1. CASE current = r
      <3>1. Hands(r) = {} /\ r \notin queue /\ Len(replies[r]) = 0
        BY <2>1 DEF Placed, Hands
      <3>. QED
        BY <2>0, <2>1, <3>1 DEF One
    <2>2. CASE r \in queue
      <3>1. Hands(r) = {} /\ r # current /\ Len(replies[r]) = 0
        BY <2>2 DEF Placed, Hands
      <3>. QED
        BY <2>0, <2>2, <3>1 DEF One
    <2>3. ASSUME NEW t \in Threads, job[t] = r
          PROVE  Len(replies[r]) + One(current = r) + One(r \in queue) + Cardinality(Hands(r)) = 1
      <3>1. r # current /\ r \notin queue
        BY <2>3 DEF Placed
      <3>2. Hands(r) = IF tpc[t] = "finish" THEN {} ELSE {t}
        BY <2>3 DEF Held, Hands
      <3>3. Len(replies[r]) = IF tpc[t] = "finish" THEN 1 ELSE 0
        BY <2>3 DEF Placed
      <3>4. CASE tpc[t] = "finish"
        BY <2>0, <3>1, <3>2, <3>3, <3>4 DEF One
      <3>5. CASE tpc[t] # "finish"
        <4>1. Cardinality(Hands(r)) = 1
          BY <2>0, <3>2, <3>5
        <4>. QED
          BY <3>1, <3>3, <3>5, <4>1 DEF One
      <3>. QED
        BY <3>4, <3>5
    <2>4. CASE r # current /\ r \notin queue /\ \A t \in Threads : job[t] # r
      <3>1. Hands(r) = {} /\ Len(replies[r]) = 1
        BY <2>4 DEF Placed, Hands
      <3>. QED
        BY <2>0, <2>4, <3>1 DEF One
    <2>. QED
      BY <2>1, <2>2, <2>3, <2>4
  <1>. QED
    BY <1>1, NodeInvariant, PTL

-----------------------------------------------------------------------------
\* The end of main.

\* What the destructor of the pool has waited for.
LEMMA EndOfMain == NodeInv => ExitIsClean
  <1> SUFFICES ASSUME NodeInv, stage \in {"joined", "over"}
               PROVE  AllIdle /\ \A r \in Requests : command[r] # NoCommand => replies[r] # <<>>
    BY DEF ExitIsClean
  <1> USE DEF NodeInv
  <1>1. queue = {} /\ AllIdle /\ current = NoRequest
    BY DEF Ended, Held
  <1>2. \A t \in Threads : job[t] = NoRequest
    BY <1>1 DEF AllIdle, Held
  <1>3. \A r \in Requests : command[r] # NoCommand => Len(replies[r]) = 1
    BY <1>1, <1>2 DEF Placed
  <1>. QED
    BY <1>1, <1>3

\* When the runner is destroyed, whatever was received is answered and no thread is in it.
THEOREM TheEndIsClean == Spec => []ExitIsClean
  BY EndOfMain, NodeInvariant, PTL

-----------------------------------------------------------------------------
\* The priorities.

\* The lookup of a priority may make an entry, and reads the same before and after.
LEMMA LookedChangesNothing ==
  ASSUME NEW c, NEW w, priorityMap' = Looked(c)
  PROVE  PriorityOf(w)' = PriorityOf(w)
  BY DEF Looked, PriorityOf

\* Every step that changes a priority is one that is asked to.
LEMMA PriorityStep ==
  ASSUME Next, NEW w, PriorityOf(w)' # PriorityOf(w)
  PROVE  On("set_priority") \/ On("remove_priority")
  <1>1. ASSUME priorityMap' = priorityMap PROVE FALSE
    BY <1>1 DEF PriorityOf
  <1>2. ~ AddJob /\ ~ Exhausted
    BY LookedChangesNothing DEF AddJob, Exhausted
  <1>3. ~ \E t \in Threads : JobStep(t) \/ Crash(t)
    BY <1>1 DEF JobStep, StartJob, Judge, CheckCode, Unsupported, Remove, BeginCompile, EndCompile,
       BeginRun, EndRun, SendResp, FinishJob, Crash, mainVars, nodeVars
  <1>4. ~ (Tick \/ Disconnect \/ JoinPool \/ DestroyRunner \/ Over)
    BY <1>1 DEF Tick, Disconnect, JoinPool, DestroyRunner, Over, vars, nodeVars
  <1>5. ~ \E r \in Requests, c \in Commands, s \in 0..MaxClock : Receive(r, c, s)
    BY <1>1 DEF Receive, nodeVars
  <1>6. ~ (SocketTimeout \/ InTime \/ Plain \/ GetStatistics \/ \E d \in Limits : SetMaxDiffTime(d))
    BY <1>1 DEF SocketTimeout, InTime, Plain, GetStatistics, SetMaxDiffTime, nodeVars
  <1>7. \/ \E v \in Words : RemovePriority(v)
        \/ \E v \in Words : \E p \in Levels : SetPriority(v, p)
    BY <1>2, <1>3, <1>4, <1>5, <1>6 DEF Next, Process
  <1>. QED
    BY <1>7 DEF RemovePriority, SetPriority

\* A job that looks its priority up changes none.
THEOREM PrioritiesOnlyChangeWhenSet == Spec => PrioritiesStay
  <1>1. [Next]_vars =>
          [\A w \in Words : PriorityOf(w)' # PriorityOf(w) =>
             On("set_priority") \/ On("remove_priority")]_vars
    BY PriorityStep
  <1>. QED
    BY <1>1, PTL DEF Spec, PrioritiesStay

-----------------------------------------------------------------------------
\* The compiles that were answered OK.

\* A compile that was answered OK, or will be.
Acked(r) == replies[r] = <<"OK">> \/ \E t \in Threads : job[t] = r /\ resp[t] = "OK"

\* The compile took effect, and if nothing has since, the pair holds its function.
InForce(r) == \E i \in DOMAIN effects :
                effects[i] = r /\ (i < Len(effects) \/ content = r \/ stage = "over")

\* What AcknowledgedCompileHolds says, from the moment the compile takes effect.
CompilesHold == \A r \in Requests : command[r] = "compile" /\ Acked(r) => InForce(r)

\* No reply is not the reply OK.
LEMMA NoneIsNotOK == <<>> # <<"OK">>
  <1>1. Len(<<>>) = 0 /\ Len(<<"OK">>) = 1
    OBVIOUS
  <1>. QED
    BY <1>1

\* Another effect comes after all there were.
LEMMA Appended ==
  ASSUME NEW r \in Requests, NEW q \in Requests, effects \in Seq(Requests), TakesEffect(q),
         \E i \in DOMAIN effects : effects[i] = r
  PROVE  InForce(r)'
  <1>1. PICK i \in DOMAIN effects : effects[i] = r
    OBVIOUS
  <1>2. Len(effects') = Len(effects) + 1 /\ i \in DOMAIN effects' /\ effects'[i] = r /\ i < Len(effects')
    BY <1>1 DEF TakesEffect
  <1>. QED
    BY <1>2 DEF InForce

\* No step takes a compile's function away, but one that takes effect after it.
LEMMA HoldStep ==
  ASSUME NodeInv, CompilesHold, [Next]_vars
  PROVE  CompilesHold'
  <1> USE DEF NodeInv, Typed, MainTyped, JobTyped
  <1>0. ASSUME NEW r \in Requests, command'[r] = "compile" => command[r] = "compile",
               Acked(r)' => Acked(r), UNCHANGED <<content, effects>>, stage = "over" => stage' = "over"
        PROVE  command'[r] = "compile" /\ Acked(r)' => InForce(r)'
    BY <1>0 DEF CompilesHold, InForce
  <1>1. CASE Answers
    <2>1. PICK x \in Refusals \cup {"OK"} :
            Send(x) /\ (x \notin Refusals => command[current] \in AdminCommands)
      BY <1>1 DEF Answers
    <2>2. /\ replies' = [replies EXCEPT ![current] = Append(@, x)] /\ current \in Requests
          /\ UNCHANGED <<job, resp, content, effects, command, stage>>
      BY <1>1, <2>1 DEF Answers, Send, Replied, behindVars, threadVars, storeVars, aroundVars
    <2>3. replies[current] = <<>> /\ \A r \in Requests : r # current => replies'[r] = replies[r]
      BY <2>2 DEF Placed
    <2>4. command[current] = "compile" => x \in Refusals
      BY <2>1 DEF AdminCommands, PlainCommands
    <2>5. command[current] = "compile" => replies'[current] # <<"OK">>
      <3>1. replies'[current] = <<x>>
        BY <2>2, <2>3
      <3>. QED
        BY <2>4, <3>1 DEF Refusals
    <2>6. ASSUME NEW r \in Requests, command[r] = "compile", Acked(r)' PROVE Acked(r)
      BY <2>2, <2>3, <2>5, <2>6 DEF Acked
    <2>. QED
      BY <1>0, <2>2, <2>6 DEF CompilesHold
  <1>2. ASSUME NEW t \in Threads, SendResp(t) PROVE CompilesHold'
    <2>1. /\ tpc[t] = "send" /\ resp' = [resp EXCEPT ![t] = NoResult]
          /\ replies' = [replies EXCEPT ![job[t]] = Append(@, resp[t])]
          /\ UNCHANGED <<job, content, effects, command, stage>>
      BY <1>2 DEF SendResp, Replied, mainVars, storeVars, messageVars, aroundVars
    <2>2. job[t] \in Requests /\ resp[t] \in Results
      BY <2>1 DEF Held, Handled
    <2>3. replies[job[t]] = <<>>
      BY <2>1, <2>2 DEF Placed
    <2>4. replies'[job[t]] = <<resp[t]>>
      BY <2>1, <2>2, <2>3
    <2>5. \A r \in Requests : r # job[t] => replies'[r] = replies[r]
      BY <2>1, <2>2
    <2>6. ASSUME NEW r \in Requests, Acked(r)' PROVE Acked(r)
      <3>1. CASE r = job[t] /\ replies'[r] = <<"OK">>
        BY <2>4, <3>1 DEF Acked
      <3>2. CASE r # job[t] /\ replies'[r] = <<"OK">>
        BY <2>5, <3>2 DEF Acked
      <3>3. ASSUME NEW u \in Threads, job'[u] = r, resp'[u] = "OK" PROVE Acked(r)
        BY <2>1, <3>3 DEF Acked, Results
      <3>. QED
        BY <2>6, <3>1, <3>2, <3>3 DEF Acked
    <2>. QED
      BY <1>0, <2>1, <2>6 DEF CompilesHold
  <1>3. ASSUME NEW t \in Threads, (\E r \in Requests : StartJob(t, r)) \/ FinishJob(t)
        PROVE  CompilesHold'
    <2>1. resp[t] = NoResult /\ UNCHANGED <<resp, replies, content, effects, command, stage>>
      BY <1>3 DEF StartJob, FinishJob, Handled, mainVars, storeVars, messageVars, aroundVars
    <2>2. \A u \in Threads : u # t => job'[u] = job[u]
      BY <1>3 DEF StartJob, FinishJob
    <2>3. \A r \in Requests : Acked(r)' => Acked(r)
      BY <2>1, <2>2 DEF Acked, Results
    <2>. QED
      BY <1>0, <2>1, <2>3 DEF CompilesHold
  <1>4. ASSUME NEW t \in Threads, EndCompile(t) \/ Remove(t) PROVE CompilesHold'
    <2>1. /\ job[t] \in Requests /\ command[job[t]] \in {"compile", "remove"}
          /\ TakesEffect(job[t])
          /\ UNCHANGED <<job, command, replies>>
      BY <1>4 DEF EndCompile, Remove, Respond, Command, Handled, Held, mainVars, messageVars, AllCommands,
         JobCommands
    <2>2. /\ resp' = [resp EXCEPT ![t] = resp'[t]]
          /\ command[job[t]] = "compile" => resp'[t] = "COMPILE_ERR" \/ content' = job[t]
      <3>1. CASE EndCompile(t)
        BY <3>1 DEF EndCompile, Respond
      <3>2. CASE Remove(t)
        <4>1. resp' = [resp EXCEPT ![t] = "OK"] /\ command[job[t]] = "remove"
          BY <2>1, <3>2 DEF Remove, Respond, Command
        <4>. QED
          BY <4>1
      <3>. QED
        BY <1>4, <3>1, <3>2
    <2>3. ASSUME NEW r \in Requests, r # job[t], command'[r] = "compile", Acked(r)'
          PROVE  InForce(r)'
      <3>1. \A u \in Threads : job[u] = r => resp'[u] = resp[u]
        BY <2>2, <2>3
      <3>2. InForce(r)
        BY <2>1, <2>3, <3>1 DEF CompilesHold, Acked
      <3>. QED
        BY <2>1, <3>2, Appended DEF InForce
    <2>4. ASSUME command[job[t]] = "compile", Acked(job[t])' PROVE content' = job[t]
      <3>1. replies[job[t]] # <<"OK">>
        <4>1. tpc[t] # "finish"
          BY <1>4 DEF EndCompile, Remove, Respond
        <4>2. replies[job[t]] = <<>>
          BY <2>1, <4>1 DEF Placed
        <4>. QED
          BY <4>2, NoneIsNotOK
      <3>2. PICK u \in Threads : job[u] = job[t] /\ resp'[u] = "OK"
        BY <2>1, <2>4, <3>1 DEF Acked
      <3>3. u = t
        BY <2>1, <3>2 DEF Held
      <3>. QED
        BY <2>2, <2>4, <3>2, <3>3
    <2>5. content' = job[t] => InForce(job[t])'
      <3>1. Len(effects') \in DOMAIN effects' /\ effects'[Len(effects')] = job[t]
        BY <2>1 DEF TakesEffect
      <3>. QED
        BY <2>1, <3>1 DEF InForce
    <2>. QED
      BY <2>1, <2>3, <2>4, <2>5 DEF CompilesHold
  <1>5. ASSUME NEW t \in Threads,
               \/ \E late \in BOOLEAN : Judge(t, late)
               \/ CheckCode(t) \/ Unsupported(t)
               \/ BeginCompile(t) \/ BeginRun(t) \/ EndRun(t)
        PROVE  CompilesHold'
    <2>1. UNCHANGED <<job, command, replies, content, effects, stage>>
      BY <1>5 DEF Judge, CheckCode, Checked, Unsupported, BeginCompile, BeginRun, EndRun, mainVars,
         messageVars, aroundVars, storeVars
    <2>2. \A u \in Threads : u # t => resp'[u] = resp[u]
      BY <1>5 DEF Judge, CheckCode, Unsupported, Respond, BeginCompile, BeginRun, EndRun
    <2>3. Command(t) = "compile" => resp'[t] # "OK" \/ resp'[t] = resp[t]
      BY <1>5 DEF Judge, CheckCode, Unsupported, Respond, BeginCompile, BeginRun, EndRun
    <2>4. ASSUME NEW r \in Requests, command[r] = "compile", Acked(r)' PROVE Acked(r)
      BY <2>1, <2>2, <2>3, <2>4 DEF Acked, Command
    <2>. QED
      BY <1>0, <2>1, <2>4 DEF CompilesHold
  <1>6. CASE DestroyRunner
    <2>1. UNCHANGED <<job, resp, replies, command, effects>> /\ stage' = "over"
      BY <1>6 DEF DestroyRunner, threadVars, messageVars
    <2>2. ASSUME NEW r \in Requests, command'[r] = "compile", Acked(r)' PROVE InForce(r)'
      <3>1. InForce(r)
        BY <2>1, <2>2 DEF CompilesHold, Acked
      <3>. QED
        BY <2>1, <3>1 DEF InForce
    <2>. QED
      BY <2>2 DEF CompilesHold
  <1>7. ASSUME UNCHANGED <<job, resp, replies, content, effects>>, stage = "over" => stage' = "over",
               \A r \in Requests : command'[r] = "compile" /\ Acked(r) => command[r] = "compile"
        PROVE  CompilesHold'
    <2>1. \A r \in Requests : Acked(r)' <=> Acked(r)
      BY <1>7 DEF Acked
    <2>. QED
      BY <1>0, <1>7, <2>1 DEF CompilesHold
  <1>8. CASE Process
    BY <1>1, <1>7, <1>8, AnswerSteps DEF Process, InTime, AddJob, behindVars, threadVars, storeVars,
       messageVars, aroundVars
  <1>9. CASE \E t \in Threads : JobStep(t)
    BY <1>2, <1>3, <1>4, <1>5, <1>9 DEF JobStep
  <1>10. CASE \/ Tick \/ Disconnect \/ JoinPool \/ UNCHANGED vars
              \/ \E t \in Threads : Crash(t)
    BY <1>7, <1>10 DEF Tick, Disconnect, JoinPool, Crash, vars, behindVars, threadVars, storeVars,
       messageVars
  <1>11. ASSUME NEW r \in Requests, NEW c \in Commands, NEW s \in 0..MaxClock, Receive(r, c, s)
         PROVE  CompilesHold'
    <2>1. replies[r] = <<>> /\ \A t \in Threads : job[t] # r
      BY <1>11 DEF Receive, Placed
    <2>2. ~ Acked(r)
      BY <2>1, NoneIsNotOK DEF Acked
    <2>. QED
      BY <1>7, <1>11, <2>2 DEF Receive, behindVars, threadVars, storeVars, aroundVars
  <1>. QED
    BY <1>6, <1>8, <1>9, <1>10, <1>11 DEF Next, Over

\* At first no compile was answered.
LEMMA HoldInitially == Init => CompilesHold
  BY DEF Init, CompilesHold, AllCommands, JobCommands

\* A compile that was answered OK has taken effect, and nothing but a compile or a remove
\* that takes effect after it undoes it.
THEOREM CompilesStay == Spec => []AcknowledgedCompileHolds
  <1>1. NodeInv /\ CompilesHold /\ [Next]_vars => CompilesHold'
    BY HoldStep
  <1>2. CompilesHold => AcknowledgedCompileHolds
    BY DEF CompilesHold, AcknowledgedCompileHolds, Acked, InForce
  <1>. QED
    BY <1>1, <1>2, HoldInitially, NodeInvariant, PTL DEF Spec

-----------------------------------------------------------------------------
\* Process and pool implement CommandService.

Answered == {r \in Requests : replies[r] # <<>>}

\* The outcome of a message: what it was sent, or what the thread that has it will send.
LEMMA ResultOf ==
  ASSUME NodeInv, NEW r \in Requests
  PROVE  /\ replies[r] # <<>> => Result[r] = replies[r][1]
         /\ \A t \in Threads : job[t] = r /\ resp[t] # NoResult => Result[r] = resp[t]
         /\ replies[r] = <<>> /\ (\A t \in Threads : job[t] = r => resp[t] = NoResult)
              => Result[r] = NoResult
  <1> USE DEF NodeInv, Typed, JobTyped
  <1>1. replies[r] # <<>> => Result[r] = replies[r][1]
    BY DEF Result
  <1>2. ASSUME NEW t \in Threads, job[t] = r, resp[t] # NoResult PROVE Result[r] = resp[t]
    <2>1. replies[r] = <<>>
      BY <1>2 DEF Handled, Placed
    <2>2. t \in Deciders(r) /\ \A u \in Deciders(r) : u = t
      BY <1>2 DEF Deciders, Held
    <2>3. (CHOOSE u \in Deciders(r) : TRUE) = t
      BY <2>2
    <2>. QED
      BY <2>1, <2>2, <2>3 DEF Result
  <1>3. ASSUME replies[r] = <<>>, \A t \in Threads : job[t] = r => resp[t] = NoResult
        PROVE  Result[r] = NoResult
    <2>1. Deciders(r) = {}
      BY <1>3 DEF Deciders
    <2>. QED
      BY <1>3, <2>1 DEF Result
  <1>. QED
    BY <1>1, <1>2, <1>3

\* The outcomes, compared one by one, where one of them changes.
LEMMA ResultChanges ==
  ASSUME NEW r \in Requests, NEW x, Result'[r] = x,
         \A q \in Requests : q # r => Result'[q] = Result[q]
  PROVE  Result' = [Result EXCEPT ![r] = x]
  <1>1. Result' = [q \in Requests |-> Result'[q]]
    BY DEF Result
  <1>2. [Result EXCEPT ![r] = x] = [q \in Requests |-> IF q = r THEN x ELSE Result[q]]
    BY DEF Result
  <1>. QED
    BY <1>1, <1>2

\* The outcomes, compared one by one, where none changes.
LEMMA ResultStays ==
  ASSUME \A q \in Requests : Result'[q] = Result[q]
  PROVE  Result' = Result
  <1>1. Result' = [q \in Requests |-> Result'[q]]
    BY DEF Result
  <1>2. Result = [q \in Requests |-> Result[q]]
    BY DEF Result
  <1>. QED
    BY <1>1, <1>2

\* Steps that neither decide nor answer anything.
LEMMA QuietSteps ==
  ASSUME UNCHANGED <<replies, job, resp>>
  PROVE  Result' = Result /\ Answered' = Answered
  BY DEF Result, Deciders, Answered

\* The node starts where the service does.
LEMMA ServiceInitially == Init => Service!ServiceInit
  <1> SUFFICES ASSUME Init PROVE Service!ServiceInit
    OBVIOUS
  <1>1. NodeInv
    BY NodeInitially
  <1>2. \A r \in Requests : replies[r] = <<>> /\ Result[r] = NoResult
    BY <1>1, ResultOf DEF Init
  <1>3. Result = [r \in Requests |-> NoResult]
    BY <1>2 DEF Result
  <1>. QED
    BY <1>2, <1>3 DEF Init, Service!ServiceInit

\* process answers its message: it is refused, or carried out and answered at once.
LEMMA AnswerIsAnswer ==
  ASSUME NodeInv, Answers, NEW r \in Requests, r = current
  PROVE  Service!Answer(r)
  <1> USE DEF NodeInv, Typed, MainTyped, JobTyped
  <1>1. PICK x \in Refusals \cup {"OK"} :
          Send(x) /\ (x \notin Refusals => command[r] \in AdminCommands)
    BY DEF Answers
  <1>2. /\ replies' = [replies EXCEPT ![r] = Append(@, x)]
        /\ UNCHANGED <<job, resp, content, command>>
    BY <1>1 DEF Answers, Send, Replied, behindVars, threadVars, storeVars
  <1>3. /\ replies[r] = <<>> /\ command[r] # NoCommand
        /\ \A t \in Threads : job[t] # r
    BY <1>2 DEF Placed
  <1>4. replies'[r] = <<x>> /\ Len(replies'[r]) = 1
    BY <1>2, <1>3
  <1>5. Result[r] = NoResult /\ Result'[r] = x
    <2>1. Result[r] = NoResult
      BY <1>2, <1>3, ResultOf
    <2>2. replies'[r] # <<>>
      BY <1>4
    <2>3. Result'[r] = replies'[r][1]
      BY <1>2, <2>2 DEF Result
    <2>. QED
      BY <1>4, <2>1, <2>3
  <1>6. \A q \in Requests : q # r => Result'[q] = Result[q]
    BY <1>2 DEF Result, Deciders
  <1>7. Service!Decide(r, x)
    BY <1>2, <1>3, <1>5, <1>6, ResultChanges DEF Service!Decide
  <1>8. r \notin Answered /\ Answered' = Answered \cup {r}
    BY <1>2, <1>3, <1>4 DEF Answered
  <1>9. CASE x \in Refusals
    BY <1>2, <1>7, <1>8, <1>9 DEF Service!Answer, Service!Carry, Service!Refuse, Answered
  <1>10. CASE x \notin Refusals
    <2>1. command[r] \notin {"compile", "remove", "run"}
      BY <1>1, <1>10 DEF AdminCommands, PlainCommands
    <2>. QED
      BY <1>2, <1>7, <1>8, <1>10, <2>1 DEF Service!Answer, Service!Carry, Service!Other, Answered
  <1>. QED
    BY <1>9, <1>10

\* What one thread does to its own reply changes the outcome of no other message.
LEMMA OthersKeepTheirs ==
  ASSUME NodeInv, NEW t \in Threads, NEW r \in Requests, job[t] = r, UNCHANGED job,
         \A q \in Requests : q # r => replies'[q] = replies[q],
         \A u \in Threads : u # t => resp'[u] = resp[u]
  PROVE  \A q \in Requests : q # r => Result'[q] = Result[q]
  <1>1. \A q \in Requests : q # r => Deciders(q)' = Deciders(q) /\ t \notin Deciders(q)
    BY DEF Deciders
  <1>2. ASSUME NEW q \in Requests, q # r PROVE Result'[q] = Result[q]
    <2>1. CASE Deciders(q) = {}
      BY <1>1, <1>2, <2>1 DEF Result
    <2>2. CASE Deciders(q) # {}
      <3>1. PICK u \in Threads : u = (CHOOSE v \in Deciders(q) : TRUE) /\ u \in Deciders(q)
        BY <2>2 DEF Deciders
      <3>2. u # t /\ resp'[u] = resp[u]
        BY <1>1, <1>2, <3>1
      <3>3. (CHOOSE v \in Deciders(q) : TRUE)' = u
        BY <1>1, <1>2, <3>1
      <3>. QED
        BY <1>1, <1>2, <2>2, <3>1, <3>2, <3>3 DEF Result
    <2>. QED
      BY <2>1, <2>2
  <1>. QED
    BY <1>2

\* The thread that has r settles what its outcome is.
LEMMA Settles ==
  ASSUME NodeInv, NEW t \in Threads, NEW r \in Requests, NEW x, x # NoResult,
         job[t] = r, tpc[t] \notin {"run", "send", "finish"},
         UNCHANGED <<replies, job, command>>, resp' = [resp EXCEPT ![t] = x]
  PROVE  Service!Decide(r, x) /\ Answered' = Answered
  <1> USE DEF NodeInv, Typed, MainTyped, JobTyped
  <1>1. command[r] # NoCommand /\ replies[r] = <<>> /\ resp[t] = NoResult
    BY DEF Placed, Handled
  <1>2. \A u \in Threads : job[u] = r => u = t
    BY DEF Held
  <1>3. Result[r] = NoResult
    BY <1>1, <1>2, ResultOf
  <1>4. Deciders(r)' = {t}
    BY <1>2 DEF Deciders
  <1>5. Result'[r] = x
    <2>1. (CHOOSE u \in Deciders(r) : TRUE)' = t
      BY <1>4
    <2>2. Result'[r] = resp'[t]
      BY <1>1, <1>4, <2>1 DEF Result
    <2>. QED
      BY <2>2
  <1>6. \A q \in Requests : q # r => Result'[q] = Result[q]
    BY OthersKeepTheirs
  <1>. QED
    BY <1>1, <1>3, <1>5, <1>6, ResultChanges DEF Service!Decide, Answered

\* A thread's job takes effect: the late one is refused, any other is carried out.
LEMMA JobTakesEffect ==
  ASSUME NodeInv, NEW t \in Threads, NEW r \in Requests, job[t] = r,
         \/ Judge(t, TRUE)
         \/ CheckCode(t) \/ Unsupported(t) \/ Remove(t) \/ EndCompile(t) \/ BeginRun(t)
  PROVE  Service!Carry(r) /\ Answered' = Answered
  <1> USE DEF NodeInv, Typed, MainTyped, JobTyped, Service!Carry
  <1>1. /\ UNCHANGED <<replies, job, command>>
        /\ tpc[t] \in {"judge", "command", "compile"} /\ Command(t) = command[r]
    BY DEF Judge, CheckCode, Unsupported, Remove, EndCompile, BeginRun, Respond, Command,
       mainVars, messageVars
  <1>2. NoResult \notin Results
    OBVIOUS
  <1>3. ASSUME NEW x \in Results, resp' = [resp EXCEPT ![t] = x]
        PROVE  Service!Decide(r, x) /\ Answered' = Answered
    BY <1>1, <1>2, <1>3, Settles
  <1>4. CASE Judge(t, TRUE)
    BY <1>3, <1>4 DEF Judge, Service!Refuse, Refusals, Results, storeVars
  <1>5. CASE CheckCode(t)
    <2>1. PICK x \in {"OK", "COMPILE_ERR"} : resp' = [resp EXCEPT ![t] = x]
      BY <1>5 DEF CheckCode, Respond
    <2>2. command[r] = "check_code" /\ content' = content
      BY <1>1, <1>5 DEF CheckCode, Checked
    <2>. QED
      BY <1>3, <2>1, <2>2 DEF Service!Other, Results
  <1>6. CASE Unsupported(t)
    BY <1>1, <1>3, <1>6 DEF Unsupported, Respond, Service!Other, Results, storeVars
  <1>7. CASE Remove(t)
    BY <1>1, <1>3, <1>7 DEF Remove, Respond, Dropped, Service!Remove, Service!Dropped, Results
  <1>8. CASE EndCompile(t)
    <2>1. command[r] = "compile"
      BY <1>1, <1>8 DEF EndCompile, Respond, Handled
    <2>2. CASE Respond(t, "compile", "OK") /\ content' = job[t]
      BY <1>3, <2>1, <2>2 DEF Respond, Service!Compile, Results
    <2>3. CASE Respond(t, "compile", "COMPILE_ERR") /\ content' = Dropped
      BY <1>3, <2>1, <2>3 DEF Respond, Dropped, Service!Compile, Service!Dropped, Results
    <2>. QED
      BY <1>8, <2>2, <2>3 DEF EndCompile
  <1>9. CASE BeginRun(t)
    BY <1>1, <1>3, <1>9 DEF BeginRun, Service!Run, Results, storeVars
  <1>. QED
    BY <1>4, <1>5, <1>6, <1>7, <1>8, <1>9

\* A thread sends the outcome of its job.
LEMMA SendIsAnswer ==
  ASSUME NodeInv, NEW t \in Threads, NEW r \in Requests, job[t] = r, SendResp(t)
  PROVE  Service!Answer(r)
  <1> USE DEF NodeInv, Typed, MainTyped, JobTyped
  <1>1. /\ tpc[t] = "send" /\ resp' = [resp EXCEPT ![t] = NoResult]
        /\ replies' = [replies EXCEPT ![r] = Append(@, resp[t])]
        /\ UNCHANGED <<job, content, command>>
    BY DEF SendResp, Replied, mainVars, storeVars, messageVars
  <1>2. resp[t] \in Results /\ resp[t] # NoResult /\ replies[r] = <<>>
    BY <1>1 DEF Handled, Placed
  <1>3. replies'[r] = <<resp[t]>> /\ Len(replies'[r]) = 1
    BY <1>1, <1>2
  <1>4. Result'[r] = Result[r] /\ Result[r] # NoResult
    <2>1. Result[r] = resp[t]
      BY <1>2, ResultOf
    <2>2. replies'[r] # <<>>
      BY <1>3
    <2>3. Result'[r] = replies'[r][1]
      BY <2>2 DEF Result
    <2>. QED
      BY <1>2, <1>3, <2>1, <2>3
  <1>5. \A q \in Requests : q # r => Result'[q] = Result[q]
    BY <1>1, OthersKeepTheirs
  <1>6. Result' = Result
    BY <1>4, <1>5, ResultStays
  <1>7. r \notin Answered /\ Answered' = Answered \cup {r}
    BY <1>1, <1>2, <1>3 DEF Answered
  <1>. QED
    BY <1>1, <1>4, <1>6, <1>7 DEF Service!Answer, Answered

\* Every step of the node is a step of the service or changes nothing in it.
LEMMA ServiceStep == NodeInv /\ [Next]_vars => [Service!ServiceNext]_(Service!serviceVars)
  <1> SUFFICES ASSUME NodeInv, [Next]_vars
               PROVE  Service!ServiceNext \/ UNCHANGED <<content, command, Result, Answered>>
    BY DEF Service!serviceVars, Answered
  <1> USE DEF NodeInv, Typed, MainTyped, JobTyped
  <1>1. ASSUME NEW r \in Requests, NEW c \in Commands, NEW s \in 0..MaxClock, Receive(r, c, s)
        PROVE  Service!Accept(r) /\ Answered' = Answered
    <2>1. /\ command[r] = NoCommand /\ command' = [command EXCEPT ![r] = c] /\ c \in AllCommands
          /\ UNCHANGED <<replies, job, resp, content>>
      BY <1>1 DEF Receive, behindVars, threadVars, storeVars
    <2>2. Result' = Result /\ Answered' = Answered
      BY <2>1, QuietSteps
    <2>. QED
      BY <2>1, <2>2 DEF Service!Accept, Answered
  <1>2. CASE Answers
    <2>0. PICK r \in Requests : r = current
      BY <1>2 DEF Answers
    <2>1. Service!Answer(r)
      BY <1>2, <2>0, AnswerIsAnswer
    <2>. QED
      BY <2>1 DEF Service!ServiceNext
  <1>3. CASE InTime \/ AddJob \/ Tick \/ Disconnect \/ JoinPool \/ (\E t \in Threads : Crash(t))
             \/ UNCHANGED vars
    <2>1. UNCHANGED <<replies, job, resp, content, command>>
      BY <1>3 DEF InTime, AddJob, Tick, Disconnect, JoinPool, Crash, vars, behindVars, threadVars,
         storeVars, messageVars
    <2>. QED
      BY <2>1, QuietSteps
  <1>4. CASE DestroyRunner
    <2>1. /\ stage = "joined" /\ content' = Absent
          /\ UNCHANGED <<replies, job, resp, command>>
      BY <1>4 DEF DestroyRunner, threadVars, messageVars
    <2>2. Result' = Result /\ Answered' = Answered
      BY <2>1, QuietSteps
    <2>3. \A r \in Requests : command[r] # NoCommand => r \in Answered
      BY <2>1, EndOfMain DEF ExitIsClean, Answered
    <2>4. Service!Stop
      BY <2>1, <2>2, <2>3 DEF Service!Stop, Answered
    <2>. QED
      BY <2>4 DEF Service!ServiceNext
  <1>5. ASSUME NEW t \in Threads, (\E r \in Requests : StartJob(t, r)) \/ FinishJob(t)
        PROVE  UNCHANGED <<content, command, Result, Answered>>
    <2>1. UNCHANGED <<replies, resp, content, command>> /\ resp[t] = NoResult
      BY <1>5 DEF StartJob, FinishJob, Handled, mainVars, storeVars, messageVars
    <2>2. \A u \in Threads : u # t => job'[u] = job[u]
      BY <1>5 DEF StartJob, FinishJob
    <2>3. \A q \in Requests : Deciders(q)' = Deciders(q)
      BY <2>1, <2>2 DEF Deciders
    <2>5. ASSUME NEW q \in Requests PROVE Result'[q] = Result[q]
      <3>1. (CHOOSE v \in Deciders(q) : TRUE)' = (CHOOSE v \in Deciders(q) : TRUE)
        BY <2>3
      <3>. QED
        BY <2>1, <2>3, <3>1 DEF Result
    <2>. QED
      BY <2>1, <2>5, ResultStays DEF Answered
  <1>6. ASSUME NEW t \in Threads, BeginCompile(t) \/ EndRun(t) \/ Judge(t, FALSE)
        PROVE  UNCHANGED <<content, command, Result, Answered>>
    <2>1. UNCHANGED <<replies, job, resp, content, command>>
      BY <1>6 DEF BeginCompile, EndRun, Judge, mainVars, storeVars, messageVars
    <2>. QED
      BY <2>1, QuietSteps
  <1>7. ASSUME NEW t \in Threads,
               \/ Judge(t, TRUE) \/ CheckCode(t) \/ Unsupported(t) \/ Remove(t)
               \/ EndCompile(t) \/ BeginRun(t)
        PROVE  Service!ServiceNext
    <2>1. PICK r \in Requests : job[t] = r
      BY <1>7 DEF Judge, CheckCode, Unsupported, Remove, EndCompile, BeginRun, Respond, Held
    <2>2. Service!Carry(r) /\ Answered' = Answered
      BY <1>7, <2>1, JobTakesEffect
    <2>. QED
      BY <2>2 DEF Service!ServiceNext, Answered
  <1>8. ASSUME NEW t \in Threads, SendResp(t) PROVE Service!ServiceNext
    <2>1. PICK r \in Requests : job[t] = r
      BY <1>8 DEF SendResp, Held
    <2>2. Service!Answer(r)
      BY <1>8, <2>1, SendIsAnswer
    <2>. QED
      BY <2>2 DEF Service!ServiceNext
  <1>9. CASE Process
    BY <1>2, <1>3, <1>9, AnswerSteps DEF Process
  <1>10. ASSUME NEW t \in Threads, JobStep(t)
         PROVE  Service!ServiceNext \/ UNCHANGED <<content, command, Result, Answered>>
    <2>1. (\E late \in BOOLEAN : Judge(t, late)) => Judge(t, TRUE) \/ Judge(t, FALSE)
      <3>1. \A late \in BOOLEAN : late = TRUE \/ late = FALSE
        OBVIOUS
      <3>. QED
        BY <3>1
    <2>. QED
      BY <1>5, <1>6, <1>7, <1>8, <1>10, <2>1 DEF JobStep
  <1>11. CASE \E r \in Requests, c \in Commands, s \in 0..MaxClock : Receive(r, c, s)
    BY <1>1, <1>11 DEF Service!ServiceNext, Answered
  <1>. QED
    BY <1>3, <1>4, <1>9, <1>10, <1>11 DEF Next, Over

\* Every answer is the outcome of a command that took effect once, between its request
\* and its answer, or of one that did nothing.
THEOREM NodeImplementsService == Spec => ServiceSpec
  BY NodeInvariant, ServiceInitially, ServiceStep, PTL DEF Spec, ServiceSpec, Service!ServiceSpec

-----------------------------------------------------------------------------
\* Process and pool use of the pool what JobLedger says of it.

\* What only process answers, and never a job.
NotByJob == {"SOCKET_TIMEOUT", "THREAD_POOL_EXHAUSTED"}

\* What is queued or in a thread's hands is a job, and no job is answered with a refusal
\* that is process's.
JobsInv == /\ \A r \in queue : command[r] \notin AdminCommands
           /\ \A t \in Threads : job[t] # NoRequest => command[job[t]] \notin AdminCommands
           /\ \A t \in Threads : resp[t] \notin NotByJob

\* At first there is no job.
LEMMA JobsInitially == Init => JobsInv
  BY DEF Init, JobsInv, NotByJob, Results, Refusals

\* What a thread decides is not one of those answers.
LEMMA WorksAnswer ==
  ASSUME NodeInv, JobsInv, NEW t \in Threads,
         \/ \E late \in BOOLEAN : Judge(t, late)
         \/ CheckCode(t) \/ Unsupported(t) \/ Remove(t)
         \/ BeginCompile(t) \/ EndCompile(t) \/ BeginRun(t) \/ EndRun(t)
  PROVE  \A u \in Threads : resp'[u] \notin NotByJob
  <1> USE DEF NodeInv, Typed, JobTyped
  <1>1. content \notin NotByJob
    BY DEF NotByJob, Refusals
  <1>2. resp' = resp \/ \E x : x \notin NotByJob /\ resp' = [resp EXCEPT ![t] = x]
    BY <1>1 DEF Judge, CheckCode, Unsupported, Remove, BeginCompile, EndCompile, BeginRun, EndRun,
       Respond, NotByJob
  <1>. QED
    BY <1>2 DEF JobsInv

\* Every step keeps it.
LEMMA JobsStep == NodeInv /\ JobsInv /\ [Next]_vars => JobsInv'
  <1> SUFFICES ASSUME NodeInv, JobsInv, [Next]_vars PROVE JobsInv'
    OBVIOUS
  <1> USE DEF NodeInv, Typed, MainTyped, PoolTyped, JobTyped
  <1>0. ASSUME UNCHANGED <<command, queue, job, resp>> PROVE JobsInv'
    BY <1>0 DEF JobsInv
  <1>1. ASSUME NEW r \in Requests, NEW c \in Commands, NEW s \in 0..MaxClock, Receive(r, c, s)
        PROVE  JobsInv'
    <2>1. /\ command[r] = NoCommand /\ command' = [command EXCEPT ![r] = c]
          /\ UNCHANGED <<queue, job, resp>>
      BY <1>1 DEF Receive, behindVars, poolVars, threadVars
    <2>2. r \notin queue /\ \A t \in Threads : job[t] # r
      BY <2>1 DEF Placed
    <2>. QED
      BY <2>1, <2>2 DEF JobsInv
  <1>2. CASE Answers
    BY <1>0, <1>2 DEF Answers, behindVars, poolVars, threadVars
  <1>3. CASE AddJob
    <2>1. /\ command[current] \notin AdminCommands /\ queue' = queue \cup {current}
          /\ UNCHANGED <<command, job, resp>>
      BY <1>3 DEF AddJob, IsJob, messageVars, threadVars
    <2>. QED
      BY <2>1 DEF JobsInv
  <1>4. ASSUME \/ Tick \/ InTime \/ Disconnect \/ JoinPool \/ DestroyRunner \/ UNCHANGED vars
               \/ \E t \in Threads : Crash(t)
        PROVE  JobsInv'
    BY <1>0, <1>4 DEF Tick, InTime, Disconnect, JoinPool, DestroyRunner, Crash, vars, behindVars,
       poolVars, threadVars, messageVars
  <1>5. ASSUME NEW t \in Threads, NEW r \in Requests, StartJob(t, r) PROVE JobsInv'
    <2>1. /\ r \in queue /\ queue' = queue \ {r} /\ job' = [job EXCEPT ![t] = r]
          /\ UNCHANGED <<command, resp>>
      BY <1>5 DEF StartJob, mainVars, messageVars
    <2>. QED
      BY <2>1 DEF JobsInv
  <1>6. ASSUME NEW t \in Threads,
               \/ \E late \in BOOLEAN : Judge(t, late)
               \/ CheckCode(t) \/ Unsupported(t) \/ Remove(t)
               \/ BeginCompile(t) \/ EndCompile(t) \/ BeginRun(t) \/ EndRun(t)
        PROVE  JobsInv'
    <2>1. Works(t) /\ \A u \in Threads : resp'[u] \notin NotByJob
      BY <1>6, WorkSteps, WorksAnswer
    <2>. QED
      BY <2>1 DEF Works, JobsInv, mainVars, messageVars, poolVars
  <1>7. ASSUME NEW t \in Threads, SendResp(t) PROVE JobsInv'
    <2>1. resp' = [resp EXCEPT ![t] = NoResult] /\ UNCHANGED <<command, queue, job>>
      BY <1>7 DEF SendResp, mainVars, messageVars, poolVars
    <2>2. NoResult \notin NotByJob
      BY DEF NotByJob, Results, Refusals
    <2>. QED
      BY <2>1, <2>2 DEF JobsInv
  <1>8. ASSUME NEW t \in Threads, FinishJob(t) PROVE JobsInv'
    <2>1. job' = [job EXCEPT ![t] = NoRequest] /\ UNCHANGED <<command, queue, resp>>
      BY <1>8 DEF FinishJob, mainVars, messageVars
    <2>. QED
      BY <2>1 DEF JobsInv
  <1>9. CASE Process
    BY <1>2, <1>3, <1>4, <1>9, AnswerSteps DEF Process
  <1>10. CASE \E t \in Threads : JobStep(t)
    BY <1>5, <1>6, <1>7, <1>8, <1>10 DEF JobStep
  <1>. QED
    BY <1>1, <1>4, <1>9, <1>10 DEF Next, Over

\* The fates, compared one by one, where none changes ...
LEMMA FatesStay ==
  ASSUME queue' = queue,
         \A r \in Requests : Hands(r)' = Hands(r),
         \A r \in Requests : Sent(r)' = Sent(r)
  PROVE  Fate' = Fate
  BY DEF Fate

\* ... and where one does.
LEMMA FateChanges ==
  ASSUME NEW r \in Requests, NEW x, Fate'[r] = x,
         \A q \in Requests : q # r => Fate'[q] = Fate[q]
  PROVE  Fate' = [Fate EXCEPT ![r] = x]
  <1>1. Fate' = [q \in Requests |-> Fate'[q]]
    BY DEF Fate
  <1>2. [Fate EXCEPT ![r] = x] = [q \in Requests |-> IF q = r THEN x ELSE Fate[q]]
    BY DEF Fate
  <1>. QED
    BY <1>1, <1>2

\* One reply is another only if it says the same, and is never none.
LEMMA OneReply == \A x : <<x>> # <<>> /\ \A y : <<x>> = <<y>> => x = y
  <1>1. \A x : Len(<<x>>) = 1 /\ <<x>>[1] = x
    OBVIOUS
  <1>2. Len(<<>>) = 0
    OBVIOUS
  <1>. QED
    BY <1>1, <1>2

\* The first reply to a message is all it has been sent.
LEMMA FirstReply ==
  ASSUME NodeInv, NEW r \in Requests, NEW x \in Results, replies[r] = <<>>,
         replies' = Replied(r, x)
  PROVE  /\ replies'[r] = <<x>>
         /\ \A q \in Requests : q # r => replies'[q] = replies[q]
  BY DEF NodeInv, Typed, JobTyped, Replied

\* The node starts where the ledger does.
LEMMA LedgerInitially == Init => Ledger!LedgerInit
  <1> SUFFICES ASSUME Init PROVE Ledger!LedgerInit
    OBVIOUS
  <1>1. \A r \in Requests : Hands(r) = {} /\ r \notin queue /\ Sent(r) = "new"
    BY DEF Init, Hands, Sent
  <1>2. Fate = [r \in Requests |-> "new"]
    BY <1>1 DEF Fate
  <1>. QED
    BY <1>2 DEF Init, Phase, Ledger!LedgerInit

\* process answers administrative commands, and what is too late for it, without the pool.
LEMMA AnswersKeepFates ==
  ASSUME NodeInv, Answers, Send("SOCKET_TIMEOUT") \/ command[current] \in AdminCommands
  PROVE  Fate' = Fate
  <1> USE DEF NodeInv, Typed, MainTyped
  <1>0. PICK r \in Requests : r = current
    BY DEF Answers
  <1>1. PICK x \in Refusals \cup {"OK"} :
          Send(x) /\ (x = "SOCKET_TIMEOUT" \/ command[current] \in AdminCommands)
    BY DEF Answers, Refusals
  <1>2. /\ replies' = Replied(r, x) /\ r = current
        /\ UNCHANGED <<command, queue, tpc, job>>
    BY <1>0, <1>1 DEF Answers, Send, behindVars, poolVars, threadVars
  <1>3. replies[r] = <<>> /\ x \in Results
    BY <1>2 DEF Placed, Results
  <1>4. /\ replies'[r] = <<x>>
        /\ \A q \in Requests : q # r => replies'[q] = replies[q]
    BY <1>2, <1>3, FirstReply
  <1>5. Sent(r) = "new" /\ Sent(r)' = "new"
    BY <1>1, <1>2, <1>3, <1>4 DEF Sent
  <1>6. \A q \in Requests : q # r => Sent(q)' = Sent(q)
    BY <1>2, <1>4 DEF Sent
  <1>7. \A q \in Requests : Sent(q)' = Sent(q)
    BY <1>5, <1>6, <1>2
  <1>8. \A q \in Requests : Hands(q)' = Hands(q)
    BY <1>2 DEF Hands
  <1>. QED
    BY <1>2, <1>7, <1>8, FatesStay

\* The reply to a job that was refused is the ledger's refusal.
LEMMA ExhaustedIsRefuse ==
  ASSUME NodeInv, Exhausted
  PROVE  \E r \in Requests : Ledger!Refuse(r)
  <1> USE DEF NodeInv, Typed, MainTyped
  <1>r. PICK r \in Requests : r = current
    BY JobCommand DEF Exhausted
  <1>1. /\ r = current /\ command[r] \notin AdminCommands
        /\ jobsLeft >= MaxQueueSize /\ stage = "serving"
        /\ replies' = Replied(r, "THREAD_POOL_EXHAUSTED")
        /\ UNCHANGED <<command, queue, jobsLeft, priority, tpc, job, stage>>
    BY <1>r, JobCommand DEF Exhausted, IsJob, Full, Refuse, Send, Ended, behindVars, poolVars, threadVars,
       aroundVars, messageVars
  <1>2. /\ replies[r] = <<>> /\ r \notin queue
        /\ \A t \in Threads : job[t] # r
    BY <1>1 DEF Placed
  <1>3. /\ replies'[r] = <<"THREAD_POOL_EXHAUSTED">>
        /\ \A q \in Requests : q # r => replies'[q] = replies[q]
    BY <1>1, <1>2, FirstReply DEF Results, Refusals
  <1>4. Hands(r) = {} /\ \A q \in Requests : Hands(q)' = Hands(q)
    BY <1>1, <1>2 DEF Hands
  <1>5. Sent(r) = "new" /\ Sent(r)' = "refused"
    BY <1>1, <1>2, <1>3, OneReply DEF Sent
  <1>6. \A q \in Requests : q # r => Sent(q)' = Sent(q)
    BY <1>1, <1>3 DEF Sent
  <1>7. Fate[r] = "new" /\ Fate'[r] = "refused"
    BY <1>1, <1>2, <1>4, <1>5 DEF Fate
  <1>8. \A q \in Requests : q # r => Fate'[q] = Fate[q]
    BY <1>1, <1>4, <1>6 DEF Fate
  <1>9. Fate' = [Fate EXCEPT ![r] = "refused"]
    BY <1>1, <1>7, <1>8, FateChanges
  <1>10. Phase = "open" /\ Phase' = Phase
    BY <1>1 DEF Phase
  <1>. QED
    BY <1>1, <1>7, <1>9, <1>10 DEF Ledger!Refuse, Ledger!Becomes

\* A message that becomes a job is one the ledger accepts, there being one caller.
LEMMA AddJobIsAccept ==
  ASSUME NodeInv, AddJob
  PROVE  \E r \in Requests : Ledger!Accept(r)
  <1> USE DEF NodeInv, Typed, MainTyped, PoolTyped
  <1>0. PriorityOf(command[current]) \in Levels \cup {0, 1}
    BY DEF PriorityOf, MapTyped
  <1>r. PICK r \in Requests : r = current
    BY JobCommand DEF AddJob
  <1>1. /\ r = current
        /\ ~ (jobsLeft >= MaxQueueSize) /\ stage = "serving"
        /\ queue' = queue \cup {r} /\ jobsLeft' = jobsLeft + 1
        /\ priority' = [priority EXCEPT ![r] = PriorityOf(command[current])]
        /\ UNCHANGED <<command, replies, tpc, job, stage>>
    BY <1>r, JobCommand DEF AddJob, IsJob, Full, Counted, Ended, threadVars, aroundVars, messageVars
  <1>2. /\ replies[r] = <<>> /\ r \notin queue
        /\ \A t \in Threads : job[t] # r
    BY <1>1 DEF Placed
  <1>3. Hands(r) = {} /\ \A q \in Requests : Hands(q)' = Hands(q) /\ Sent(q)' = Sent(q)
    BY <1>1, <1>2 DEF Hands, Sent
  <1>4. Sent(r) = "new"
    BY <1>2 DEF Sent
  <1>5. Fate[r] = "new" /\ Fate'[r] = "queued"
    BY <1>1, <1>2, <1>3, <1>4 DEF Fate
  <1>6. \A q \in Requests : q # r => Fate'[q] = Fate[q]
    BY <1>1, <1>3 DEF Fate
  <1>7. Fate' = [Fate EXCEPT ![r] = "queued"]
    BY <1>1, <1>5, <1>6, FateChanges
  <1>8. Phase = "open" /\ Phase' = Phase
    BY <1>1 DEF Phase
  <1>l. Levels \cup {0, 1} \subseteq Int
    OBVIOUS
  <1>9. priority'[r] \in Int /\ priority' = [priority EXCEPT ![r] = priority'[r]]
    BY <1>0, <1>1, <1>l
  <1>10. jobsLeft < MaxQueueSize + 1 - 1
    BY <1>1
  <1>. QED
    BY <1>1, <1>5, <1>7, <1>8, <1>9, <1>10 DEF Ledger!Accept, Ledger!Becomes

\* A thread starts the job the ledger would.
LEMMA StartIsStart ==
  ASSUME NodeInv, NEW t \in Threads, NEW r \in Requests, StartJob(t, r), stage # "crashed"
  PROVE  Ledger!Start(r)
  <1> USE DEF NodeInv, Typed, MainTyped, PoolTyped, JobTyped
  <1>1. /\ tpc[t] = "idle" /\ tpc' = [tpc EXCEPT ![t] = "judge"]
        /\ r \in queue /\ \A q \in queue : priority[q] <= priority[r]
        /\ queue' = queue \ {r} /\ job' = [job EXCEPT ![t] = r]
        /\ UNCHANGED <<command, replies, jobsLeft, priority, stage>>
    BY DEF StartJob, mainVars, messageVars, aroundVars
  <1>2. job[t] = NoRequest
    BY <1>1 DEF Held
  <1>3. t \in Hands(r)'
    BY <1>1 DEF Hands
  <1>4. \A q \in Requests : q # r => Hands(q)' = Hands(q)
    BY <1>1, <1>2 DEF Hands
  <1>5. \A q \in Requests : Sent(q)' = Sent(q)
    BY <1>1 DEF Sent
  <1>6. Fate[r] = "queued" /\ Fate'[r] = "running"
    BY <1>1, <1>3 DEF Fate
  <1>7. \A q \in Requests : q # r => Fate'[q] = Fate[q]
    BY <1>1, <1>4, <1>5 DEF Fate
  <1>8. Fate' = [Fate EXCEPT ![r] = "running"]
    BY <1>6, <1>7, FateChanges
  <1>9. Phase # "closed" /\ Phase' = Phase
    <2>1. stage \notin {"joined", "over"}
      BY <1>1 DEF Ended
    <2>. QED
      BY <1>1, <2>1 DEF Phase
  <1>10. \A k \in Requests : Fate[k] = "queued" => k \in queue
    BY DEF Fate, Sent
  <1>11. \A k \in Requests : Fate[k] = "queued" => ~ (priority[r] < priority[k])
    <2>1. Levels \cup {0, 1} \subseteq Int
      OBVIOUS
    <2>2. \A k \in Requests : priority[k] \in Int
      BY <2>1
    <2>. QED
      BY <1>1, <1>10, <2>2
  <1>. QED
    BY <1>1, <1>6, <1>8, <1>9, <1>11 DEF Ledger!Start, Ledger!Becomes

\* A job is done when its reply is sent, which is never one that process would send.
LEMMA SendIsComplete ==
  ASSUME NodeInv, JobsInv, NEW t \in Threads, SendResp(t)
  PROVE  job[t] \in Requests /\ Ledger!Complete(job[t])
  <1> USE DEF NodeInv, Typed, MainTyped, PoolTyped, JobTyped
  <1>1. /\ tpc[t] = "send" /\ tpc' = [tpc EXCEPT ![t] = "finish"]
        /\ replies' = Replied(job[t], resp[t])
        /\ UNCHANGED <<command, queue, jobsLeft, priority, job, stage>>
    BY DEF SendResp, mainVars, messageVars, aroundVars, poolVars
  <1>2. /\ job[t] \in Requests /\ replies[job[t]] = <<>> /\ resp[t] \in Results
        /\ job[t] \notin queue
    BY <1>1 DEF Held, Placed, Handled
  <1>3. /\ replies'[job[t]] = <<resp[t]>>
        /\ \A q \in Requests : q # job[t] => replies'[q] = replies[q]
    BY <1>1, <1>2, FirstReply
  <1>4. t \in Hands(job[t])
    BY <1>1 DEF Hands
  <1>5. \A u \in Threads : job[u] = job[t] => u = t
    BY <1>2 DEF Held
  <1>6. {u \in Threads : job'[u] = job[t] /\ tpc'[u] # "finish"} = {}
    BY <1>1, <1>5
  <1>7. \A q \in Requests : q # job[t] => Hands(q)' = Hands(q)
    BY <1>1 DEF Hands
  <1>8. /\ command[job[t]] \notin AdminCommands
        /\ resp[t] # "SOCKET_TIMEOUT" /\ resp[t] # "THREAD_POOL_EXHAUSTED"
    BY <1>2 DEF JobsInv, NotByJob
  <1>9. /\ replies'[job[t]] # <<>> /\ replies'[job[t]] # <<"SOCKET_TIMEOUT">>
        /\ replies'[job[t]] # <<"THREAD_POOL_EXHAUSTED">>
    BY <1>3, <1>8, OneReply
  <1>10. \A q \in Requests : q # job[t] => Sent(q)' = Sent(q)
    BY <1>1, <1>3 DEF Sent
  <1>11. Fate[job[t]] = "running" /\ Fate'[job[t]] = "done"
    <2>1. Fate[job[t]] = "running"
      BY <1>2, <1>4 DEF Fate
    <2>2. Fate'[job[t]] = "done"
      BY <1>1, <1>2, <1>6, <1>8, <1>9 DEF Fate, Hands, Sent
    <2>. QED
      BY <2>1, <2>2
  <1>12. \A q \in Requests : q # job[t] => Fate'[q] = Fate[q]
    BY <1>1, <1>7, <1>10 DEF Fate
  <1>13. Fate' = [Fate EXCEPT ![job[t]] = "done"]
    BY <1>2, <1>11, <1>12, FateChanges
  <1>14. Phase' = Phase
    BY <1>1 DEF Phase
  <1>. QED
    BY <1>1, <1>2, <1>11, <1>13, <1>14 DEF Ledger!Complete, Ledger!Becomes

\* The ledger counts as the node does.
LEMMA SameCount == \A S : Ledger!Cardinality(S) = Cardinality(S)
  BY DEF Ledger!Cardinality, Cardinality

\* What is pending is queued, or in the hands of a thread that is not finished.
LEMMA PendingIsCounted ==
  ASSUME NodeInv
  PROVE  LET Handling == {t \in Threads : tpc[t] \notin {"idle", "finish"}}
         IN  /\ Cardinality(Ledger!Pending) <= Cardinality(queue) + Cardinality(Handling)
             /\ Cardinality(Ledger!Pending) \in Nat
             /\ IsFiniteSet(Handling) /\ Handling \subseteq Busy
             /\ queue = {} /\ Handling = {} => Ledger!Pending = {}
  <1> USE DEF NodeInv, Typed, PoolTyped, JobTyped
  <1> DEFINE W == {t \in Threads : tpc[t] \notin {"idle", "finish"}}
             T == {job[t] : t \in W}
             f == [t \in W |-> job[t]]
  <1>1. W \subseteq Busy /\ IsFiniteSet(W)
    BY FS_Subset DEF Busy
  <1>2. Ledger!Pending = queue \cup T
    <2>1. ASSUME NEW r \in Requests PROVE Fate[r] \in {"queued", "running"} <=> r \in queue \/ r \in T
      <3>1. Hands(r) # {} <=> r \in T
        BY DEF Hands, Held
      <3>2. Sent(r) \notin {"queued", "running"}
        BY DEF Sent
      <3>. QED
        BY <3>1, <3>2 DEF Fate
    <2>2. T \subseteq Requests
      BY DEF Held
    <2>. QED
      BY <2>1, <2>2 DEF Ledger!Pending
  <1>3. f \in Surjection(W, T)
    BY DEF Surjection
  <1>4. IsFiniteSet(T) /\ Cardinality(T) <= Cardinality(W)
    <2> HIDE DEF f, T, W
    <2>. QED
      BY <1>1, <1>3, FS_Surjection
  <1>5. IsFiniteSet(queue)
    BY SetsAreFinite
  <1> HIDE DEF f, T
  <1>6. /\ IsFiniteSet(queue \cup T)
        /\ Cardinality(queue \cup T)
             = Cardinality(queue) + Cardinality(T) - Cardinality(queue \cap T)
    BY <1>4, <1>5, FS_Union
  <1>7. /\ Cardinality(queue) \in Nat /\ Cardinality(T) \in Nat /\ Cardinality(W) \in Nat
        /\ Cardinality(queue \cap T) \in Nat /\ Cardinality(queue \cup T) \in Nat
    <2>1. IsFiniteSet(queue \cap T)
      BY <1>5, FS_Intersection
    <2> HIDE DEF W
    <2>. QED
      BY <1>1, <1>4, <1>5, <1>6, <2>1, FS_CardinalityType
  <1>8. Cardinality(queue \cup T) <= Cardinality(queue) + Cardinality(W)
    <2> HIDE DEF W
    <2>. QED
      BY <1>4, <1>6, <1>7
  <1>9. queue = {} /\ W = {} => queue \cup T = {}
    BY DEF T
  <1>. QED
    BY <1>1, <1>2, <1>7, <1>8, <1>9

\* jobsLeft goes down for a thread whose reply is sent.
LEMMA FinishIsSettle ==
  ASSUME NodeInv, LimitKept, NEW t \in Threads, FinishJob(t)
  PROVE  Ledger!Settle
  <1> USE DEF NodeInv, Typed, MainTyped, PoolTyped, JobTyped
  <1>1. /\ tpc[t] = "finish" /\ tpc' = [tpc EXCEPT ![t] = "idle"]
        /\ job' = [job EXCEPT ![t] = NoRequest] /\ jobsLeft' = jobsLeft - 1
        /\ UNCHANGED <<command, replies, queue, priority, stage>>
    BY DEF FinishJob, mainVars, messageVars, aroundVars
  <1>2. \A q \in Requests : Hands(q)' = Hands(q) /\ Sent(q)' = Sent(q)
    BY <1>1 DEF Hands, Sent
  <1>3. Fate' = Fate /\ Phase' = Phase
    BY <1>1, <1>2, FatesStay DEF Phase
  <1> DEFINE W == {u \in Threads : tpc[u] \notin {"idle", "finish"}}
  <1>4. W \subseteq Busy \ {t} /\ t \in Busy
    BY <1>1 DEF Busy
  <1>5. Cardinality(Busy \ {t}) = Cardinality(Busy) - 1
    BY <1>4, SetsAreFinite, FS_RemoveElement
  <1>6. Cardinality(W) <= Cardinality(Busy \ {t})
    <2>1. IsFiniteSet(Busy \ {t})
      BY SetsAreFinite, FS_Subset
    <2> HIDE DEF W
    <2>. QED
      BY <1>4, <2>1, FS_Subset
  <1>7. Cardinality(Ledger!Pending) <= Cardinality(queue) + Cardinality(W)
    BY PendingIsCounted
  <1>8. /\ Cardinality(queue) \in Nat /\ Cardinality(Busy) \in Nat /\ Cardinality(W) \in Nat
        /\ Cardinality(Ledger!Pending) \in Nat
    BY SetsAreFinite, PendingIsCounted, FS_CardinalityType
  <1>9. jobsLeft = Cardinality(queue) + Cardinality(Busy)
    BY DEF LimitKept, Busy
  <1>10. Cardinality(Ledger!Pending) < jobsLeft
    <2> HIDE DEF W
    <2>. QED
      BY <1>5, <1>6, <1>7, <1>8, <1>9
  <1>11. Ledger!Cardinality(Ledger!Pending) < jobsLeft
    BY <1>10, SameCount
  <1>. QED
    BY <1>1, <1>3, <1>11 DEF Ledger!Settle

\* The pool is joined when it has nothing left.
LEMMA JoinIsClose ==
  ASSUME NodeInv, LimitKept, JoinPool
  PROVE  Ledger!Close
  <1> USE DEF NodeInv, Typed, MainTyped, PoolTyped, JobTyped
  <1>1. /\ stage = "ended" /\ stage' = "joined" /\ queue = {} /\ \A t \in Threads : tpc[t] = "idle"
        /\ UNCHANGED <<command, replies, queue, jobsLeft, priority, tpc, job>>
    BY DEF JoinPool, Joinable, AllIdle, behindVars, poolVars, threadVars, messageVars
  <1>2. \A q \in Requests : Hands(q)' = Hands(q) /\ Sent(q)' = Sent(q)
    BY <1>1 DEF Hands, Sent
  <1>3. Fate' = Fate /\ Phase = "draining" /\ Phase' = "closed"
    BY <1>1, <1>2, FatesStay DEF Phase
  <1>4. {t \in Threads : tpc[t] \notin {"idle", "finish"}} = {} /\ Busy = {}
    BY <1>1 DEF Busy
  <1>5. Ledger!Pending = {}
    BY <1>1, <1>4, PendingIsCounted
  <1>6. jobsLeft = 0 /\ Ledger!Cardinality(Ledger!Pending) = 0
    <2>1. Cardinality(queue) = 0 /\ Cardinality(Busy) = 0 /\ Cardinality(Ledger!Pending) = 0
      BY <1>1, <1>4, <1>5, FS_EmptySet
    <2>. QED
      BY <2>1, SameCount DEF LimitKept, Busy
  <1>7. \A r \in Requests : Fate[r] # "queued" /\ Fate[r] # "running"
    BY <1>5 DEF Ledger!Pending
  <1>. QED
    BY <1>1, <1>3, <1>6, <1>7 DEF Ledger!Close

\* The steps that leave every job where it is and main in the same phase.
LEMMA JobsStay ==
  ASSUME UNCHANGED <<queue, replies, command, job>>, Phase' = Phase,
         \A t \in Threads : tpc'[t] = "finish" <=> tpc[t] = "finish"
  PROVE  Fate' = Fate /\ Phase' = Phase
  <1>1. \A r \in Requests : Hands(r)' = Hands(r)
    BY DEF Hands
  <1>2. \A r \in Requests : Sent(r)' = Sent(r)
    BY DEF Sent
  <1>. QED
    BY <1>1, <1>2, FatesStay

\* A message that is received is no job yet.
LEMMA ReceiveIsNew ==
  ASSUME NodeInv, NEW r \in Requests, NEW c \in Commands, NEW s \in 0..MaxClock, Receive(r, c, s)
  PROVE  Fate' = Fate
  <1> USE DEF NodeInv, Typed, MainTyped
  <1>1. /\ command[r] = NoCommand /\ command' = [command EXCEPT ![r] = c]
        /\ UNCHANGED <<queue, replies, tpc, job>>
    BY DEF Receive, behindVars, poolVars, threadVars
  <1>2. replies[r] = <<>>
    BY <1>1 DEF Placed
  <1>3. \A q \in Requests : q # r => command'[q] = command[q]
    BY <1>1
  <1>4. \A q \in Requests : q # r => Sent(q)' = Sent(q)
    BY <1>1, <1>3 DEF Sent
  <1>5. Sent(r) = "new" /\ Sent(r)' = "new"
    BY <1>1, <1>2 DEF Sent
  <1>6. \A q \in Requests : Hands(q)' = Hands(q)
    BY <1>1 DEF Hands
  <1>. QED
    BY <1>1, <1>4, <1>5, <1>6, FatesStay

ledgerVars == <<Fate, jobsLeft, priority, Phase>>

\* Every step of the node is a step of the ledger or changes nothing in it.
LEMMA LedgerStep ==
  NodeInv /\ LimitKept /\ JobsInv /\ [Next]_vars => [Ledger!LedgerNext]_ledgerVars
  <1> SUFFICES ASSUME NodeInv, LimitKept, JobsInv, [Next]_vars
               PROVE  [Ledger!LedgerNext]_ledgerVars
    OBVIOUS
  <1> USE DEF NodeInv
  <1>1. ASSUME NEW r \in Requests, NEW c \in Commands, NEW s \in 0..MaxClock, Receive(r, c, s)
        PROVE  UNCHANGED ledgerVars
    <2>1. UNCHANGED <<jobsLeft, priority, stage>>
      BY <1>1 DEF Receive, behindVars, poolVars, aroundVars
    <2>. QED
      BY <1>1, <2>1, ReceiveIsNew DEF ledgerVars, Phase
  <1>2. ASSUME Answers, Send("SOCKET_TIMEOUT") \/ command[current] \in AdminCommands
        PROVE  UNCHANGED ledgerVars
    <2>1. UNCHANGED <<jobsLeft, priority, stage>>
      BY <1>2 DEF Answers, behindVars, poolVars, aroundVars
    <2>. QED
      BY <1>2, <2>1, AnswersKeepFates DEF ledgerVars, Phase
  <1>3. ASSUME \/ SocketTimeout \/ Plain \/ GetStatistics
               \/ \E d \in Limits : SetMaxDiffTime(d)
               \/ \E w \in Words : RemovePriority(w) \/ \E p \in Levels : SetPriority(w, p)
        PROVE  UNCHANGED ledgerVars
    <2>1. Answers
      BY <1>3, AnswerSteps
    <2>2. Send("SOCKET_TIMEOUT") \/ command[current] \in AdminCommands
      BY <1>3 DEF SocketTimeout, Plain, GetStatistics, SetMaxDiffTime, RemovePriority, SetPriority,
         On, AdminCommands
    <2>. QED
      BY <1>2, <2>1, <2>2
  <1>4. CASE AddJob \/ Exhausted
    BY <1>4, AddJobIsAccept, ExhaustedIsRefuse DEF Ledger!LedgerNext
  <1>5. ASSUME \/ Tick \/ InTime \/ UNCHANGED vars \/ DestroyRunner
               \/ \E t \in Threads : Crash(t)
        PROVE  UNCHANGED ledgerVars
    <2>1. UNCHANGED <<queue, replies, command, job, tpc, jobsLeft, priority>>
      BY <1>5 DEF Tick, InTime, DestroyRunner, Crash, vars, behindVars, poolVars, threadVars,
         messageVars
    <2>2. Phase' = Phase
      BY <1>5 DEF Tick, InTime, DestroyRunner, Crash, vars, aroundVars, Phase
    <2>. QED
      BY <2>1, <2>2, JobsStay DEF ledgerVars
  <1>6. CASE Disconnect
    <2>1. /\ UNCHANGED <<queue, replies, command, job, tpc, jobsLeft, priority>>
          /\ Phase = "open" /\ Phase' = "draining"
      BY <1>6 DEF Disconnect, behindVars, poolVars, threadVars, messageVars, Phase
    <2>2. Fate' = Fate
      BY <2>1 DEF Fate, Hands, Sent
    <2>3. Ledger!BeginClose("draining")
      BY <2>1, <2>2 DEF Ledger!BeginClose
    <2>. QED
      BY <2>3 DEF Ledger!LedgerNext
  <1>7. CASE JoinPool
    BY <1>7, JoinIsClose DEF Ledger!LedgerNext
  <1>8. ASSUME NEW t \in Threads, stage # "crashed",
               (\E r \in Requests : StartJob(t, r)) \/ SendResp(t) \/ FinishJob(t)
        PROVE  Ledger!LedgerNext
    BY <1>8, StartIsStart, SendIsComplete, FinishIsSettle DEF Ledger!LedgerNext
  <1>9. ASSUME NEW t \in Threads, Works(t) PROVE UNCHANGED ledgerVars
    <2>1. /\ UNCHANGED <<queue, replies, command, job, jobsLeft, priority, stage>>
          /\ \A u \in Threads : tpc'[u] = "finish" <=> tpc[u] = "finish"
      BY <1>9 DEF Works, Working, mainVars, aroundVars, messageVars, poolVars, Typed, JobTyped
    <2>. QED
      BY <2>1, JobsStay DEF ledgerVars, Phase
  <1>10. CASE Process
    BY <1>3, <1>4, <1>5, <1>10 DEF Process
  <1>11. CASE \E t \in Threads : JobStep(t)
    BY <1>8, <1>9, <1>11, WorkSteps DEF JobStep
  <1>. QED
    BY <1>1, <1>5, <1>6, <1>7, <1>10, <1>11 DEF Next, Over

\* What CNode relies on of the pool, and how it uses it, is what the ledger says: the
\* same that PoolImplementsLedger of ThreadPoolProofs shows the pool to do.
THEOREM NodeUsesLedger == Spec => LedgerSpec
  <1>1. Spec => []JobsInv
    BY NodeInvariant, JobsInitially, JobsStep, PTL DEF Spec
  <1>. QED
    BY <1>1, NodeInvariant, LimitIsKept, LedgerInitially, LedgerStep, PTL
       DEF Spec, LedgerSpec, Ledger!LedgerSpec, Ledger!ledgerVars, ledgerVars

-----------------------------------------------------------------------------
\* Its jobs use of the runner what ScriptStore says of it.

\* Who compiles has the unique side of _compileMutex, and nobody else; who runs has a
\* job that asks for it.
CompileInv == \A t \in Threads : tpc[t] = "compile" <=> compiling = t
RunInv == \A t \in Threads : tpc[t] = "run" => Command(t) = "run"

\* Every step keeps it.
LEMMA CompileStep == NodeInv /\ CompileInv /\ [Next]_vars => CompileInv'
  <1> SUFFICES ASSUME NodeInv, CompileInv, [Next]_vars PROVE CompileInv'
    OBVIOUS
  <1> USE DEF NodeInv, Typed, JobTyped, CompileInv
  <1>1. CASE Process
    <2>1. UNCHANGED <<tpc, compiling>>
      BY <1>1, AnswerSteps DEF Process, Answers, InTime, AddJob, behindVars, threadVars, storeVars
    <2>. QED
      BY <2>1
  <1>2. ASSUME \/ Tick \/ Disconnect \/ JoinPool \/ DestroyRunner \/ UNCHANGED vars
               \/ \E t \in Threads : Crash(t)
               \/ \E r \in Requests, c \in Commands, s \in 0..MaxClock : Receive(r, c, s)
        PROVE  CompileInv'
    <2>1. UNCHANGED <<tpc, compiling>>
      BY <1>2 DEF Tick, Disconnect, JoinPool, DestroyRunner, Crash, Receive, vars, behindVars,
         threadVars, storeVars
    <2>. QED
      BY <2>1
  <1>3. ASSUME NEW t \in Threads, BeginCompile(t) PROVE CompileInv'
    BY <1>3 DEF BeginCompile, Unlocked
  <1>4. ASSUME NEW t \in Threads, EndCompile(t) PROVE CompileInv'
    BY <1>4 DEF EndCompile, Respond
  <1>5. ASSUME NEW t \in Threads,
               \/ \E r \in Requests : StartJob(t, r)
               \/ \E late \in BOOLEAN : Judge(t, late)
               \/ CheckCode(t) \/ Unsupported(t) \/ Remove(t) \/ BeginRun(t) \/ EndRun(t)
               \/ SendResp(t) \/ FinishJob(t)
        PROVE  CompileInv'
    <2>1. compiling' = compiling /\ tpc[t] # "compile"
          /\ \E s \in ThreadPcs \ {"compile"} : tpc' = [tpc EXCEPT ![t] = s]
      BY <1>5 DEF StartJob, Judge, Judged, CheckCode, Unsupported, Remove, BeginRun, EndRun,
         SendResp, FinishJob, Respond, storeVars, ThreadPcs
    <2>. QED
      BY <2>1
  <1>6. CASE \E t \in Threads : JobStep(t)
    BY <1>3, <1>4, <1>5, <1>6 DEF JobStep
  <1>. QED
    BY <1>1, <1>2, <1>6 DEF Next, Over

\* Which command each thread has does not change while it has one.
LEMMA CommandsStay ==
  ASSUME NodeInv, [Next]_vars, job' = job
  PROVE  \A t \in Threads : Command(t)' = Command(t)
  <1> USE DEF NodeInv, Typed, MainTyped, JobTyped
  <1>1. ASSUME NEW r \in Requests, NEW c \in Commands, NEW s \in 0..MaxClock, Receive(r, c, s)
        PROVE  \A t \in Threads : Command(t)' = Command(t)
    <2>1. command[r] = NoCommand /\ command' = [command EXCEPT ![r] = c]
      BY <1>1 DEF Receive
    <2>2. \A t \in Threads : job[t] # r
      BY <2>1 DEF Placed
    <2>. QED
      BY <2>1, <2>2 DEF Command
  <1>2. ASSUME command' = command PROVE \A t \in Threads : Command(t)' = Command(t)
    BY <1>2 DEF Command
  <1>3. \/ command' = command
        \/ \E r \in Requests, c \in Commands, s \in 0..MaxClock : Receive(r, c, s)
    <2>1. Process => command' = command
      BY AnswerSteps DEF Process, Answers, InTime, AddJob, messageVars
    <2>2. (\E t \in Threads : JobStep(t)) => command' = command
      BY DEF JobStep, StartJob, Judge, CheckCode, Unsupported, Remove, BeginCompile, EndCompile,
         BeginRun, EndRun, SendResp, FinishJob, mainVars, messageVars
    <2>. QED
      BY <2>1, <2>2 DEF Next, Over, Tick, Disconnect, JoinPool, DestroyRunner, Crash, vars, messageVars
  <1>. QED
    BY <1>1, <1>2, <1>3

\* A command is not changed under a run.
LEMMA RunStep == NodeInv /\ RunInv /\ [Next]_vars => RunInv'
  <1> SUFFICES ASSUME NodeInv, RunInv, [Next]_vars, NEW t \in Threads, tpc'[t] = "run"
               PROVE  Command(t)' = "run"
    BY DEF RunInv
  <1> USE DEF NodeInv, Typed, MainTyped, JobTyped, RunInv
  <1>1. CASE tpc' = tpc
    <2>1. job' = job
      BY <1>1, AnswerSteps
         DEF Next, Over, Process, Answers, InTime, AddJob, Tick, Receive, JobStep, StartJob, Judge,
             Judged, CheckCode, Unsupported, Remove, BeginCompile, EndCompile, BeginRun, EndRun,
             Respond, SendResp, FinishJob, Crash, Disconnect, JoinPool, DestroyRunner, vars,
             behindVars, threadVars
    <2>. QED
      BY <1>1, <2>1, CommandsStay
  <1>2. CASE tpc' # tpc
    <2>1. PICK u \in Threads : JobStep(u)
      BY <1>2, AnswerSteps DEF Next, Over, Process, Answers, InTime, AddJob, Tick, Receive, Crash,
         Disconnect, JoinPool, DestroyRunner, vars, behindVars, threadVars
    <2>2. CASE u = t
      <3>1. BeginRun(t)
        BY <2>1, <2>2 DEF JobStep, StartJob, Judge, Judged, CheckCode, Unsupported, Remove,
           BeginCompile, EndCompile, EndRun, Respond, SendResp, FinishJob
      <3>. QED
        BY <3>1, CommandsStay DEF BeginRun
    <2>3. CASE u # t
      <3>1. tpc'[t] = tpc[t] /\ job'[t] = job[t] /\ command' = command
        BY <2>1, <2>3 DEF JobStep, StartJob, Judge, CheckCode, Unsupported, Remove,
           BeginCompile, EndCompile, BeginRun, EndRun, Respond, SendResp, FinishJob, mainVars,
           messageVars
      <3>. QED
        BY <3>1 DEF Command
    <2>. QED
      BY <2>2, <2>3
  <1>. QED
    BY <1>1, <1>2

Content == [p \in {"pair"} |-> Holds]
storedVars == <<Content, Asked, Found>>

\* Where the store is changed at the pair, and where it is not.
LEMMA ContentChanges ==
  /\ \A x : Holds' = x => Content' = [Content EXCEPT !["pair"] = x]
  /\ Holds' = Holds => Content' = Content
  /\ Content["pair"] = Holds
  BY DEF Content

\* The threads' part of the store changes only with where they are.
LEMMA ThreadsStay ==
  ASSUME NodeInv, [Next]_vars, UNCHANGED <<job, tpc, resp>>
  PROVE  Asked' = Asked /\ Found' = Found
  BY CommandsStay DEF Asked, Found

\* A thread that is not between being asked for a run and its return, before and after.
LEMMA OthersStay ==
  ASSUME NodeInv, [Next]_vars, NEW t \in Threads,
         Asked[t] = "none", Asked'[t] = "none", Found[t] = NoResult, Found'[t] = NoResult,
         \A u \in Threads : u # t => job'[u] = job[u] /\ tpc'[u] = tpc[u] /\ resp'[u] = resp[u],
         command' = command
  PROVE  Asked' = Asked /\ Found' = Found
  <1>1. \A u \in Threads : u # t => Asked'[u] = Asked[u] /\ Found'[u] = Found[u]
    BY DEF Asked, Found, Command
  <1>2. /\ Asked' = [u \in Threads |-> Asked'[u]] /\ Asked = [u \in Threads |-> Asked[u]]
        /\ Found' = [u \in Threads |-> Found'[u]] /\ Found = [u \in Threads |-> Found[u]]
    BY DEF Asked, Found
  <1>. QED
    BY <1>1, <1>2

\* The node starts where the store does.
LEMMA StoreInitially == Init => Store!StoreInit
  BY DEF Init, Store!StoreInit, Holds, Asked, Found, Command

\* Every step of the node is a step of the store or changes nothing in it.
LEMMA StoreStep ==
  NodeInv /\ CompileInv /\ RunInv /\ [Next]_vars => [Store!StoreNext]_storedVars
  <1> SUFFICES ASSUME NodeInv, CompileInv, RunInv, [Next]_vars
               PROVE  Store!StoreNext \/ UNCHANGED storedVars
    OBVIOUS
  <1> USE DEF NodeInv, Typed, MainTyped, JobTyped
  <1>0. ASSUME UNCHANGED <<content, compiling, job, tpc, resp>> PROVE UNCHANGED storedVars
    BY <1>0, ThreadsStay, ContentChanges DEF storedVars, Holds
  <1>1. CASE Process
    BY <1>0, <1>1, AnswerSteps
       DEF Process, Answers, InTime, AddJob, behindVars, threadVars, storeVars
  <1>2. ASSUME \/ Tick \/ Disconnect \/ JoinPool \/ UNCHANGED vars
               \/ \E t \in Threads : Crash(t)
               \/ \E r \in Requests, c \in Commands, s \in 0..MaxClock : Receive(r, c, s)
        PROVE  UNCHANGED storedVars
    BY <1>0, <1>2 DEF Tick, Disconnect, JoinPool, Crash, Receive, vars, behindVars, threadVars,
       storeVars
  <1>3. CASE DestroyRunner
    <2>1. content' = Absent /\ UNCHANGED <<job, tpc, resp>>
      BY <1>3 DEF DestroyRunner, threadVars
    <2>2. Holds' = Absent
      BY <2>1 DEF Holds
    <2>3. Content' = [p \in {"pair"} |-> Absent]
      BY <2>2 DEF Content
    <2>4. Asked' = Asked /\ Found' = Found
      BY <2>1, ThreadsStay
    <2>. QED
      BY <2>3, <2>4 DEF Store!StoreNext, Store!Forget, Content
  <1>4. ASSUME NEW t \in Threads, NEW r \in Requests, StartJob(t, r) PROVE UNCHANGED storedVars
    <2>1. /\ tpc[t] = "idle" /\ tpc' = [tpc EXCEPT ![t] = "judge"] /\ job' = [job EXCEPT ![t] = r]
          /\ UNCHANGED <<resp, content, compiling, command>>
      BY <1>4 DEF StartJob, storeVars, mainVars, messageVars
    <2>2. Asked' = Asked /\ Found' = Found
      BY <2>1, OthersStay DEF Asked, Found
    <2>. QED
      BY <2>1, <2>2, ContentChanges DEF storedVars, Holds
  <1>5. ASSUME NEW t \in Threads, NEW late \in BOOLEAN, Judge(t, late)
        PROVE  Store!StoreNext \/ UNCHANGED storedVars
    <2>1. /\ tpc[t] = "judge" /\ UNCHANGED <<job, content, compiling, command>>
          /\ tpc' = [tpc EXCEPT ![t] = IF late THEN "send" ELSE "command"]
          /\ resp' = IF late THEN [resp EXCEPT ![t] = "THREAD_POOL_TIMEOUT"] ELSE resp
      BY <1>5 DEF Judge, Judged, storeVars, mainVars, messageVars
    <2>2. CASE ~ late /\ Command(t) = "run"
      <3>1. tpc' = [tpc EXCEPT ![t] = "command"] /\ resp' = resp
        BY <2>1, <2>2
      <3>2. Asked[t] = "none" /\ Asked' = [Asked EXCEPT ![t] = "pair"] /\ Found' = Found
        BY <2>1, <2>2, <3>1, CommandsStay DEF Asked, Found
      <3>3. Content' = Content
        BY <2>1, ContentChanges DEF Holds
      <3>4. Store!Ask(t, "pair")
        BY <3>2, <3>3 DEF Store!Ask, Content
      <3>. QED
        BY <3>4 DEF Store!StoreNext
    <2>3. CASE late \/ Command(t) # "run"
      <3>1. Asked[t] = "none" /\ Found[t] = NoResult
        BY <2>1 DEF Asked, Found
      <3>2. Asked'[t] = "none" /\ Found'[t] = NoResult
        BY <2>1, <2>3 DEF Asked, Found, Command
      <3>3. Asked' = Asked /\ Found' = Found
        BY <2>1, <3>1, <3>2, OthersStay
      <3>. QED
        BY <2>1, <3>3, ContentChanges DEF storedVars, Holds
    <2>. QED
      BY <2>2, <2>3
  <1>6. ASSUME NEW t \in Threads,
               \/ CheckCode(t) \/ Unsupported(t) \/ Remove(t) \/ BeginCompile(t) \/ EndCompile(t)
               \/ SendResp(t) \/ FinishJob(t)
        PROVE  Asked' = Asked /\ Found' = Found
    <2>1. /\ command' = command
          /\ \A u \in Threads : u # t => job'[u] = job[u] /\ tpc'[u] = tpc[u] /\ resp'[u] = resp[u]
      BY <1>6 DEF CheckCode, Unsupported, Remove, BeginCompile, EndCompile, SendResp, FinishJob,
         Respond, mainVars, messageVars
    <2>2. /\ tpc[t] = "command" => Command(t) # "run"
          /\ tpc[t] # "run"
      BY <1>6 DEF CheckCode, Unsupported, Remove, BeginCompile, EndCompile, SendResp, FinishJob,
         Respond
    <2>3. tpc'[t] \notin {"command", "run"}
      BY <1>6 DEF CheckCode, Unsupported, Remove, BeginCompile, EndCompile, SendResp, FinishJob,
         Respond
    <2>4. Asked[t] = "none" /\ Asked'[t] = "none" /\ Found[t] = NoResult /\ Found'[t] = NoResult
      BY <2>2, <2>3 DEF Asked, Found
    <2>. QED
      BY <2>1, <2>4, OthersStay
  <1>7. ASSUME NEW t \in Threads, CheckCode(t) \/ Unsupported(t) \/ SendResp(t) \/ FinishJob(t)
        PROVE  UNCHANGED storedVars
    <2>1. UNCHANGED <<content, compiling>>
      BY <1>7 DEF CheckCode, Checked, Unsupported, SendResp, FinishJob, storeVars
    <2>. QED
      BY <1>6, <1>7, <2>1, ContentChanges DEF storedVars, Holds
  <1>8. ASSUME Holds' = Dropped, Holds = content, Asked' = Asked, Found' = Found
        PROVE  Store!StoreNext \/ UNCHANGED storedVars
    <2>1. CASE content = Absent
      <3>1. Content' = Content
        BY <1>8, <2>1, ContentChanges DEF Dropped
      <3>. QED
        BY <1>8, <3>1 DEF storedVars
    <2>2. CASE content # Absent
      <3>1. Content["pair"] # Absent /\ Content' = [Content EXCEPT !["pair"] = Empty]
        BY <1>8, <2>2, ContentChanges DEF Dropped
      <3>2. Store!Break("pair")
        BY <1>8, <3>1 DEF Store!Break, Content
      <3>. QED
        BY <3>2 DEF Store!StoreNext
    <2>. QED
      BY <2>1, <2>2
  <1>9. ASSUME NEW t \in Threads, Remove(t) PROVE Store!StoreNext \/ UNCHANGED storedVars
    <2>1. Holds = content /\ Holds' = Dropped
      BY <1>9 DEF Remove, Unlocked, Holds
    <2>. QED
      BY <1>6, <1>8, <1>9, <2>1
  <1>10. ASSUME NEW t \in Threads, BeginCompile(t) PROVE Store!StoreNext \/ UNCHANGED storedVars
    <2>1. Holds = content /\ Holds' = Dropped
      BY <1>10 DEF BeginCompile, Unlocked, Holds, Dropped
    <2>. QED
      BY <1>6, <1>8, <1>10, <2>1
  <1>11. ASSUME NEW t \in Threads, EndCompile(t) PROVE Store!StoreNext \/ UNCHANGED storedVars
    <2>1. tpc[t] = "compile" /\ compiling' = NoThread
      BY <1>11 DEF EndCompile, Respond
    <2>2. compiling # NoThread
      BY <2>1 DEF CompileInv
    <2>3. Holds = Dropped
      BY <2>2 DEF Holds, Dropped
    <2>4. Holds' = content'
      BY <2>1 DEF Holds
    <2>5. CASE content' = Dropped
      BY <1>6, <1>11, <2>3, <2>4, <2>5, ContentChanges DEF storedVars
    <2>6. CASE content' = job[t]
      <3>1. job[t] \in Requests
        BY <2>1 DEF Held
      <3>2. /\ Content["pair"] \in {Absent, Empty}
            /\ Content' = [Content EXCEPT !["pair"] = job[t]]
        BY <2>3, <2>4, <2>6, ContentChanges DEF Dropped
      <3>3. Store!Define("pair", job[t])
        BY <1>6, <1>11, <3>2 DEF Store!Define, Content
      <3>. QED
        BY <3>1, <3>3 DEF Store!StoreNext
    <2>. QED
      BY <1>11, <2>5, <2>6 DEF EndCompile
  <1>12. ASSUME NEW t \in Threads, BeginRun(t) PROVE Store!StoreNext
    <2>1. /\ tpc[t] = "command" /\ tpc' = [tpc EXCEPT ![t] = "run"] /\ Command(t) = "run"
          /\ compiling = NoThread /\ resp' = [resp EXCEPT ![t] = content]
          /\ UNCHANGED <<job, content, compiling>>
      BY <1>12 DEF BeginRun, Shareable, storeVars
    <2>2. Asked[t] = "pair" /\ Asked' = Asked
      BY <2>1, CommandsStay DEF Asked
    <2>3. Found[t] = NoResult /\ Found' = [Found EXCEPT ![t] = content]
      BY <2>1 DEF Found
    <2>4. Content["pair"] = content /\ Content' = Content
      BY <2>1, ContentChanges DEF Holds
    <2>5. Store!Answer(t)
      BY <2>2, <2>3, <2>4 DEF Store!Answer, Content
    <2>. QED
      BY <2>5 DEF Store!StoreNext
  <1>13. ASSUME NEW t \in Threads, EndRun(t) PROVE Store!StoreNext
    <2>1. /\ tpc[t] = "run" /\ tpc' = [tpc EXCEPT ![t] = "send"]
          /\ UNCHANGED <<job, resp, content, compiling>>
      BY <1>13 DEF EndRun, storeVars
    <2>2. Content' = Content
      BY <2>1, ContentChanges DEF Holds
    <2>3. Found' = [Found EXCEPT ![t] = NoResult]
      BY <2>1 DEF Found
    <2>4. Asked[t] = "pair" /\ Asked' = [Asked EXCEPT ![t] = "none"]
      BY <2>1, CommandsStay DEF Asked, RunInv
    <2>5. Store!Return(t)
      BY <2>2, <2>3, <2>4 DEF Store!Return, Content
    <2>. QED
      BY <2>5 DEF Store!StoreNext
  <1>14. ASSUME NEW t \in Threads, JobStep(t) PROVE Store!StoreNext \/ UNCHANGED storedVars
    BY <1>4, <1>5, <1>7, <1>9, <1>10, <1>11, <1>12, <1>13, <1>14 DEF JobStep
  <1>. QED
    BY <1>1, <1>2, <1>3, <1>14 DEF Next, Over

\* What CNode relies on of the runner, and how its jobs use it, is what the store says: the
\* same that RegistryImplementsStore of ScriptRegistryProofs shows the runner to do.
THEOREM NodeUsesStore == Spec => StoreSpec
  <1>1. Init => CompileInv /\ RunInv
    BY DEF Init, CompileInv, RunInv
  <1>2. Spec => [](CompileInv /\ RunInv)
    BY <1>1, NodeInvariant, CompileStep, RunStep, PTL DEF Spec
  <1>. QED
    BY <1>2, NodeInvariant, StoreInitially, StoreStep, PTL
       DEF Spec, StoreSpec, Store!StoreSpec, Store!storeVars, storedVars, Content
=============================================================================
