------------------------------ MODULE Watchdog ------------------------------
(***************************************************************************)
(* How src/v8runner.cpp stops scripts that run too long.  Each thread of   *)
(* the pool has a slot in _timing where _run publishes the script it       *)
(* calls; the thread of _timeCheckerFunc goes over the slots at intervals  *)
(* and asks V8 to terminate the isolates whose slot is overdue.            *)
(*                                                                         *)
(* A slot is written under the shared side of _timeCheckerMutex, which its *)
(* owner holds for that single write, and read under the unique side.  So  *)
(* the mutex is taken exactly while the watchdog is in a scan, and tpc     *)
(* says when that is.                                                      *)
(***************************************************************************)
EXTENDS Integers, FiniteSets

CONSTANTS Threads,     \* the threads of the pool, each with its threadId
          Isolates,    \* _isolates
          Limits,      \* the values _maxExecutionTime may be given
          FirstLimit,  \* the one it starts with
          SizeMod,     \* std::size_t counts modulo this number
          MaxClock,    \* bound: the last time the clock shows
          NoOne,       \* no thread
          NoIsolate    \* no isolate

ASSUME ThreadsAssumption == IsFiniteSet(Threads) /\ NoOne \notin Threads
ASSUME IsolatesAssumption == NoIsolate \notin Isolates
ASSUME LimitsAssumption == Limits \subseteq Nat /\ FirstLimit \in Limits
ASSUME ClockAssumption == MaxClock \in Nat /\ SizeMod \in Nat /\ MaxClock < SizeMod
                          /\ \A m \in Limits : m < SizeMod

VARIABLES
  clock,             \* system_clock, in milliseconds
  maxExecutionTime,
  timing,            \* _timing: one slot per thread
  locker,            \* the thread that holds the v8::Locker of each isolate
  requested,         \* the isolates V8 has been asked to terminate
  wpc, iso,          \* where each thread is, and in which isolate
  started,           \* the time it read before the call
  endless,           \* does the code it runs in V8 never return of itself?
  tpc,               \* where the watchdog is
  currentTime, todo, \* its clock reading, and the slots it has yet to look at
  judged,            \* the slot it has found overdue
  watch,             \* _timeCheckerWatch
  dpc                \* where the destructor is

threadVars == <<timing, locker, wpc, iso, started, endless>>
watchVars == <<tpc, currentTime, todo, judged>>
destructorVars == <<watch, dpc>>
aroundVars == <<clock, maxExecutionTime, watchVars, destructorVars>>   \* what no thread changes
scannedVars == <<clock, maxExecutionTime, threadVars, destructorVars>>  \* what no scan changes
vars == <<clock, maxExecutionTime, threadVars, requested, watchVars, destructorVars>>

ThreadPcs == {"idle", "locked", "timed", "calling", "returned", "caught",
              "stringify", "unlock", "compiling", "checking"}

\* A slot that was never published is a null pointer, which the watchdog skips
\* just as it skips one that is not working.
NoScript == [isWorking |-> FALSE, isolate |-> NoIsolate, started |-> 0]

Init == /\ clock = 0
        /\ maxExecutionTime = FirstLimit
        /\ timing = [w \in Threads |-> NoScript]
        /\ locker = [i \in Isolates |-> NoOne]
        /\ requested = {}
        /\ wpc = [w \in Threads |-> "idle"]
        /\ iso = [w \in Threads |-> NoIsolate]
        /\ started = [w \in Threads |-> 0]
        /\ endless = [w \in Threads |-> FALSE]
        /\ tpc = "test" /\ currentTime = 0 /\ todo = {}
        /\ judged = NoOne
        /\ watch = TRUE /\ dpc = "alive"

\* _timeCheckerMutex is held by the watchdog.
Scanning == tpc \in {"scan", "kill", "terminate"}

Tick == /\ clock < MaxClock
        /\ clock' = clock + 1
        /\ UNCHANGED <<maxExecutionTime, threadVars, requested, watchVars, destructorVars>>

-----------------------------------------------------------------------------
\* _run, in the thread it is called in.

Goto(w, from, to) == wpc[w] = from /\ wpc' = [wpc EXCEPT ![w] = to]

Idle(w) == wpc[w] = "idle" /\ dpc = "alive"

\* A Locker is had.  V8 drops what the isolate was asked for before (external).
Lock(w, i) == /\ locker' = [locker EXCEPT ![i] = w]
              /\ iso' = [iso EXCEPT ![w] = i]
              /\ requested' = requested \ {i}

\* _run holds the shared side of _compileMutex, so no compile is under way, and
\* gets the Locker of the pair's isolate.
BeginRun(w, i, e) ==
  /\ Idle(w) /\ Goto(w, "idle", "locked")
  /\ \A v \in Threads : wpc[v] # "compiling"
  /\ locker[i] = NoOne /\ Lock(w, i)
  /\ endless' = [endless EXCEPT ![w] = e]
  /\ UNCHANGED <<aroundVars, timing, started>>

\* The pair has no function now, or the data is no JSON: nothing is called.
NotCalled(w) ==
  /\ Goto(w, "locked", "unlock")
  /\ UNCHANGED <<aroundVars, timing, locker, iso, started, endless, requested>>

\* Mutant: the time in microseconds.
NowInMicroseconds == 1000 * clock

Now == clock

\* const auto now = system_clock::now(), before _timeCheckerMutex is taken.
ReadTime(w) ==
  /\ Goto(w, "locked", "timed")
  /\ started' = [started EXCEPT ![w] = Now]
  /\ UNCHANGED <<aroundVars, timing, locker, iso, endless, requested>>

\* Mutant: nobody locks.
AlwaysFree == TRUE

\* _timeCheckerMutex is free.
TimingFree == ~ Scanning

\* lock_shared, the slot, unlock_shared; func->Call begins.
Publish(w) ==
  /\ Goto(w, "timed", "calling")
  /\ TimingFree
  /\ timing' = [timing EXCEPT ![w] = [isWorking |-> TRUE, isolate |-> iso[w], started |-> started[w]]]
  /\ UNCHANGED <<aroundVars, locker, iso, started, endless, requested>>

\* func->Call returns, with a value or with an exception of the script.
Return(w) ==
  /\ \E to \in {"returned", "caught"} : Goto(w, "calling", to)
  /\ ~ endless[w]
  /\ UNCHANGED <<aroundVars, timing, locker, iso, started, endless, requested>>

\* V8 ends the code it was asked to terminate; the request is spent (external).
Terminated(w) == iso[w] \in requested /\ requested' = requested \ {iso[w]}

Unwind(w) ==
  /\ Goto(w, "calling", "caught")
  /\ Terminated(w)
  /\ UNCHANGED <<aroundVars, timing, locker, iso, started, endless>>

\* Mutant: the slot of a script that threw is left as it is.
ClearedUnlessCaught(w) == [timing EXCEPT ![w].isWorking = wpc[w] = "caught"]

Cleared(w) == [timing EXCEPT ![w].isWorking = FALSE]

\* _timing[threadId]->isWorking = false, without the mutex.  _jsonStr then runs
\* JSON.stringify on the result, whose toJSON is code of the script again.
ClearWorking(w) ==
  /\ \/ Goto(w, "returned", "stringify") /\ \E e \in BOOLEAN : endless' = [endless EXCEPT ![w] = e]
     \/ Goto(w, "caught", "unlock") /\ UNCHANGED endless
  /\ timing' = Cleared(w)
  /\ UNCHANGED <<aroundVars, locker, iso, started, requested>>

\* Code of the script that has no slot ends, by itself or terminated.
Ends(w) == \/ ~ endless[w] /\ UNCHANGED requested
           \/ Terminated(w)

\* The Locker is released, and the locals of the call are gone.
Unlock(w) ==
  /\ locker' = [locker EXCEPT ![iso[w]] = NoOne]
  /\ iso' = [iso EXCEPT ![w] = NoIsolate]
  /\ started' = [started EXCEPT ![w] = 0]
  /\ endless' = [endless EXCEPT ![w] = FALSE]
  /\ UNCHANGED <<aroundVars, timing>>

EndRun(w) == /\ \/ Goto(w, "unlock", "idle") /\ UNCHANGED requested
                \/ Goto(w, "stringify", "idle") /\ Ends(w)
             /\ Unlock(w)

-----------------------------------------------------------------------------
\* The other calls.  None of them has a slot.

\* _compile holds the unique side of _compileMutex while the script's top level
\* runs in the isolate of its conv.
BeginCompile(w, i, e) ==
  /\ Idle(w) /\ Goto(w, "idle", "compiling")
  /\ \A v \in Threads : wpc[v] \in {"idle", "checking"}
  /\ Lock(w, i)
  /\ started' = [started EXCEPT ![w] = clock]
  /\ endless' = [endless EXCEPT ![w] = e]
  /\ UNCHANGED <<aroundVars, timing>>

EndCompile(w) == /\ Goto(w, "compiling", "idle")
                 /\ Ends(w)
                 /\ Unlock(w)

\* _remove is alone too; it gets the Locker of the conv's isolate, if the conv has one, and
\* runs nothing in it.
Remove(w, i) ==
  /\ Idle(w)
  /\ \A v \in Threads : wpc[v] \in {"idle", "checking"}
  /\ requested' = requested \ {i}
  /\ UNCHANGED <<aroundVars, threadVars>>

\* _checkCode runs it in an isolate of its own, which nobody else knows.
BeginCheck(w, e) ==
  /\ Idle(w) /\ Goto(w, "idle", "checking")
  /\ endless' = [endless EXCEPT ![w] = e]
  /\ UNCHANGED <<aroundVars, timing, locker, iso, started, requested>>

EndCheck(w) ==
  /\ Goto(w, "checking", "idle")
  /\ ~ endless[w]
  /\ UNCHANGED <<aroundVars, timing, locker, iso, started, endless, requested>>

-----------------------------------------------------------------------------
\* setMaxExecutionTime, under the unique side of _timeCheckerMutex.

SetMaxExecutionTime(m) ==
  /\ dpc = "alive"
  /\ TimingFree
  /\ maxExecutionTime' = m
  /\ UNCHANGED <<clock, threadVars, requested, watchVars, destructorVars>>

-----------------------------------------------------------------------------
\* _timeCheckerFunc.

WatchGoto(from, to) == tpc = from /\ tpc' = to

\* while (this->_timeCheckerWatch)
TestWatch ==
  /\ WatchGoto("test", IF watch THEN "lock" ELSE "exited")
  /\ UNCHANGED <<scannedVars, requested, currentTime, todo, judged>>

LockTiming ==
  /\ WatchGoto("lock", "scan")
  /\ todo' = Threads
  /\ UNCHANGED <<scannedVars, requested, currentTime, judged>>

\* std::size_t((currentTime - item->started).count())
TimeExecution(w) == (currentTime - timing[w].started) % SizeMod

\* Mutant: a slot that was published is looked at whether it is working or not.
OverdueOnce(w) == timing[w] # NoScript /\ TimeExecution(w) > maxExecutionTime

Overdue(w) == timing[w].isWorking /\ TimeExecution(w) > maxExecutionTime

\* One turn of the loop over the slots.
Judge(w) ==
  /\ WatchGoto("scan", IF Overdue(w) THEN "kill" ELSE "scan")
  /\ w \in todo
  /\ todo' = todo \ {w}
  /\ judged' = IF Overdue(w) THEN w ELSE NoOne
  /\ UNCHANGED <<scannedVars, requested, currentTime>>

\* item->isolate of the slot found overdue.  It stays, whatever its thread does now.
Target == timing[judged].isolate

\* Mutant: the isolate is left alone while it is in use.
NotInUse == locker[Target] = NoOne

\* IsInUse(): some thread is inside (external).
InUse == locker[Target] # NoOne

\* if (item->isolate->IsInUse()) ...
TestInUse ==
  /\ WatchGoto("kill", IF InUse THEN "terminate" ELSE "scan")
  /\ judged' = IF InUse THEN judged ELSE NoOne
  /\ UNCHANGED <<scannedVars, requested, currentTime, todo>>

\* ... item->isolate->TerminateExecution(), which reaches whoever is in the isolate by
\* now, and stays pending when nobody is.
Terminate ==
  /\ WatchGoto("terminate", "scan")
  /\ requested' = requested \cup {Target}
  /\ judged' = NoOne
  /\ UNCHANGED <<scannedVars, currentTime, todo>>

\* The mutex is released and the sleep begins ...
EndScan ==
  /\ WatchGoto("scan", "sleep")
  /\ todo = {}
  /\ UNCHANGED <<scannedVars, requested, currentTime, todo, judged>>

\* ... and ends; the clock is read for the next scan.
Wake ==
  /\ WatchGoto("sleep", "test")
  /\ currentTime' = clock
  /\ UNCHANGED <<scannedVars, requested, todo, judged>>

-----------------------------------------------------------------------------
\* ~V8Runner, which main reaches after the pool has joined its threads.

\* Mutant: the thread is joined without being told to stop.
KeepsWatching == TRUE

\* The value the destructor gives _timeCheckerWatch.
WatchAtEnd == FALSE

StopWatch ==
  /\ dpc = "alive" /\ dpc' = "join"
  /\ \A w \in Threads : wpc[w] = "idle"
  /\ watch' = WatchAtEnd
  /\ UNCHANGED <<clock, maxExecutionTime, threadVars, requested, watchVars>>

JoinWatch ==
  /\ dpc = "join" /\ dpc' = "disposed"
  /\ tpc = "exited"
  /\ UNCHANGED <<clock, maxExecutionTime, threadVars, requested, watchVars, watch>>

\* Nothing is left to do.
Over == dpc = "disposed" /\ UNCHANGED vars
-----------------------------------------------------------------------------
TimeCheckerFunc == \/ TestWatch \/ LockTiming \/ TestInUse \/ Terminate \/ EndScan \/ Wake
                   \/ \E w \in Threads : Judge(w)

ThreadStep(w) == \/ NotCalled(w) \/ ReadTime(w) \/ Return(w) \/ Unwind(w)
                 \/ ClearWorking(w) \/ EndRun(w) \/ EndCompile(w) \/ EndCheck(w)

Next == \/ Tick
        \/ \E w \in Threads : \/ ThreadStep(w) \/ Publish(w)
                              \/ \E e \in BOOLEAN :
                                   \/ BeginCheck(w, e)
                                   \/ \E i \in Isolates : BeginRun(w, i, e) \/ BeginCompile(w, i, e)
                              \/ \E i \in Isolates \cup {NoIsolate} : Remove(w, i)
        \/ \E m \in Limits : SetMaxExecutionTime(m)
        \/ TimeCheckerFunc
        \/ StopWatch \/ JoinWatch \/ Over

Spec == Init /\ [][Next]_vars

-----------------------------------------------------------------------------
\* Properties.

\* Every variable has its type.
TypeOK ==
  /\ clock \in 0..MaxClock /\ currentTime \in 0..MaxClock
  /\ maxExecutionTime \in Limits
  /\ timing \in [Threads -> [isWorking : BOOLEAN, isolate : Isolates \cup {NoIsolate},
                           started : 0..MaxClock]]
  /\ locker \in [Isolates -> Threads \cup {NoOne}]
  /\ requested \subseteq Isolates
  /\ wpc \in [Threads -> ThreadPcs]
  /\ iso \in [Threads -> Isolates \cup {NoIsolate}]
  /\ started \in [Threads -> 0..MaxClock]
  /\ endless \in [Threads -> BOOLEAN]
  /\ tpc \in {"test", "lock", "scan", "kill", "terminate", "sleep", "exited"}
  /\ todo \subseteq Threads /\ judged \in Threads \cup {NoOne}
  /\ watch \in BOOLEAN /\ dpc \in {"alive", "join", "disposed"}

\* A slot that is working tells the truth: its thread is inside the call it
\* published, in that isolate, and holds its Locker.  Hence two working slots
\* never name the same isolate.
SlotTellsTruth ==
  \A w \in Threads :
    timing[w].isWorking =>
      /\ wpc[w] \in {"calling", "returned", "caught"}
      /\ timing[w].isolate = iso[w] /\ timing[w].started = started[w]
      /\ locker[iso[w]] = w

\* One scan judges all slots against one limit, and no script enters a slot
\* while it lasts: the slots can only stop working.
ScanIsConsistent ==
  [][Scanning /\ Scanning' =>
       /\ maxExecutionTime' = maxExecutionTime
       /\ \A w \in Threads : timing'[w].isWorking => timing'[w] = timing[w]]_vars

\* Whom a termination may reach.  A script that began before the watchdog read
\* the clock for its scan is only terminated if it really is overdue; the ones
\* hit early all began after that reading.
InV8(w) == wpc[w] \in {"calling", "compiling"}
OldScriptsAreJudgedFairly ==
  [][\A w \in Threads :
       InV8(w) /\ iso[w] \notin requested /\ iso[w] \in requested' /\ started[w] < currentTime
         => clock - started[w] > maxExecutionTime]_vars

\* No overdue call slips through a scan: once it has been looked at, V8 has been asked to
\* end it, and the request is still there as long as the call is.  What the watchdog asks
\* between two of its steps, about an isolate its thread may leave meanwhile, and the
\* requests that other calls drop as they get a Locker or end never cost one.
ScanMissesNobody ==
  Scanning =>
    \A w \in Threads \ (todo \cup {judged}) :
      wpc[w] = "calling" /\ Overdue(w) => iso[w] \in requested

-----------------------------------------------------------------------------
\* What the comment on _timing says ("to kill long running script",
\* v8runner.h:188) and the code does not do.

\* Only a script that has run for longer than the limit is terminated.
OnlyLongScriptsAreKilled ==
  [][\A w \in Threads :
       InV8(w) /\ iso[w] \notin requested /\ iso[w] \in requested'
         => clock - started[w] > maxExecutionTime]_vars

\* The script terminated is the one whose slot was found overdue, if anyone's.
KillsTheScriptItJudged ==
  [][\A i \in Isolates :
       i \notin requested /\ i \in requested' => locker[i] \in {judged, NoOne}]_vars
=============================================================================
