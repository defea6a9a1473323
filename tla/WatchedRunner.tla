---------------------------- MODULE WatchedRunner ----------------------------
(***************************************************************************)
(* The V8 runner of src/v8runner.cpp with its watchdog: ScriptRegistry and *)
(* Watchdog as one program.  Watchdog has an account of its own of who may *)
(* be in which isolate when; here the threads do what the registry lets    *)
(* them do, and no more is asked of them.  What a call does to its slot,   *)
(* and the watchdog's thread itself, are Watchdog's.                       *)
(***************************************************************************)
EXTENDS ScriptRegistry

CONSTANTS Limits, FirstLimit, SizeMod, MaxClock    \* as in Watchdog

ASSUME WatchLimitsAssumption == Limits \subseteq Nat /\ FirstLimit \in Limits
ASSUME WatchClockAssumption == MaxClock \in Nat /\ SizeMod \in Nat /\ MaxClock < SizeMod
                               /\ \A m \in Limits : m < SizeMod

VARIABLES clock, maxExecutionTime, timing, requested, wpc, started, endless,
          tpc, currentTime, todo, judged, watch, dpc   \* as in Watchdog

slotVars == <<timing, requested, wpc, started, endless>>
guardVars == <<clock, maxExecutionTime, tpc, currentTime, todo, judged, watch, dpc>>
watchedVars == <<vars, slotVars, guardVars>>

\* A thread is in an isolate from its Locker to the end of the call.
Inside == [t \in Threads |-> IF wpc[t] \in {"idle", "checking"} THEN NoIsolate ELSE isolate[t]]

Watch == INSTANCE Watchdog WITH iso <- Inside, NoOne <- NoThread

WatchedInit == Init /\ Watch!Init

-----------------------------------------------------------------------------
\* The calls.  Nobody calls a runner that is being destroyed.

Alive == dpc = "alive"

\* The thread begins a script.
Begins(t, place, e) == /\ wpc' = [wpc EXCEPT ![t] = place]
                       /\ endless' = [endless EXCEPT ![t] = e]
                       /\ UNCHANGED timing

\* V8 drops what it was asked for an isolate when a thread gets its Locker (external).
Drops(i) == requested' = requested \ {i}

Ask(t) == /\ Alive
          /\ \/ \E op \in {"compile", "remove", "run"}, p \in Pairs : Invoke(t, op, p)
             \/ CleanData(t)
          /\ UNCHANGED <<slotVars, guardVars>>

AskCheck(t, e) == /\ Alive
                  /\ Invoke(t, "check", <<>>)
                  /\ Begins(t, "checking", e)
                  /\ UNCHANGED <<started, requested, guardVars>>

-----------------------------------------------------------------------------
\* _run.

\* The steps outside of the isolate.
RunOutside(t) == /\ LockShared(t) \/ Find(t) \/ NotFound(t)
                 /\ UNCHANGED <<slotVars, guardVars>>

WatchedEnter(t, e) == /\ Enter(t)
                      /\ Begins(t, "locked", e) /\ Drops(isolate[t])
                      /\ UNCHANGED <<started, guardVars>>

\* Nothing is called; the locks are released by the next step.
WatchedNotCalled(t) == (NotFunction(t) \/ BadInput(t)) /\ Watch!NotCalled(t)

\* The slot is published and the function called.
WatchedCall(t) == Call(t) /\ Watch!Publish(t)

\* The function returns, throws or is terminated.
WatchedReturn(t) == EndCall(t) /\ (Watch!Return(t) \/ Watch!Unwind(t))

\* What the call does for its slot alone; the clock is read when there is a function to call.
SlotStep(t) == /\ UNCHANGED vars
               /\ \/ pc[t] = "test" /\ functions[pair[t]] # Empty /\ Watch!ReadTime(t)
                  \/ Watch!ClearWorking(t)

\* Both locks are released; a pair that was not found never had a Locker.
WatchedLeave(t) == /\ Leave(t)
                   /\ \/ Watch!EndRun(t)
                      \/ wpc[t] = "idle" /\ UNCHANGED <<slotVars, guardVars>>

-----------------------------------------------------------------------------
\* _compile, _remove and _checkCode.

WatchedBeginCompile(t, e) == /\ BeginCompile(t)
                             /\ Begins(t, "compiling", e) /\ Drops(isolate'[t])
                             /\ started' = [started EXCEPT ![t] = clock]
                             /\ UNCHANGED guardVars

\* A script that was terminated has no value, so nothing is stored.
WatchedEndCompile(t, s, ok) == /\ EndCompile(t, s, ok)
                               /\ Watch!EndCompile(t)
                               /\ requested' # requested => ~ ok

WatchedRemove(t) == /\ Remove(t)
                    /\ Drops(convs[pair[t][1]])
                    /\ UNCHANGED <<timing, wpc, started, endless, guardVars>>

WatchedEndCheck(t) == EndCheck(t) /\ Watch!EndCheck(t)

-----------------------------------------------------------------------------
\* ~V8Runner.

\* main has joined the pool's threads.
StopWatch == /\ Alive /\ dpc' = "join"
             /\ \A t \in Threads : pc[t] = "idle"
             /\ watch' = Watch!WatchAtEnd
             /\ UNCHANGED <<vars, slotVars, clock, maxExecutionTime, tpc, currentTime, todo, judged>>

\* Mutant: the watchdog's thread is not waited for.
JoinNobody == /\ dpc = "join" /\ dpc' = "disposed"
              /\ UNCHANGED <<slotVars, clock, maxExecutionTime, tpc, currentTime, todo, judged, watch>>

JoinWatch == Watch!JoinWatch

\* The watchdog is joined, then cleanData empties the maps (main is the caller, any of
\* the idle threads stands for it) and the isolates are disposed of.
Dispose == (\E t \in Threads : CleanData(t)) /\ UNCHANGED wpc /\ JoinWatch

-----------------------------------------------------------------------------
\* No thread of the pool moves.
ThreadsStay == UNCHANGED <<vars, wpc>>

\* The watchdog's thread, setMaxExecutionTime and the clock leave the registry alone.
GuardStep == \/ Watch!TimeCheckerFunc \/ Watch!Tick
             \/ \E m \in Limits : Watch!SetMaxExecutionTime(m)

ThreadStep(t) == \/ RunOutside(t) \/ WatchedNotCalled(t) \/ WatchedCall(t) \/ WatchedReturn(t)
                 \/ SlotStep(t) \/ WatchedLeave(t)
                 \/ \E s \in Scripts, ok \in BOOLEAN : WatchedEndCompile(t, s, ok)
                 \/ WatchedRemove(t) \/ WatchedEndCheck(t)
                 \/ \E e \in BOOLEAN : WatchedEnter(t, e) \/ WatchedBeginCompile(t, e)

WatchedNext == \/ \E t \in Threads : \/ ThreadStep(t) \/ Ask(t)
                                     \/ \E e \in BOOLEAN : AskCheck(t, e)
               \/ ThreadsStay /\ GuardStep
               \/ StopWatch \/ Dispose
               \/ ThreadsStay /\ Watch!Over

\* The threads are scheduled and a lock that keeps becoming free is had in the end, as
\* in Runner; time passes and the watchdog's thread is scheduled.  Nobody is obliged to
\* call the runner or to destroy it.
Fairness == /\ WF_watchedVars(ThreadsStay /\ Watch!Tick)
            /\ WF_watchedVars(ThreadsStay /\ Watch!TimeCheckerFunc)
            /\ WF_watchedVars(Dispose)
            /\ \A t \in Threads : SF_watchedVars(ThreadStep(t))

WatchedSpec == WatchedInit /\ [][WatchedNext]_watchedVars
FairWatchedSpec == WatchedSpec /\ Fairness

-----------------------------------------------------------------------------
\* Properties.

\* The registry's locks give the watchdog what it counts on: whatever the calls do to
\* one another, Watchdog's account of who is in which isolate when is the true one.
WatchSpec == Watch!Spec

\* A working slot is about the pair its thread was called with: it names the isolate the
\* pair's function lives in, that function is what runs, and it is not compiled again or
\* removed before the slot is cleared.
SlotIsThePair ==
  \A t \in Threads :
    timing[t].isWorking => /\ timing[t].isolate = home[pair[t]]
                           /\ answer[t] = functions[pair[t]] /\ answer[t] \in Scripts
                           /\ writer = NoThread

\* The isolates are disposed of when nothing refers to them: the watchdog, which may have
\* left a request pending in one that nobody is in, has ended, no thread is in one, no slot
\* names one, and no function is left.
DisposalIsClean ==
  dpc = "disposed" =>
    /\ tpc = "exited"
    /\ \A t \in Threads : pc[t] = "idle" /\ ~ timing[t].isWorking
    /\ \A i \in Isolates : locker[i] = NoThread
    /\ \A p \in Pairs : functions[p] = Absent

\* No code but that of the functions called is endless, and those are called early enough
\* for the model's clock to show them overdue.
EndlessInTime ==
  \A t \in Threads :
    endless[t] => \/ wpc[t] \in {"locked", "timed", "caught", "unlock"}
                  \/ wpc[t] = "calling" /\ \A m \in Limits : started[t] + m < MaxClock

\* The destructor comes back: the watchdog leaves its loop once it is told to.
DestructorReturns == dpc = "join" ~> dpc = "disposed"

\* The watchdog gives back what an endless function holds: though it has the Locker and
\* the shared side of _compileMutex, every other run that waits for them returns ...
RunsReturn == []EndlessInTime => \A t \in Threads : []<>(~ Running(t))

\* ... and so does every compile and remove, once no more runs are called.
NoNewRuns == [][\A t \in Threads : pc'[t] = "run" => pc[t] = "run"]_watchedVars
WritersReturn == []EndlessInTime /\ <>NoNewRuns
                   => \A t \in Threads : []<>(pc[t] \notin {"compile", "define", "remove"})

\* Nobody is stuck in the runner for good: neither who runs or changes scripts, though
\* some of them never end, nor who destroys it.
EverybodyReturns == RunsReturn /\ WritersReturn /\ DestructorReturns
=============================================================================
