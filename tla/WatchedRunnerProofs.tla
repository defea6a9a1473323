-------------------------- MODULE WatchedRunnerProofs --------------------------
(***************************************************************************)
(* What is proved of WatchedRunner, for any number of threads, isolates,   *)
(* convs and scripts, and any limits.  It is both of its parts: the        *)
(* registry's theorems hold of it as they stand, and with what its locks   *)
(* give (SeamInv) every step of it is one that Watchdog allows, so that    *)
(* Watchdog's theorems hold of it too.                                     *)
(***************************************************************************)
EXTENDS WatchedRunner, ScriptRegistryProofs

WatchProofs == INSTANCE WatchdogProofs WITH iso <- Inside, NoOne <- NoThread

USE ThreadsAssumption, NumIsolatesAssumption, MarksAssumption

-----------------------------------------------------------------------------
\* Where a thread stands in _run says where it stands with its slot ...
Outside == {"idle", "compile", "remove", "run", "find", "enter"}

Places ==
  \A t \in Threads :
    /\ pc[t] \in Outside => wpc[t] = "idle"
    /\ pc[t] = "check" => wpc[t] = "checking"
    /\ pc[t] = "define" => wpc[t] = "compiling"
    /\ pc[t] = "test" => wpc[t] \in {"locked", "timed"}
    /\ pc[t] = "call" => wpc[t] = "calling"
    /\ pc[t] = "leave" => IF isolate[t] = NoIsolate THEN wpc[t] = "idle"
                          ELSE wpc[t] \in {"returned", "caught", "stringify", "unlock"}

\* ... what was called is still there when its slot is about to be cleared ...
CalledStays ==
  \A t \in Threads :
    /\ wpc[t] = "timed" => functions[pair[t]] # Empty
    /\ wpc[t] \in {"returned", "caught"} =>
         /\ isolate[t] = convs[pair[t][1]]
         /\ answer[t] = functions[pair[t]] /\ answer[t] \in Scripts

\* ... and nobody is in the runner when it is destroyed.
NobodyAtTheEnd == ~ Alive => \A t \in Threads : pc[t] = "idle"

SeamInv == /\ wpc \in [Threads -> Watch!ThreadPcs]
           /\ Places
           /\ CalledStays
           /\ NobodyAtTheEnd

-----------------------------------------------------------------------------
\* The registry in it.

\* Every step is one of the registry, or leaves it alone.
LEMMA RegistryStep == [WatchedNext]_watchedVars => [Next]_vars
  <1> SUFFICES ASSUME [WatchedNext]_watchedVars PROVE Next \/ UNCHANGED vars
    OBVIOUS
  <1>1. ASSUME NEW t \in Threads, Ask(t) PROVE Next
    BY <1>1 DEF Ask, Next, Calls
  <1>2. ASSUME NEW t \in Threads, NEW e \in BOOLEAN, AskCheck(t, e) PROVE Next
    BY <1>2 DEF AskCheck, Next, Calls
  <1>3. ASSUME NEW t \in Threads, SlotStep(t) PROVE UNCHANGED vars
    BY <1>3 DEF SlotStep
  <1>4. ASSUME NEW t \in Threads, ThreadStep(t), ~ SlotStep(t) PROVE Step(t)
    BY <1>4 DEF ThreadStep, RunOutside, WatchedEnter, WatchedNotCalled, WatchedCall, WatchedReturn,
                WatchedLeave, WatchedBeginCompile, WatchedEndCompile, WatchedRemove,
                WatchedEndCheck, Step
  <1>5. CASE Dispose
    BY <1>5 DEF Dispose, Next, Calls
  <1>6. CASE StopWatch
    BY <1>6 DEF StopWatch
  <1>7. CASE ThreadsStay
    BY <1>7 DEF ThreadsStay
  <1>8. CASE UNCHANGED watchedVars
    BY <1>8 DEF watchedVars
  <1>. QED
    BY <1>1, <1>2, <1>3, <1>4, <1>5, <1>6, <1>7, <1>8 DEF WatchedNext, Next

\* With a watchdog beside it the runner still is the registry of ScriptRegistry: every
\* theorem about that holds of it.
THEOREM WatchedUsesRegistry == WatchedSpec => Spec
  BY RegistryStep, PTL DEF WatchedSpec, WatchedInit, Spec

-----------------------------------------------------------------------------
\* The seam.

\* It holds of a new runner.
LEMMA SeamInitially == WatchedInit => SeamInv
  BY DEF WatchedInit, Init, Watch!Init, Watch!ThreadPcs, SeamInv, Places, Outside, CalledStays,
         NobodyAtTheEnd, Alive

\* The steps of _run keep it.
LEMMA RunKeepsSeam ==
  ASSUME RegistryInv, SeamInv, NEW t \in Threads, NEW e \in BOOLEAN,
         RunOutside(t) \/ WatchedEnter(t, e) \/ WatchedNotCalled(t) \/ WatchedCall(t)
           \/ WatchedReturn(t) \/ SlotStep(t) \/ WatchedLeave(t)
  PROVE  SeamInv'
  <1> USE DEF SeamInv, Places, Outside, CalledStays, NobodyAtTheEnd, Alive, Watch!ThreadPcs,
              RegistryInv, TypeOK, Pcs, Goto, Watch!Goto, mapVars, lockVars
  <1>1. CASE RunOutside(t)
    BY <1>1 DEF RunOutside, LockShared, Find, NotFound, slotVars, guardVars, MapInv, Knows, InsidePcs
  <1>2. CASE WatchedEnter(t, e)
    BY <1>2 DEF WatchedEnter, Enter, Begins, guardVars, MapInv, Knows, InsidePcs
  <1>3. CASE WatchedNotCalled(t)
    <2>1. isolate[t] # NoIsolate
      BY <1>3 DEF WatchedNotCalled, NotFunction, BadInput, MapInv, Knows, Isolates
    <2>. QED
      BY <1>3, <2>1 DEF WatchedNotCalled, NotFunction, BadInput, Watch!NotCalled,
                        Watch!aroundVars, Watch!destructorVars
  <1>4. CASE WatchedCall(t)
    BY <1>4 DEF WatchedCall, Call, Watch!Publish, Watch!aroundVars, Watch!destructorVars
  <1>5. CASE WatchedReturn(t)
    <2>1. /\ isolate[t] # NoIsolate /\ isolate[t] = convs[pair[t][1]]
          /\ answer[t] = functions[pair[t]] /\ answer[t] \in Scripts
      BY <1>5 DEF WatchedReturn, EndCall, MapInv, Knows, Isolates
    <2>2. wpc' = [wpc EXCEPT ![t] = "returned"] \/ wpc' = [wpc EXCEPT ![t] = "caught"]
      BY <1>5 DEF WatchedReturn, Watch!Return, Watch!Unwind
    <2>3. UNCHANGED dpc
      BY <1>5 DEF WatchedReturn, Watch!Return, Watch!Unwind, Watch!aroundVars, Watch!destructorVars
    <2>. QED
      BY <1>5, <2>1, <2>2, <2>3 DEF WatchedReturn, EndCall
  <1>6. CASE SlotStep(t)
    BY <1>6 DEF SlotStep, Watch!ReadTime, Watch!ClearWorking, vars,
                Watch!aroundVars, Watch!destructorVars
  <1>7. CASE WatchedLeave(t)
    BY <1>7 DEF WatchedLeave, Leave, Done, Watch!EndRun, Watch!Unlock, slotVars, guardVars,
                Watch!aroundVars, Watch!destructorVars
  <1>. QED
    BY <1>1, <1>2, <1>3, <1>4, <1>5, <1>6, <1>7

\* So do the other calls.  Compile, remove and cleanData have the registry to themselves.
LEMMA CallsKeepSeam ==
  ASSUME RegistryInv, SeamInv, NEW t \in Threads, NEW e \in BOOLEAN,
         \/ Ask(t) \/ AskCheck(t, e) \/ WatchedBeginCompile(t, e)
         \/ \E s \in Scripts, ok \in BOOLEAN : WatchedEndCompile(t, s, ok)
         \/ WatchedRemove(t) \/ WatchedEndCheck(t)
  PROVE  SeamInv'
  <1> USE DEF SeamInv, Places, Outside, CalledStays, NobodyAtTheEnd, Alive, Watch!ThreadPcs,
              RegistryInv, TypeOK, Pcs, SharedPcs, Goto, Watch!Goto, mapVars, lockVars
  <1>1. CASE Ask(t)
    <2>1. ASSUME NEW op \in {"compile", "remove", "run"}, NEW p \in Pairs, Invoke(t, op, p)
          PROVE  SeamInv'
      BY <1>1, <2>1 DEF Ask, Invoke, slotVars, guardVars
    <2>2. CASE CleanData(t)
      BY <1>1, <2>2, AloneWhenUnlocked DEF Ask, CleanData, slotVars, guardVars
    <2>. QED
      BY <1>1, <2>1, <2>2 DEF Ask
  <1>2. CASE AskCheck(t, e)
    BY <1>2 DEF AskCheck, Invoke, Begins, guardVars
  <1>3. CASE WatchedBeginCompile(t, e)
    BY <1>3, AloneWhenUnlocked DEF WatchedBeginCompile, BeginCompile, Begins, guardVars
  <1>4. ASSUME NEW s \in Scripts, NEW ok \in BOOLEAN, WatchedEndCompile(t, s, ok)
        PROVE  SeamInv'
    BY <1>4, AloneWhenDefining
       DEF WatchedEndCompile, EndCompile, Done, Watch!EndCompile, Watch!Unlock,
           Watch!aroundVars, Watch!destructorVars
  <1>5. CASE WatchedRemove(t)
    BY <1>5, AloneWhenUnlocked DEF WatchedRemove, Remove, Done, slotVars, guardVars
  <1>6. CASE WatchedEndCheck(t)
    BY <1>6 DEF WatchedEndCheck, EndCheck, Done, Watch!EndCheck,
                Watch!aroundVars, Watch!destructorVars
  <1>. QED
    BY <1>1, <1>2, <1>3, <1>4, <1>5, <1>6

\* The watchdog's steps, the clock's and the destructor's leave the threads where they are.
LEMMA GuardKeepsSeam ==
  ASSUME RegistryInv, SeamInv,
         (ThreadsStay /\ (GuardStep \/ Watch!Over)) \/ StopWatch \/ Dispose \/ UNCHANGED watchedVars
  PROVE  SeamInv'
  <1> USE DEF SeamInv, Places, Outside, CalledStays, NobodyAtTheEnd, Alive, vars, mapVars, lockVars
  <1>1. CASE ThreadsStay /\ GuardStep
    <2>1. UNCHANGED dpc
      BY <1>1 DEF GuardStep, Watch!TimeCheckerFunc, Watch!TestWatch, Watch!LockTiming, Watch!Judge,
                  Watch!TestInUse, Watch!Terminate, Watch!EndScan, Watch!Wake, Watch!Tick,
                  Watch!SetMaxExecutionTime,
                  Watch!scannedVars, Watch!destructorVars
    <2>. QED
      BY <1>1, <2>1 DEF ThreadsStay
  <1>2. CASE ThreadsStay /\ Watch!Over
    BY <1>2 DEF ThreadsStay, Watch!Over, Watch!vars, Watch!destructorVars
  <1>3. CASE StopWatch
    BY <1>3 DEF StopWatch, slotVars
  <1>4. CASE Dispose
    <2>1. \A t \in Threads : pc[t] = "idle" /\ wpc[t] = "idle"
      BY <1>4 DEF Dispose, JoinWatch, Watch!JoinWatch
    <2>. QED
      BY <1>4, <2>1 DEF Dispose, CleanData
  <1>5. CASE UNCHANGED watchedVars
    BY <1>5 DEF watchedVars, slotVars, guardVars
  <1>. QED
    BY <1>1, <1>2, <1>3, <1>4, <1>5

\* The registry's invariant and the seam's hold together.
LEMMA SeamInvariant == WatchedSpec => [](RegistryInv /\ SeamInv)
  <1>1. WatchedSpec => []RegistryInv
    BY WatchedUsesRegistry, RegistryInvariant, PTL
  <1>2. RegistryInv /\ SeamInv /\ [WatchedNext]_watchedVars => SeamInv'
    BY RunKeepsSeam, CallsKeepSeam, GuardKeepsSeam DEF WatchedNext, ThreadStep
  <1>. QED
    BY <1>1, <1>2, SeamInitially, PTL DEF WatchedSpec

-----------------------------------------------------------------------------
\* The watchdog in it.

\* A new runner is as Watchdog has it.
LEMMA WatchStarts == WatchedInit => Watch!Init
  BY DEF WatchedInit

\* The registry's locks are the guards under which Watchdog lets a thread into an isolate.
LEMMA InsideIsolates ==
  ASSUME RegistryInv, SeamInv, NEW t \in Threads
  PROVE  /\ wpc[t] # "idle" /\ pc[t] \notin {"check", "leave"} => isolate[t] \in Isolates
         /\ pc[t] \in SharedPcs => \A u \in Threads : wpc[u] # "compiling"
         /\ Unlocked => \A u \in Threads : wpc[u] \in {"idle", "checking"}
         /\ pc[t] # "idle" => Alive
  <1> USE DEF RegistryInv, TypeOK, SeamInv, Pcs, SharedPcs
  <1>1. wpc[t] # "idle" /\ pc[t] \notin {"check", "leave"} => isolate[t] \in Isolates
    BY DEF Places, Outside, MapInv, Knows
  <1>2. \A u \in Threads : wpc[u] = "compiling" => pc[u] = "define"
    BY DEF Places, Outside
  <1>3. pc[t] \in SharedPcs => \A u \in Threads : wpc[u] # "compiling"
    BY <1>2, AloneWhenDefining
  <1>4. Unlocked => \A u \in Threads : wpc[u] \in {"idle", "checking"}
    BY AloneWhenUnlocked DEF Places, Outside
  <1>. QED
    BY <1>1, <1>3, <1>4 DEF NobodyAtTheEnd

\* The calls that begin are what Watchdog lets begin.
LEMMA BeginsAsWatched ==
  ASSUME RegistryInv, SeamInv, NEW t \in Threads, NEW e \in BOOLEAN
  PROVE  /\ AskCheck(t, e) => Watch!BeginCheck(t, e)
         /\ WatchedEnter(t, e) => Watch!BeginRun(t, isolate[t], e)
         /\ WatchedBeginCompile(t, e) => Watch!BeginCompile(t, IsolateFor(pair[t][1]), e)
  <1> USE DEF RegistryInv, TypeOK, SeamInv, Places, Outside, Begins, Drops, Goto, Watch!Goto, Watch!Idle, Watch!Lock,
              Alive, guardVars, mapVars, lockVars, Inside, Watch!aroundVars, Watch!watchVars,
              Watch!destructorVars
  <1>1. ASSUME AskCheck(t, e) PROVE Watch!BeginCheck(t, e)
    BY <1>1 DEF AskCheck, Invoke, Watch!BeginCheck
  <1>2. ASSUME WatchedEnter(t, e) PROVE Watch!BeginRun(t, isolate[t], e)
    <2>1. Inside' = [Inside EXCEPT ![t] = isolate[t]]
      BY <1>2 DEF WatchedEnter, Enter
    <2>2. Alive /\ \A u \in Threads : wpc[u] # "compiling"
      BY <1>2, InsideIsolates DEF WatchedEnter, Enter, SharedPcs
    <2>. QED
      BY <1>2, <2>1, <2>2 DEF WatchedEnter, Enter, Watch!BeginRun
  <1>3. ASSUME WatchedBeginCompile(t, e)
        PROVE  Watch!BeginCompile(t, IsolateFor(pair[t][1]), e)
    <2>1. Inside' = [Inside EXCEPT ![t] = IsolateFor(pair[t][1])]
      BY <1>3 DEF WatchedBeginCompile, BeginCompile
    <2>2. Alive /\ \A u \in Threads : wpc[u] \in {"idle", "checking"}
      BY <1>3, InsideIsolates DEF WatchedBeginCompile, BeginCompile
    <2>. QED
      BY <1>3, <2>1, <2>2 DEF WatchedBeginCompile, BeginCompile, Watch!BeginCompile
  <1>. QED
    BY <1>1, <1>2, <1>3

\* The steps that move the registry alone are none of the watchdog's.
LEMMA RegistryAlone ==
  ASSUME RegistryInv, SeamInv, NEW t \in Threads,
         \/ Ask(t) \/ RunOutside(t)
         \/ WatchedLeave(t) /\ wpc[t] = "idle" /\ UNCHANGED <<slotVars, guardVars>>
  PROVE  UNCHANGED Watch!vars
  <1> USE DEF RegistryInv, TypeOK, SeamInv, Places, Outside, Goto, mapVars, lockVars
  <1>1. UNCHANGED <<slotVars, guardVars>>
    BY DEF Ask, RunOutside, WatchedLeave
  <1>2. UNCHANGED locker
    <2>1. CASE WatchedLeave(t) /\ wpc[t] = "idle"
      <3>1. isolate[t] = NoIsolate
        BY <2>1 DEF WatchedLeave, Leave
      <3>. QED
        BY <2>1, <3>1 DEF WatchedLeave, Leave, Isolates
    <2>2. CASE Ask(t) \/ RunOutside(t)
      BY <2>2 DEF Ask, Invoke, CleanData, RunOutside, LockShared, Find, NotFound
    <2>. QED
      BY <2>1, <2>2
  <1>3. wpc[t] = "idle"
    BY DEF Ask, Invoke, CleanData, RunOutside, LockShared, Find, NotFound
  <1>4. \A u \in Threads : u # t => isolate'[u] = isolate[u]
    BY DEF Ask, Invoke, CleanData, RunOutside, LockShared, Find, NotFound,
           WatchedLeave, Leave, Done
  <1>5. UNCHANGED Inside
    BY <1>1, <1>3, <1>4 DEF Inside, slotVars
  <1>. QED
    BY <1>1, <1>2, <1>5 DEF slotVars, guardVars, Watch!vars, Watch!threadVars, Watch!watchVars,
                            Watch!destructorVars

\* remove, which needs no isolate and runs nothing, is Watchdog's.
LEMMA RemoveAsWatched ==
  ASSUME RegistryInv, SeamInv, NEW t \in Threads, WatchedRemove(t)
  PROVE  Watch!Remove(t, convs[pair[t][1]])
  <1>1. pc[t] = "remove" /\ Unlocked /\ UNCHANGED locker
    BY DEF WatchedRemove, Remove, lockVars
  <1>2. wpc[t] = "idle" /\ Alive /\ \A u \in Threads : wpc[u] \in {"idle", "checking"}
    BY <1>1, InsideIsolates DEF SeamInv, Places, Outside
  <1>3. UNCHANGED Inside
    <2>1. \A u \in Threads : u # t => isolate'[u] = isolate[u]
      BY DEF WatchedRemove, Remove, Done, RegistryInv, TypeOK
    <2>. QED
      BY <1>2, <2>1 DEF WatchedRemove, Inside
  <1>. QED
    BY <1>1, <1>2, <1>3 DEF WatchedRemove, Drops, Watch!Remove, Watch!Idle, Alive, guardVars,
                            Watch!aroundVars, Watch!watchVars, Watch!destructorVars, Watch!threadVars

\* Every step is one that Watchdog allows, or leaves the watchdog and the slots alone.
LEMMA WatchStep ==
  RegistryInv /\ SeamInv /\ [WatchedNext]_watchedVars => [Watch!Next]_(Watch!vars)
  <1> SUFFICES ASSUME RegistryInv, SeamInv, [WatchedNext]_watchedVars
               PROVE  Watch!Next \/ UNCHANGED Watch!vars
    OBVIOUS
  <1>1. ASSUME NEW t \in Threads, NEW e \in BOOLEAN,
               AskCheck(t, e) \/ WatchedEnter(t, e) \/ WatchedBeginCompile(t, e)
        PROVE  Watch!Next
    <2>1. WatchedEnter(t, e) => isolate[t] \in Isolates
      BY DEF WatchedEnter, Enter, Goto, RegistryInv, MapInv, Knows
    <2>2. WatchedBeginCompile(t, e) => IsolateFor(pair[t][1]) \in Isolates
      BY IsolateIsOne, ConvOfPair DEF WatchedBeginCompile, BeginCompile, Goto, RegistryInv, MapInv, Knows
    <2>. QED
      BY <1>1, <2>1, <2>2, BeginsAsWatched DEF Watch!Next
  <1>2. ASSUME NEW t \in Threads, Ask(t) \/ RunOutside(t) PROVE UNCHANGED Watch!vars
    BY <1>2, RegistryAlone
  <1>3. ASSUME NEW t \in Threads, WatchedRemove(t) PROVE Watch!Next
    <2>1. convs[pair[t][1]] \in Isolates \cup {NoIsolate}
      BY <1>3, ConvOfPair DEF WatchedRemove, Remove, RegistryInv, TypeOK, MapInv, Knows
    <2>. QED
      BY <1>3, <2>1, RemoveAsWatched DEF Watch!Next
  <1>4. ASSUME NEW t \in Threads, WatchedLeave(t) PROVE Watch!Next \/ UNCHANGED Watch!vars
    BY <1>4, RegistryAlone DEF WatchedLeave, Watch!Next, Watch!ThreadStep
  <1>5. ASSUME NEW t \in Threads,
               \/ WatchedNotCalled(t) \/ WatchedCall(t) \/ WatchedReturn(t) \/ SlotStep(t)
               \/ \E s \in Scripts, ok \in BOOLEAN : WatchedEndCompile(t, s, ok)
               \/ WatchedEndCheck(t)
        PROVE  Watch!Next
    BY <1>5 DEF WatchedNotCalled, WatchedCall, WatchedReturn, SlotStep, WatchedEndCompile,
                WatchedEndCheck, Watch!Next, Watch!ThreadStep
  <1>6. CASE GuardStep \/ Watch!Over \/ Dispose
    BY <1>6 DEF GuardStep, Dispose, JoinWatch, Watch!Next
  <1>7. CASE StopWatch
    <2>1. Watch!StopWatch
      BY <1>7 DEF StopWatch, Alive, vars, lockVars, slotVars, Inside, SeamInv, Places, Outside,
                  Watch!StopWatch, Watch!threadVars, Watch!watchVars
    <2>. QED
      BY <2>1 DEF Watch!Next
  <1>8. CASE UNCHANGED watchedVars
    BY <1>8 DEF watchedVars, vars, lockVars, slotVars, guardVars, Inside,
                Watch!vars, Watch!threadVars, Watch!watchVars, Watch!destructorVars
  <1>. QED
    BY <1>1, <1>2, <1>3, <1>4, <1>5, <1>6, <1>7, <1>8 DEF WatchedNext, ThreadStep

\* The registry's locks keep every promise that Watchdog's account of who is in which
\* isolate makes: no run begins beside a compile, no compile beside a run, nobody enters
\* an isolate that is taken, and nothing begins once the destructor does.
THEOREM RegistryImplementsWatchdog == WatchedSpec => WatchSpec
  BY SeamInvariant, WatchStarts, WatchStep, PTL DEF WatchedSpec, WatchSpec, Watch!Spec

-----------------------------------------------------------------------------
\* Watchdog's theorems.  WatchProofs has copies of Watchdog's definitions; they are
\* the same formulas.
LEMMA SameThreadSteps ==
  \A w : /\ Watch!ThreadStep(w) => WatchProofs!ThreadStep(w)
         /\ Watch!Publish(w) => WatchProofs!Publish(w)
  BY DEF WatchProofs!ThreadStep, WatchProofs!NotCalled, WatchProofs!ReadTime, WatchProofs!Now,
         WatchProofs!Publish, WatchProofs!TimingFree, WatchProofs!Scanning,
         WatchProofs!Return, WatchProofs!Unwind, WatchProofs!Terminated, WatchProofs!Ends,
         WatchProofs!ClearWorking,
         WatchProofs!Cleared, WatchProofs!EndRun, WatchProofs!EndCompile,
         WatchProofs!EndCheck, WatchProofs!Unlock, WatchProofs!Goto, WatchProofs!aroundVars,
         WatchProofs!watchVars, WatchProofs!destructorVars, Watch!ThreadStep, Watch!NotCalled,
         Watch!ReadTime, Watch!Now, Watch!Publish, Watch!TimingFree, Watch!Scanning,
         Watch!Return, Watch!Unwind, Watch!Terminated, Watch!Ends, Watch!ClearWorking,
         Watch!Cleared, Watch!EndRun,
         Watch!EndCompile, Watch!EndCheck, Watch!Unlock, Watch!Goto, Watch!aroundVars,
         Watch!watchVars, Watch!destructorVars

\* Those that begin something ...
LEMMA SameBeginnings ==
  \A w, i, e : /\ Watch!BeginRun(w, i, e) => WatchProofs!BeginRun(w, i, e)
               /\ Watch!BeginCompile(w, i, e) => WatchProofs!BeginCompile(w, i, e)
               /\ Watch!BeginCheck(w, e) => WatchProofs!BeginCheck(w, e)
               /\ Watch!Remove(w, i) => WatchProofs!Remove(w, i)
  BY DEF WatchProofs!BeginRun, WatchProofs!BeginCompile, WatchProofs!BeginCheck,
         WatchProofs!Idle, WatchProofs!Lock, WatchProofs!Goto, WatchProofs!aroundVars, WatchProofs!watchVars,
         WatchProofs!destructorVars, Watch!BeginRun, Watch!BeginCompile, Watch!BeginCheck,
         Watch!Idle, Watch!Lock, Watch!Goto, Watch!aroundVars, Watch!watchVars,
         Watch!destructorVars, Watch!Remove, WatchProofs!Remove, Watch!threadVars,
         WatchProofs!threadVars

\* ... and those around the threads.
LEMMA SameScans ==
  /\ Watch!TimeCheckerFunc => WatchProofs!TimeCheckerFunc
  /\ Watch!Tick => WatchProofs!Tick
  /\ \A m : Watch!SetMaxExecutionTime(m) => WatchProofs!SetMaxExecutionTime(m)
  /\ Watch!StopWatch => WatchProofs!StopWatch
  /\ Watch!JoinWatch => WatchProofs!JoinWatch
  /\ Watch!Over => WatchProofs!Over
  BY DEF WatchProofs!TimeCheckerFunc, WatchProofs!TestWatch, WatchProofs!LockTiming,
         WatchProofs!Judge, WatchProofs!Overdue, WatchProofs!TimeExecution, WatchProofs!TestInUse,
         WatchProofs!Terminate, WatchProofs!Target, WatchProofs!InUse, WatchProofs!EndScan,
         WatchProofs!Wake, WatchProofs!WatchGoto, WatchProofs!Tick,
         WatchProofs!SetMaxExecutionTime, WatchProofs!TimingFree, WatchProofs!Scanning,
         WatchProofs!StopWatch, WatchProofs!WatchAtEnd, WatchProofs!JoinWatch,
         WatchProofs!Over, WatchProofs!vars, WatchProofs!scannedVars, WatchProofs!threadVars,
         WatchProofs!watchVars, WatchProofs!destructorVars, Watch!TimeCheckerFunc,
         Watch!TestWatch, Watch!LockTiming, Watch!Judge, Watch!Overdue, Watch!TimeExecution,
         Watch!TestInUse, Watch!Terminate, Watch!Target, Watch!InUse, Watch!EndScan, Watch!Wake,
         Watch!WatchGoto, Watch!Tick, Watch!SetMaxExecutionTime, Watch!TimingFree,
         Watch!Scanning, Watch!StopWatch, Watch!WatchAtEnd, Watch!JoinWatch, Watch!Over,
         Watch!vars, Watch!scannedVars, Watch!threadVars, Watch!watchVars,
         Watch!destructorVars

\* So what is proved of the one watchdog holds of the other.
LEMMA SameWatchdog == Watch!Spec => WatchProofs!Spec
  <1>1. Watch!Init => WatchProofs!Init
    BY DEF Watch!Init, WatchProofs!Init, Watch!NoScript, WatchProofs!NoScript
  <1>2. Watch!Next => WatchProofs!Next
    BY SameThreadSteps, SameBeginnings, SameScans DEF Watch!Next, WatchProofs!Next
  <1>3. UNCHANGED Watch!vars => UNCHANGED WatchProofs!vars
    BY DEF Watch!vars, Watch!threadVars, Watch!watchVars, Watch!destructorVars,
           WatchProofs!vars, WatchProofs!threadVars, WatchProofs!watchVars,
           WatchProofs!destructorVars
  <1>4. [Watch!Next]_(Watch!vars) => [WatchProofs!Next]_(WatchProofs!vars)
    BY <1>2, <1>3
  <1>. QED
    BY <1>1, <1>4, PTL DEF Watch!Spec, WatchProofs!Spec

\* The constants are as Watchdog wants them.
LEMMA WatchAssumptions ==
  /\ WatchProofs!IsFiniteSet(Threads) /\ NoThread \notin Threads
  /\ NoIsolate \notin Isolates
  /\ Limits \subseteq Nat /\ FirstLimit \in Limits
  /\ MaxClock \in Nat /\ SizeMod \in Nat /\ MaxClock < SizeMod
  /\ \A m \in Limits : m < SizeMod
  BY ThreadsAssumption, MarksAssumption, NumIsolatesAssumption, WatchLimitsAssumption,
     WatchClockAssumption DEF Isolates, IsFiniteSet, WatchProofs!IsFiniteSet

\* In particular its invariant is one of the runner.
LEMMA WatchInvariant == WatchedSpec => []WatchProofs!WatchInv
  <1>1. WatchProofs!Spec => []WatchProofs!WatchInv
    BY WatchProofs!WatchInvariant, WatchAssumptions
  <1>. QED
    BY RegistryImplementsWatchdog, SameWatchdog, <1>1, PTL DEF WatchSpec

\* What is proved of the watchdog alone is true of the runner with the registry's real
\* steps: a working slot is about the call its thread is in, no overdue call slips through
\* a scan that has looked at it, one scan judges all slots alike, and a script that began
\* before the clock was read is terminated only if it is overdue.
THEOREM WatchdogHoldsInTheRunner ==
  WatchedSpec => /\ []Watch!SlotTellsTruth /\ []Watch!ScanMissesNobody
                 /\ Watch!ScanIsConsistent /\ Watch!OldScriptsAreJudgedFairly
  <1>1. /\ WatchProofs!Spec => []WatchProofs!SlotTellsTruth
        /\ WatchProofs!Spec => []WatchProofs!ScanMissesNobody
        /\ WatchProofs!Spec => WatchProofs!ScanIsConsistent
        /\ WatchProofs!Spec => WatchProofs!OldScriptsAreJudgedFairly
    BY WatchProofs!SlotsAreTrue, WatchProofs!ScansMissNobody,
       WatchProofs!ScansAreConsistent, WatchProofs!OldScriptsAreSafe, WatchAssumptions
  <1>2. WatchProofs!SlotTellsTruth => Watch!SlotTellsTruth
    BY DEF WatchProofs!SlotTellsTruth, Watch!SlotTellsTruth
  <1>3. WatchProofs!ScanMissesNobody => Watch!ScanMissesNobody
    BY DEF WatchProofs!ScanMissesNobody, Watch!ScanMissesNobody,
           WatchProofs!Scanning, Watch!Scanning, WatchProofs!Overdue, Watch!Overdue,
           WatchProofs!TimeExecution, Watch!TimeExecution
  <1>4. UNCHANGED WatchProofs!vars => UNCHANGED Watch!vars
    BY DEF WatchProofs!vars, WatchProofs!threadVars, WatchProofs!watchVars,
           WatchProofs!destructorVars,
           Watch!vars, Watch!threadVars, Watch!watchVars, Watch!destructorVars
  <1>5. WatchProofs!ScanIsConsistent => Watch!ScanIsConsistent
    <2>1. [WatchProofs!Scanning /\ WatchProofs!Scanning' =>
             /\ maxExecutionTime' = maxExecutionTime
             /\ \A w \in Threads : timing'[w].isWorking => timing'[w] = timing[w]]_(WatchProofs!vars)
            => [Watch!Scanning /\ Watch!Scanning' =>
             /\ maxExecutionTime' = maxExecutionTime
             /\ \A w \in Threads : timing'[w].isWorking => timing'[w] = timing[w]]_(Watch!vars)
      BY <1>4 DEF WatchProofs!Scanning, Watch!Scanning
    <2>. QED
      BY <2>1, PTL DEF WatchProofs!ScanIsConsistent, Watch!ScanIsConsistent
  <1>6. WatchProofs!OldScriptsAreJudgedFairly => Watch!OldScriptsAreJudgedFairly
    <2>1. [\A w \in Threads :
             WatchProofs!InV8(w) /\ Inside[w] \notin requested /\ Inside[w] \in requested'
                 /\ started[w] < currentTime
               => clock - started[w] > maxExecutionTime]_(WatchProofs!vars)
            => [\A w \in Threads :
             Watch!InV8(w) /\ Inside[w] \notin requested /\ Inside[w] \in requested'
                 /\ started[w] < currentTime
               => clock - started[w] > maxExecutionTime]_(Watch!vars)
      BY <1>4 DEF WatchProofs!InV8, Watch!InV8
    <2>. QED
      BY <2>1, PTL DEF WatchProofs!OldScriptsAreJudgedFairly, Watch!OldScriptsAreJudgedFairly
  <1>. QED
    BY RegistryImplementsWatchdog, SameWatchdog, <1>1, <1>2, <1>3, <1>5, <1>6, PTL DEF WatchSpec

-----------------------------------------------------------------------------
\* What neither part says alone.

\* What the watchdog reads in a working slot is true of the registry's maps: the function
\* of the pair asked for is running, in the isolate it was compiled in, and no compile or
\* remove has come between.
THEOREM SlotsFollowTheRegistry == WatchedSpec => []SlotIsThePair
  <1>1. ASSUME RegistryInv, SeamInv, WatchProofs!WatchInv PROVE SlotIsThePair
    <2> SUFFICES ASSUME NEW t \in Threads, timing[t].isWorking
                 PROVE  /\ timing[t].isolate = home[pair[t]]
                        /\ answer[t] = functions[pair[t]] /\ answer[t] \in Scripts
                        /\ writer = NoThread
      BY DEF SlotIsThePair
    <2>1. /\ wpc[t] \in {"calling", "returned", "caught"} /\ timing[t].isolate = isolate[t]
      BY <1>1 DEF WatchProofs!WatchInv, WatchProofs!SlotIsCurrent, Inside
    <2>2. pc[t] \in {"call", "leave"}
      BY <1>1, <2>1 DEF SeamInv, Places, Outside, RegistryInv, TypeOK, Pcs
    <2>3. t \in sharing /\ pair[t] \in Pairs
      BY <1>1, <2>2 DEF RegistryInv, LockInv, SharersRun, SharedPcs, MapInv, Knows
    <2>4. /\ isolate[t] = convs[pair[t][1]]
          /\ answer[t] = functions[pair[t]] /\ answer[t] \in Scripts
      <3>1. CASE wpc[t] = "calling"
        <4>1. pc[t] = "call"
          BY <1>1, <2>2, <3>1 DEF SeamInv, Places
        <4>. QED
          BY <1>1, <2>3, <4>1 DEF RegistryInv, TypeOK, MapInv, Knows
      <3>2. CASE wpc[t] \in {"returned", "caught"}
        BY <1>1, <3>2 DEF SeamInv, CalledStays
      <3>. QED
        BY <2>1, <3>1, <3>2
    <2>. QED
      BY <1>1, <2>1, <2>3, <2>4 DEF RegistryInv, LockInv, OneKind, MapInv, FunctionsAtHome
  <1>. QED
    BY SeamInvariant, WatchInvariant, <1>1, PTL

\* Once the isolates are disposed of the watchdog has ended and the maps are empty.
Disposed == dpc = "disposed" => tpc = "exited" /\ \A p \in Pairs : functions[p] = Absent

\* Nothing brings the watchdog or a function back.
LEMMA DisposedStays ==
  RegistryInv /\ SeamInv /\ Disposed /\ [WatchedNext]_watchedVars => Disposed'
  <1> SUFFICES ASSUME RegistryInv, SeamInv, Disposed, [WatchedNext]_watchedVars,
                      dpc' = "disposed"
               PROVE  tpc' = "exited" /\ \A p \in Pairs : functions'[p] = Absent
    BY DEF Disposed
  <1>1. CASE Dispose
    BY <1>1 DEF Dispose, CleanData, JoinWatch, Watch!JoinWatch, Watch!watchVars
  <1>2. CASE dpc = "disposed" /\ ~ Dispose
    <2>1. ASSUME NEW t \in Threads, NEW e \in BOOLEAN, ThreadStep(t) \/ Ask(t) \/ AskCheck(t, e)
          PROVE  UNCHANGED <<vars, tpc>>
      <3>1. pc[t] = "idle" /\ wpc[t] = "idle"
        BY <1>2 DEF SeamInv, NobodyAtTheEnd, Alive, Places, Outside
      <3>. QED
        BY <1>2, <2>1, <3>1
           DEF Ask, AskCheck, Alive, ThreadStep, RunOutside, LockShared, Find, NotFound, Goto,
               WatchedEnter, Enter, WatchedNotCalled, NotFunction, BadInput, WatchedCall, Call,
               WatchedReturn, EndCall, SlotStep, Watch!ClearWorking, Watch!Goto, WatchedLeave, Leave,
               WatchedBeginCompile, BeginCompile, WatchedEndCompile, EndCompile, WatchedRemove, Remove,
               WatchedEndCheck, EndCheck
    <2>2. CASE ThreadsStay /\ GuardStep
      <3>1. tpc' = tpc
        BY <1>2, <2>2 DEF Disposed, GuardStep, Watch!TimeCheckerFunc, Watch!TestWatch,
              Watch!LockTiming, Watch!Judge, Watch!TestInUse, Watch!Terminate, Watch!EndScan, Watch!Wake,
              Watch!WatchGoto, Watch!Tick, Watch!SetMaxExecutionTime, Watch!watchVars
      <3>. QED
        BY <1>2, <2>2, <3>1 DEF Disposed, ThreadsStay, vars, mapVars
    <2>3. CASE StopWatch
      BY <1>2, <2>3 DEF StopWatch, Alive
    <2>4. CASE ThreadsStay /\ Watch!Over
      BY <1>2, <2>4 DEF Disposed, ThreadsStay, vars, mapVars, Watch!Over, Watch!vars, Watch!watchVars
    <2>5. CASE UNCHANGED watchedVars
      BY <1>2, <2>5 DEF Disposed, watchedVars, guardVars, vars, mapVars
    <2>. QED
      BY <1>2, <2>1, <2>2, <2>3, <2>4, <2>5 DEF Disposed, WatchedNext, vars, mapVars
  <1>3. CASE dpc # "disposed" /\ ~ Dispose
    <2>1. UNCHANGED dpc \/ dpc' = "join"
      <3>1. ASSUME NEW t \in Threads, ThreadStep(t) PROVE UNCHANGED dpc
        BY <3>1 DEF ThreadStep, RunOutside, WatchedEnter, WatchedNotCalled, WatchedCall, WatchedReturn,
              SlotStep, WatchedLeave, WatchedBeginCompile, WatchedEndCompile, WatchedRemove,
              WatchedEndCheck, guardVars, Watch!NotCalled, Watch!Publish, Watch!Return, Watch!Unwind,
              Watch!ReadTime, Watch!ClearWorking, Watch!EndRun, Watch!EndCompile, Watch!Unlock,
              Watch!EndCheck, Watch!aroundVars, Watch!destructorVars
      <3>2. ASSUME NEW t \in Threads, NEW e \in BOOLEAN, Ask(t) \/ AskCheck(t, e)
            PROVE  UNCHANGED dpc
        BY <3>2 DEF Ask, AskCheck, guardVars
      <3>3. CASE GuardStep
        BY <3>3 DEF GuardStep, Watch!TimeCheckerFunc, Watch!TestWatch, Watch!LockTiming,
              Watch!Judge, Watch!TestInUse, Watch!Terminate, Watch!EndScan, Watch!Wake,
              Watch!Tick, Watch!SetMaxExecutionTime, Watch!scannedVars, Watch!destructorVars
      <3>4. CASE StopWatch \/ Watch!Over \/ UNCHANGED watchedVars
        BY <3>4 DEF StopWatch, Watch!Over, Watch!vars, Watch!destructorVars, watchedVars, guardVars
      <3>. QED
        BY <1>3, <3>1, <3>2, <3>3, <3>4 DEF WatchedNext
    <2>. QED
      BY <1>3, <2>1
  <1>. QED
    BY <1>1, <1>2, <1>3

\* The destructor disposes of isolates nothing uses: the watchdog has ended, no thread is
\* in one, no slot names one, no function is left.
THEOREM DisposalCorrect == WatchedSpec => []DisposalIsClean
  <1>1. WatchedInit => Disposed
    BY DEF WatchedInit, Watch!Init, Disposed
  <1>2. ASSUME RegistryInv, SeamInv, WatchProofs!WatchInv, Disposed PROVE DisposalIsClean
    <2> SUFFICES ASSUME dpc = "disposed"
                 PROVE  /\ tpc = "exited"
                        /\ \A t \in Threads : pc[t] = "idle" /\ ~ timing[t].isWorking
                        /\ \A i \in Isolates : locker[i] = NoThread
                        /\ \A p \in Pairs : functions[p] = Absent
      BY DEF DisposalIsClean
    <2>1. \A t \in Threads : pc[t] = "idle" /\ wpc[t] = "idle"
      BY <1>2 DEF SeamInv, NobodyAtTheEnd, Alive, Places, Outside
    <2>2. \A i \in Isolates : locker[i] = NoThread
      BY <1>2, <2>1 DEF RegistryInv, TypeOK, LockInv, HolderInside, InsidePcs
    <2>3. \A t \in Threads : ~ timing[t].isWorking
      BY <1>2, <2>1 DEF WatchProofs!WatchInv, WatchProofs!SlotIsCurrent
    <2>. QED
      BY <1>2, <2>1, <2>2, <2>3 DEF Disposed
  <1>. QED
    BY SeamInvariant, WatchInvariant, DisposedStays, <1>1, <1>2, PTL DEF WatchedSpec

=============================================================================
