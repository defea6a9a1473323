--------------------------- MODULE WatchdogProofs ---------------------------
(***************************************************************************)
(* What is proved of Watchdog, for any number of threads and isolates, any *)
(* limits and any clock that does not go past the size of std::size_t.     *)
(***************************************************************************)
EXTENDS Watchdog, TLAPS

USE ThreadsAssumption, IsolatesAssumption, LimitsAssumption, ClockAssumption

-----------------------------------------------------------------------------
\* The places where a thread has the Locker of its isolate.
InsidePcs == ThreadPcs \ {"idle", "checking"}

InsiderHolds ==
  \A w \in Threads : /\ wpc[w] \in InsidePcs => iso[w] \in Isolates /\ locker[iso[w]] = w
                     /\ wpc[w] \notin InsidePcs => iso[w] = NoIsolate

\* A working slot is about the call its thread is in.
SlotIsCurrent ==
  \A w \in Threads :
    timing[w].isWorking =>
      /\ wpc[w] \in {"calling", "returned", "caught"}
      /\ timing[w].isolate = iso[w] /\ timing[w].started = started[w]

\* Who can be hit between the judgement of a slot and the termination: the call that
\* was judged, if it is still on, or a compile that began after the clock was read.
Victims ==
  tpc \in {"kill", "terminate"} =>
    /\ judged \in Threads
    /\ Target \in Isolates
    /\ TimeExecution(judged) > maxExecutionTime
    /\ \A w \in Threads :
         InV8(w) /\ iso[w] = Target =>
           \/ w = judged /\ started[w] = timing[judged].started
           \/ started[w] >= currentTime

\* A slot is only kept in hand between its judgement and the termination.
JudgedInScan == tpc \notin {"kill", "terminate"} => judged = NoOne

WatchInv == /\ TypeOK
            /\ InsiderHolds
            /\ SlotIsCurrent
            /\ JudgedInScan
            /\ ScanMissesNobody
            /\ currentTime <= clock
            /\ Victims

-----------------------------------------------------------------------------
\* The invariant holds before the first call.
LEMMA WatchInitially == Init => WatchInv
  <1> SUFFICES ASSUME Init PROVE WatchInv
    OBVIOUS
  <1>1. TypeOK
    BY DEF Init, TypeOK, ThreadPcs, NoScript
  <1>2. InsiderHolds /\ SlotIsCurrent /\ JudgedInScan /\ Victims /\ currentTime <= clock
    BY DEF Init, InsiderHolds, InsidePcs, SlotIsCurrent, NoScript, JudgedInScan, Victims
  <1>3. ScanMissesNobody
    BY DEF Init, ScanMissesNobody, Scanning
  <1>. QED
    BY <1>1, <1>2, <1>3 DEF WatchInv

Slots == [isWorking : BOOLEAN, isolate : Isolates \cup {NoIsolate}, started : 0..MaxClock]

\* Clearing a slot leaves a slot.
LEMMA ClearedIsSlots ==
  ASSUME timing \in [Threads -> Slots], NEW w \in Threads
  PROVE  Cleared(w) \in [Threads -> Slots]
  BY DEF Cleared, Slots

\* Whatever a thread does, the others' calls that were looked at stay asked to end, as
\* long as it drops no request of theirs and no call begins during a scan.
LEMMA StillAsked ==
  ASSUME WatchInv, NEW w \in Threads,
         UNCHANGED <<maxExecutionTime, tpc, currentTime, todo, judged>>,
         wpc'[w] = "calling" => ~ Scanning,
         \A v \in Threads \ {w} :
           /\ wpc'[v] = wpc[v] /\ timing'[v] = timing[v] /\ iso'[v] = iso[v]
           /\ wpc[v] = "calling" /\ iso[v] \in requested => iso[v] \in requested'
  PROVE  ScanMissesNobody'
  BY DEF WatchInv, ScanMissesNobody, Scanning, Overdue, TimeExecution

\* The steps of the threads that neither take nor release a Locker.
LEMMA InsideStep ==
  ASSUME WatchInv, NEW w \in Threads,
         NotCalled(w) \/ ReadTime(w) \/ Publish(w) \/ Return(w) \/ Unwind(w) \/ ClearWorking(w)
  PROVE  WatchInv'
  <1> USE DEF WatchInv, TypeOK, ThreadPcs, InsidePcs, InsiderHolds, JudgedInScan, Target,
              Goto, aroundVars, watchVars, destructorVars
  <1>0. CASE NotCalled(w)
    <2>1. ScanMissesNobody'
      BY <1>0, StillAsked DEF NotCalled
    <2>. QED
      BY <1>0, <2>1 DEF NotCalled, SlotIsCurrent, Victims, InV8, TimeExecution
  <1>1. CASE ReadTime(w)
    <2>1. ScanMissesNobody'
      BY <1>1, StillAsked DEF ReadTime
    <2>. QED
      BY <1>1, <2>1 DEF ReadTime, Now, SlotIsCurrent, Victims, InV8, TimeExecution
  <1>2. CASE Publish(w)
    <2>1. ScanMissesNobody'
      BY <1>2, StillAsked DEF Publish, TimingFree
    <2>. QED
      BY <1>2, <2>1 DEF Publish, TimingFree, Scanning, SlotIsCurrent, Victims
  <1>3. CASE Return(w)
    <2>1. ScanMissesNobody'
      BY <1>3, StillAsked DEF Return
    <2>. QED
      BY <1>3, <2>1 DEF Return, SlotIsCurrent, Victims, InV8, TimeExecution
  <1>4. CASE Unwind(w)
    <2>1. ScanMissesNobody'
      BY <1>4, StillAsked DEF Unwind, Terminated
    <2>. QED
      BY <1>4, <2>1 DEF Unwind, Terminated, SlotIsCurrent, Victims, InV8, TimeExecution
  <1>5. CASE ClearWorking(w)
    <2>1. TypeOK'
      <3>1. timing' \in [Threads -> [isWorking : BOOLEAN, isolate : Isolates \cup {NoIsolate},
                                   started : 0..MaxClock]]
        BY <1>5, ClearedIsSlots DEF ClearWorking, Slots
      <3>2. wpc' \in [Threads -> ThreadPcs]
        BY <1>5 DEF ClearWorking
      <3>3. endless' \in [Threads -> BOOLEAN]
        BY <1>5 DEF ClearWorking
      <3>. QED
        BY <1>5, <3>1, <3>2, <3>3 DEF ClearWorking
    <2>2. InsiderHolds' /\ SlotIsCurrent'
      BY <1>5 DEF ClearWorking, Cleared, SlotIsCurrent
    <2>3. ScanMissesNobody'
      <3>1. /\ UNCHANGED <<maxExecutionTime, tpc, currentTime, todo, judged, requested, iso>>
            /\ wpc'[w] # "calling"
            /\ \A v \in Threads \ {w} : wpc'[v] = wpc[v] /\ timing'[v] = timing[v]
        BY <1>5 DEF ClearWorking, Cleared
      <3>. QED
        BY <3>1, StillAsked
    <2>4. Victims'
      BY <1>5 DEF ClearWorking, Cleared, SlotIsCurrent, Victims, InV8, TimeExecution
    <2>5. JudgedInScan' /\ currentTime' <= clock'
      BY <1>5 DEF ClearWorking
    <2>. QED
      BY <2>1, <2>2, <2>3, <2>4, <2>5
  <1>. QED
    BY <1>0, <1>1, <1>2, <1>3, <1>4, <1>5

\* The steps that take a Locker; nobody else is in the isolate then, so a request they
\* drop is no longer anybody's.
LEMMA EnterStep ==
  ASSUME WatchInv, NEW w \in Threads, NEW i \in Isolates, NEW e \in BOOLEAN,
         BeginRun(w, i, e) \/ BeginCompile(w, i, e)
  PROVE  WatchInv'
  <1> USE DEF WatchInv, TypeOK, ThreadPcs, InsidePcs, InsiderHolds, JudgedInScan, Target,
              Goto, Idle, Lock, aroundVars, watchVars, destructorVars
  <1>1. CASE BeginRun(w, i, e)
    <2>1. TypeOK' /\ InsiderHolds' /\ SlotIsCurrent'
      BY <1>1 DEF BeginRun, SlotIsCurrent
    <2>2. ScanMissesNobody'
      BY <1>1, StillAsked DEF BeginRun
    <2>3. Victims' /\ JudgedInScan' /\ currentTime' <= clock'
      BY <1>1 DEF BeginRun, SlotIsCurrent, Victims, InV8, TimeExecution
    <2>. QED
      BY <2>1, <2>2, <2>3
  <1>2. CASE BeginCompile(w, i, e)
    <2>1. TypeOK'
      BY <1>2 DEF BeginCompile
    <2>2. InsiderHolds' /\ SlotIsCurrent'
      BY <1>2 DEF BeginCompile, SlotIsCurrent
    <2>3. ScanMissesNobody'
      BY <1>2, StillAsked DEF BeginCompile
    <2>4. Victims' /\ JudgedInScan' /\ currentTime' <= clock'
      BY <1>2 DEF BeginCompile, SlotIsCurrent, Victims, InV8, TimeExecution
    <2>. QED
      BY <2>1, <2>2, <2>3, <2>4
  <1>. QED
    BY <1>1, <1>2

\* The steps that release one, checkCode and remove.
LEMMA LeaveStep ==
  ASSUME WatchInv, NEW w \in Threads,
         \/ EndRun(w) \/ EndCompile(w) \/ EndCheck(w) \/ \E e \in BOOLEAN : BeginCheck(w, e)
         \/ \E i \in Isolates \cup {NoIsolate} : Remove(w, i)
  PROVE  WatchInv'
  <1> USE DEF WatchInv, TypeOK, ThreadPcs, InsidePcs, InsiderHolds, JudgedInScan, Target,
              Goto, Idle, aroundVars, watchVars, destructorVars
  <1>1. CASE EndRun(w) \/ EndCompile(w)
    <2>0. /\ Unlock(w) /\ wpc' = [wpc EXCEPT ![w] = "idle"] /\ iso[w] \in Isolates
          /\ ~ timing[w].isWorking
          /\ requested' = requested \/ requested' = requested \ {iso[w]}
      BY <1>1 DEF EndRun, EndCompile, Ends, Terminated, SlotIsCurrent
    <2>1. TypeOK'
      BY <2>0 DEF Unlock
    <2>2. InsiderHolds' /\ SlotIsCurrent'
      BY <2>0 DEF Unlock, SlotIsCurrent
    <2>3. ScanMissesNobody'
      BY <2>0, StillAsked DEF Unlock
    <2>4. Victims' /\ JudgedInScan' /\ currentTime' <= clock'
      BY <2>0 DEF Unlock, SlotIsCurrent, Victims, InV8, TimeExecution
    <2>. QED
      BY <2>1, <2>2, <2>3, <2>4
  <1>2. CASE EndCheck(w)
    <2>1. ScanMissesNobody'
      BY <1>2, StillAsked DEF EndCheck
    <2>. QED
      BY <1>2, <2>1 DEF EndCheck, SlotIsCurrent, Victims, InV8, TimeExecution
  <1>3. ASSUME NEW e \in BOOLEAN, BeginCheck(w, e) PROVE WatchInv'
    <2>1. ScanMissesNobody'
      BY <1>3, StillAsked DEF BeginCheck
    <2>. QED
      BY <1>3, <2>1 DEF BeginCheck, SlotIsCurrent, Victims, InV8, TimeExecution
  <1>4. ASSUME NEW i \in Isolates \cup {NoIsolate}, Remove(w, i) PROVE WatchInv'
    <2>1. UNCHANGED <<aroundVars, threadVars>> /\ requested' \subseteq requested
      BY <1>4 DEF Remove
    <2>2. \A v \in Threads : wpc[v] # "calling"
      BY <1>4 DEF Remove
    <2>3. ScanMissesNobody'
      BY <2>1, <2>2 DEF ScanMissesNobody, threadVars
    <2>. QED
      BY <2>1, <2>3 DEF SlotIsCurrent, Victims, InV8, TimeExecution, threadVars
  <1>. QED
    BY <1>1, <1>2, <1>3, <1>4

\* The steps of the watchdog, the clock, the destructor and setMaxExecutionTime.
LEMMA ScanStep ==
  ASSUME WatchInv, TimeCheckerFunc \/ Tick \/ StopWatch \/ JoinWatch \/ Over
                     \/ \E m \in Limits : SetMaxExecutionTime(m)
  PROVE  WatchInv'
  <1> USE DEF WatchInv, TypeOK, InsiderHolds, SlotIsCurrent, JudgedInScan, Target, WatchGoto,
              scannedVars, threadVars, watchVars, destructorVars
  <1>1. CASE TestWatch
    BY <1>1 DEF TestWatch, Victims, ScanMissesNobody, Scanning
  <1>2. CASE LockTiming
    BY <1>2 DEF LockTiming, Victims, ScanMissesNobody, Scanning
  <1>3. ASSUME NEW w \in Threads, Judge(w) PROVE WatchInv'
    <2>0. ScanMissesNobody'
      <3>1. Scanning /\ todo' = todo \ {w} /\ (Overdue(w) => judged' = w) /\ judged = NoOne
        BY <1>3 DEF Judge, Scanning
      <3>2. UNCHANGED <<wpc, requested, iso>> /\ \A v \in Threads : Overdue(v)' = Overdue(v)
        BY <1>3 DEF Judge, Overdue, TimeExecution
      <3>. QED
        BY <3>1, <3>2 DEF ScanMissesNobody
    <2>1. CASE Overdue(w)
      <3>1. Victims'
        BY <1>3, <2>1 DEF Judge, Overdue, Victims, InV8, InsidePcs, ThreadPcs, TimeExecution
      <3>. QED
        BY <1>3, <2>0, <2>1, <3>1 DEF Judge
    <2>2. CASE ~ Overdue(w)
      BY <1>3, <2>0, <2>2 DEF Judge, Victims
    <2>. QED
      BY <2>1, <2>2
  <1>4. CASE TestInUse
    <2>1. CASE InUse
      BY <1>4, <2>1 DEF TestInUse, Victims, InV8, TimeExecution, ScanMissesNobody, Scanning, Overdue
    <2>2. CASE ~ InUse
      <3>1. ~ (wpc[judged] = "calling" /\ Overdue(judged))
        BY <1>4, <2>2 DEF TestInUse, Victims, InUse, Overdue, InsidePcs, ThreadPcs
      <3>2. ScanMissesNobody'
        BY <1>4, <2>2, <3>1 DEF TestInUse, Scanning, ScanMissesNobody, Overdue, TimeExecution
      <3>. QED
        BY <1>4, <2>2, <3>2 DEF TestInUse, Victims
    <2>. QED
      BY <2>1, <2>2
  <1>5. CASE Terminate
    <2>1. wpc[judged] = "calling" /\ Overdue(judged) => iso[judged] \in requested'
      BY <1>5 DEF Terminate, Victims, Overdue
    <2>2. ScanMissesNobody'
      BY <1>5, <2>1 DEF Terminate, Scanning, ScanMissesNobody, Overdue, TimeExecution
    <2>. QED
      BY <1>5, <2>2 DEF Terminate, Victims
  <1>6. CASE EndScan
    BY <1>6 DEF EndScan, Victims, ScanMissesNobody, Scanning
  <1>7. CASE Wake
    BY <1>7 DEF Wake, Victims, ScanMissesNobody, Scanning
  <1>8. CASE Tick \/ StopWatch \/ JoinWatch \/ Over
    <2>1. UNCHANGED <<maxExecutionTime, threadVars, requested, watchVars>>
      BY <1>8 DEF Tick, StopWatch, JoinWatch, Over, vars
    <2>2. TypeOK' /\ currentTime' <= clock'
      <3>1. clock' \in 0..MaxClock /\ currentTime' <= clock'
        BY <1>8 DEF Tick, StopWatch, JoinWatch, Over, vars
      <3>2. watch' \in BOOLEAN /\ dpc' \in {"alive", "join", "disposed"}
        BY <1>8 DEF Tick, StopWatch, WatchAtEnd, JoinWatch, Over, vars
      <3>. QED
        BY <2>1, <3>1, <3>2
    <2>3. InsiderHolds' /\ SlotIsCurrent' /\ JudgedInScan' /\ Victims'
      BY <2>1 DEF Victims, InV8, TimeExecution
    <2>4. ScanMissesNobody'
      BY <2>1 DEF ScanMissesNobody, Scanning, Overdue, TimeExecution
    <2>. QED
      BY <2>2, <2>3, <2>4
  <1>9. ASSUME NEW m \in Limits, SetMaxExecutionTime(m) PROVE WatchInv'
    BY <1>9 DEF SetMaxExecutionTime, TimingFree, Scanning, Victims, ScanMissesNobody
  <1>. QED
    BY <1>1, <1>2, <1>3, <1>4, <1>5, <1>6, <1>7, <1>8, <1>9 DEF TimeCheckerFunc

-----------------------------------------------------------------------------
\* The invariants.

\* Who holds which isolate, what the slots say, and whom a judgement can still hit.
THEOREM WatchInvariant == Spec => []WatchInv
  <1>1. ASSUME WatchInv, [Next]_vars PROVE WatchInv'
    <2>1. CASE UNCHANGED vars
      BY <1>1, <2>1 DEF WatchInv, TypeOK, InsiderHolds, SlotIsCurrent, JudgedInScan, Target,
                        ScanMissesNobody, Scanning, Overdue, Victims, TimeExecution, InV8,
                        vars, threadVars, watchVars, destructorVars
    <2>2. CASE Next
      <3>1. ASSUME NEW w \in Threads, ThreadStep(w) \/ Publish(w) PROVE WatchInv'
        BY <1>1, <3>1, InsideStep, LeaveStep DEF ThreadStep
      <3>2. ASSUME NEW w \in Threads,
                   \/ \E e \in BOOLEAN : BeginCheck(w, e)
                   \/ \E i \in Isolates \cup {NoIsolate} : Remove(w, i)
            PROVE  WatchInv'
        BY <1>1, <3>2, LeaveStep
      <3>3. ASSUME NEW w \in Threads, NEW e \in BOOLEAN, NEW i \in Isolates,
                   BeginRun(w, i, e) \/ BeginCompile(w, i, e)
            PROVE  WatchInv'
        BY <1>1, <3>3, EnterStep
      <3>4. CASE TimeCheckerFunc \/ Tick \/ StopWatch \/ JoinWatch \/ Over
                   \/ \E m \in Limits : SetMaxExecutionTime(m)
        BY <1>1, <3>4, ScanStep
      <3>. QED
        BY <2>2, <3>1, <3>2, <3>3, <3>4 DEF Next
    <2>. QED
      BY <1>1, <2>1, <2>2
  <1>. QED
    BY WatchInitially, <1>1, PTL DEF Spec

\* The types; the clock readings stay in the range of the clock.
THEOREM TypeCorrect == Spec => []TypeOK
  <1>1. WatchInv => TypeOK
    BY DEF WatchInv
  <1>. QED
    BY WatchInvariant, <1>1, PTL

\* A slot that is working is about the call its thread is in, and that thread has the
\* isolate to itself.
THEOREM SlotsAreTrue == Spec => []SlotTellsTruth
  <1>1. WatchInv => SlotTellsTruth
    BY DEF WatchInv, InsiderHolds, InsidePcs, ThreadPcs, SlotIsCurrent, SlotTellsTruth
  <1>. QED
    BY WatchInvariant, <1>1, PTL

\* No overdue call slips through a scan that has looked at it, wherever the other threads
\* go between the watchdog's steps.
THEOREM ScansMissNobody == Spec => []ScanMissesNobody
  <1>1. WatchInv => ScanMissesNobody
    BY DEF WatchInv
  <1>. QED
    BY WatchInvariant, <1>1, PTL

-----------------------------------------------------------------------------
\* The action properties.

\* Slots only stop working during a scan, and the limit stays.
LEMMA ScanKeepsSlots ==
  ASSUME WatchInv, Next, Scanning, Scanning'
  PROVE  /\ maxExecutionTime' = maxExecutionTime
         /\ \A w \in Threads : timing'[w].isWorking => timing'[w] = timing[w]
  <1> USE DEF WatchInv, TypeOK, aroundVars, threadVars, scannedVars, destructorVars
  <1>1. ASSUME NEW w \in Threads, ClearWorking(w)
        PROVE  /\ maxExecutionTime' = maxExecutionTime
               /\ \A v \in Threads : timing'[v].isWorking => timing'[v] = timing[v]
    BY <1>1 DEF ClearWorking, Cleared
  <1>2. ASSUME NEW w \in Threads, NotCalled(w) \/ ReadTime(w) \/ Return(w) \/ Unwind(w) \/ EndRun(w)
                                    \/ EndCompile(w) \/ EndCheck(w)
        PROVE  UNCHANGED <<maxExecutionTime, timing>>
    BY <1>2 DEF NotCalled, ReadTime, Return, Unwind, EndRun, EndCompile, Unlock, EndCheck
  <1>3. ASSUME NEW w \in Threads, NEW e \in BOOLEAN,
               BeginCheck(w, e) \/ \E i \in Isolates : BeginRun(w, i, e) \/ BeginCompile(w, i, e)
        PROVE  UNCHANGED <<maxExecutionTime, timing>>
    BY <1>3 DEF BeginRun, BeginCompile, BeginCheck
  <1>4. ASSUME NEW w \in Threads, \E i \in Isolates \cup {NoIsolate} : Remove(w, i)
        PROVE  UNCHANGED <<maxExecutionTime, timing>>
    BY <1>4 DEF Remove
  <1>5. ASSUME NEW w \in Threads, Publish(w) PROVE FALSE
    BY <1>5 DEF Publish, TimingFree
  <1>6. ASSUME NEW m \in Limits, SetMaxExecutionTime(m) PROVE FALSE
    BY <1>6 DEF SetMaxExecutionTime, TimingFree
  <1>7. CASE TimeCheckerFunc \/ Tick \/ StopWatch \/ JoinWatch \/ Over
    BY <1>7 DEF TimeCheckerFunc, TestWatch, LockTiming, Judge, TestInUse, Terminate, EndScan, Wake,
                Tick, StopWatch, JoinWatch, Over, vars
  <1>. QED
    BY <1>1, <1>2, <1>3, <1>4, <1>5, <1>6, <1>7 DEF Next, ThreadStep

\* One scan judges all slots against one limit, and none of them gets a new script
\* while it lasts.
THEOREM ScansAreConsistent == Spec => ScanIsConsistent
  <1>1. WatchInv /\ [Next]_vars =>
          [Scanning /\ Scanning' =>
             /\ maxExecutionTime' = maxExecutionTime
             /\ \A w \in Threads : timing'[w].isWorking => timing'[w] = timing[w]]_vars
    BY ScanKeepsSlots
  <1>. QED
    BY WatchInvariant, <1>1, PTL DEF Spec, ScanIsConsistent

\* Only Terminate asks V8 for anything.
LEMMA OnlyTerminateRequests ==
  ASSUME WatchInv, Next, ~ Terminate
  PROVE  requested' \subseteq requested
  <1> USE DEF WatchInv, TypeOK, aroundVars, scannedVars
  <1>1. ASSUME NEW w \in Threads, ThreadStep(w) \/ Publish(w) PROVE requested' \subseteq requested
    BY <1>1 DEF ThreadStep, NotCalled, ReadTime, Return, Unwind, ClearWorking, EndRun, EndCompile, Unlock,
                Ends, Terminated, EndCheck, Publish
  <1>2. ASSUME NEW w \in Threads, NEW e \in BOOLEAN,
               \/ BeginCheck(w, e) \/ \E i \in Isolates : BeginRun(w, i, e) \/ BeginCompile(w, i, e)
               \/ \E i \in Isolates \cup {NoIsolate} : Remove(w, i)
        PROVE  requested' \subseteq requested
    BY <1>2 DEF BeginRun, BeginCompile, Lock, BeginCheck, Remove
  <1>3. CASE TimeCheckerFunc \/ Tick \/ StopWatch \/ JoinWatch \/ Over
    BY <1>3 DEF TimeCheckerFunc, TestWatch, LockTiming, Judge, TestInUse, EndScan, Wake,
                Tick, StopWatch, JoinWatch, Over, vars
  <1>4. ASSUME NEW m \in Limits, SetMaxExecutionTime(m) PROVE requested' \subseteq requested
    BY <1>4 DEF SetMaxExecutionTime
  <1>. QED
    BY <1>1, <1>2, <1>3, <1>4 DEF Next

\* The age of a slot that is older than the reading does not wrap around.
LEMMA NoWrap ==
  ASSUME NEW a \in 0..MaxClock, NEW b \in 0..MaxClock, b <= a
  PROVE  (a - b) % SizeMod = a - b
  OBVIOUS

\* A script that began before the clock was read is only terminated when it is overdue.
LEMMA FairTermination ==
  ASSUME WatchInv, Terminate, NEW w \in Threads,
         InV8(w), iso[w] \notin requested, iso[w] \in requested', started[w] < currentTime
  PROVE  clock - started[w] > maxExecutionTime
  <1>1. tpc = "terminate" /\ iso[w] = Target
    BY DEF Terminate, WatchGoto
  <1>2. /\ w = judged /\ started[w] = timing[judged].started
        /\ TimeExecution(judged) > maxExecutionTime
    BY <1>1 DEF WatchInv, TypeOK, Victims
  <1>3. currentTime - started[w] > maxExecutionTime
    <2>1. started[w] \in 0..MaxClock /\ currentTime \in 0..MaxClock
      BY DEF WatchInv, TypeOK
    <2>2. (currentTime - started[w]) % SizeMod = currentTime - started[w]
      BY <2>1, NoWrap
    <2>. QED
      BY <1>2, <2>2 DEF TimeExecution
  <1>. QED
    BY <1>3 DEF WatchInv, TypeOK

\* A script that began before the clock was read for the scan is terminated only if it
\* has run for longer than the limit, whichever slot was judged.
THEOREM OldScriptsAreSafe == Spec => OldScriptsAreJudgedFairly
  <1>1. WatchInv /\ [Next]_vars =>
          [\A w \in Threads :
             InV8(w) /\ iso[w] \notin requested /\ iso[w] \in requested' /\ started[w] < currentTime
               => clock - started[w] > maxExecutionTime]_vars
    BY OnlyTerminateRequests, FairTermination
  <1>. QED
    BY WatchInvariant, <1>1, PTL DEF Spec, OldScriptsAreJudgedFairly
=============================================================================
