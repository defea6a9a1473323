------------------------------- MODULE Runner -------------------------------
(***************************************************************************)
(* The V8 runner of src/v8runner.cpp as its callers have it: the threads   *)
(* of the pool call compile, remove, run and checkCode (ScriptRegistry),   *)
(* the scripts these run call require (RequireCache), and the dispatcher   *)
(* updates the cache and asks for isolates_count.  Its two reader-writer   *)
(* locks and the Lockers are taken inside one another.                     *)
(***************************************************************************)
EXTENDS RequireCache, FiniteSets

CONSTANTS Convs, Nodes, Scripts, NumIsolates,
          NoThread, NoIsolate, Absent, Empty, NoAnswer,
          Dispatcher     \* the thread that is none of the pool's

ASSUME ActorsAssumption == /\ IsFiniteSet(Threads) /\ NoThread \notin Threads
                           /\ Dispatcher \notin Threads \cup {NoThread}
\* What ScriptRegistry asks of the others.
ASSUME RegistryAssumption == /\ NumIsolates \in Nat \ {0} /\ NoIsolate \notin 0..NumIsolates
                             /\ IsFiniteSet(Convs)
                             /\ Absent # Empty /\ NoAnswer \notin Scripts \cup {Absent, Empty}
                             /\ Scripts \cap {Absent, Empty} = {}

VARIABLES convs, functions, home, nextIsolate, sharing, writer, locker, pc, pair, isolate, answer

Registry == INSTANCE ScriptRegistry

registryVars == <<convs, functions, home, nextIsolate, sharing, writer, locker, pc, pair, isolate, answer>>
runnerVars == <<registryVars, cacheVars>>

Init == Registry!Init /\ CacheInit

\* The threads that have a script running, whose top level or function may call
\* require.
InScript(t) == pc[t] \in {"define", "call", "check"}

\* A script gets on only when the files it requires are through.
ThreadStep(t) == \/ Registry!Step(t) /\ EndScript(t)
                 \/ (Enter(t) \/ NotFound(t) \/ Leave(t)) /\ UNCHANGED registryVars

Call(t) == Registry!Calls(t) /\ UNCHANGED cacheVars

CallRequire(t) == /\ InScript(t)
                  /\ \E n \in Names : Require(t, n)
                  /\ UNCHANGED registryVars

-----------------------------------------------------------------------------
\* The dispatcher, which does one thing after the other.

AskCount == /\ upc = "idle" /\ upc' = "count"
            /\ UNCHANGED <<registryVars, disk, cache, wants, left, inside, update>>

\* Mutant: isolates_count takes the unique side.
NobodyCounts == writer = NoThread /\ sharing = {}

\* isolates_count takes the shared side of _compileMutex, and only reads.
MayCount == writer = NoThread

Count == /\ upc = "count" /\ upc' = "idle"
         /\ MayCount
         /\ UNCHANGED <<registryVars, disk, cache, wants, left, inside, update>>

DispatcherStep == Count \/ ((LockCache \/ Store) /\ UNCHANGED registryVars)

-----------------------------------------------------------------------------
Next == \/ \E t \in Threads : ThreadStep(t) \/ Call(t) \/ CallRequire(t)
        \/ DispatcherStep \/ AskCount
        \/ \E n \in Names : ReadUpdate(n) /\ UNCHANGED registryVars
        \/ \E f \in Files : EditFile(f) /\ UNCHANGED registryVars

\* Threads are scheduled, scripts end (Watchdog says when that is so), and a lock
\* that keeps becoming free is had in the end.  Nobody is obliged to call.
Fairness == SF_runnerVars(DispatcherStep) /\ \A t \in Threads : SF_runnerVars(ThreadStep(t))

Spec == Init /\ [][Next]_runnerVars
FairSpec == Spec /\ Fairness

-----------------------------------------------------------------------------
\* Who waits for whom: whoever has what one is about to take.

Actors == Threads \cup {Dispatcher}

\* The isolate a compile or a remove will want the Locker of, once it has _compileMutex.
Wanted(t) == IF pc[t] = "compile" THEN Registry!IsolateFor(pair[t][1]) ELSE convs[pair[t][1]]

ThreadWaitsFor(t, a) ==
  \/ pc[t] \in {"compile", "remove"} /\ a \in sharing \cup {writer}
  \/ pc[t] \in {"compile", "remove"} /\ Wanted(t) # NoIsolate /\ locker[Wanted(t)] = a
  \/ pc[t] = "run" /\ a = writer
  \/ pc[t] = "enter" /\ locker[isolate[t]] = a
  \/ wants[t] # NoName /\ ~ Shareable /\ a = Dispatcher

DispatcherWaitsFor(t) == \/ upc = "count" /\ t = writer
                         \/ upc = "lock" /\ t \in Threads /\ inside[t] # <<>>

WaitsFor(a, b) == IF a = Dispatcher THEN DispatcherWaitsFor(b) ELSE ThreadWaitsFor(a, b)

-----------------------------------------------------------------------------
\* Properties.

\* The locks are taken inside one another in four ways: a Locker inside either side
\* of _compileMutex, the shared side of _requireCacheMutex inside both, and inside
\* itself; but no actors ever wait for one another in a circle, so whatever the
\* interleaving somebody gets on.
NobodyWaitsInACircle ==
  \A S \in (SUBSET Actors) \ {{}} : \E a \in S : \A b \in S : ~ WaitsFor(a, b)

\* Nothing else holds a call up: who is in one and waits for nobody can go on.
WhoWaitsForNobodyGoesOn ==
  /\ \A t \in Threads :
       pc[t] # "idle" /\ (\A a \in Actors : ~ WaitsFor(t, a)) => ENABLED ThreadStep(t)
  /\ upc # "idle" /\ (\A a \in Actors : ~ WaitsFor(Dispatcher, a)) => ENABLED DispatcherStep

\* A file that is being run is what the cache holds under its name, and stays so
\* until it ends: libContent is a reference into the map (v8runner.cpp:611).
RequiredFilesStayPut ==
  \A t \in Threads : \A i \in 1..Len(inside[t]) :
    inside[t][i].content = cache[inside[t][i].name]

\* A name once in the cache stays there, and what it holds is never replaced by an
\* older version of the same file, though an update reads the file before it has
\* the lock and may fail.
CacheOnlyGetsNewer ==
  [][\A n \in Names :
       cache[n] # NoFile =>
         /\ cache'[n] # NoFile
         /\ cache'[n].file = cache[n].file => cache'[n].version >= cache[n].version]_runnerVars

\* A run comes back, required files that require others included, whatever the
\* dispatcher updates meanwhile and however many compiles and runs come between.
RunsEnd == \A t \in Threads : []<>(~ Registry!Running(t))

\* A compile or a remove is only held up while runs overlap without a gap.
WritesEnd == []<>(sharing = {})
               => \A t \in Threads : []<>(pc[t] \notin {"compile", "define", "remove"})

\* The dispatcher gets back to its messages: isolates_count and an update come to
\* an end unless required files overlap without a gap.
DispatcherReturns == []<>Exclusive => []<>(upc = "idle")
=============================================================================
