---------------------------- MODULE RunnerProofs ----------------------------
(***************************************************************************)
(* What is proved of the runner as a whole and of the require cache in it, *)
(* for any number of threads and files, any depth of nested requires and   *)
(* any number of writes to the disk.  Of the registry it uses, everything  *)
(* ScriptRegistryProofs shows holds in here too.                           *)
(***************************************************************************)
EXTENDS Runner, SequenceTheorems, TLAPS

RegistryProofs == INSTANCE ScriptRegistryProofs

USE NoFileAssumption, BoundsAssumption

-----------------------------------------------------------------------------
Contents == [file : Files, version : 1..MaxVersion]
Frames == [name : Names, content : Contents]

CacheTyping ==
  /\ disk \in [Files -> [there : BOOLEAN, version : 1..MaxVersion]]
  /\ cache \in [Names -> Contents \cup {NoFile}]
  /\ inside \in [Threads -> Seq(Frames)]

\* The dispatcher has the lock where it stores, and something to store.
UpdateKnows ==
  /\ upc = "store" => \A t \in Threads : inside[t] = <<>>
  /\ upc \in {"lock", "store"} => update \in Frames

\* The disk is never behind: not behind the cache, not behind what the dispatcher has
\* read, and the cache is not ahead of that.
DiskLeads ==
  /\ \A n \in Names : cache[n] # NoFile => cache[n].version <= disk[cache[n].file].version
  /\ upc \in {"lock", "store"} =>
       /\ update.content.version <= disk[update.content.file].version
       /\ \A n \in Names : cache[n] # NoFile /\ cache[n].file = update.content.file
                             => cache[n].version <= update.content.version

CacheInv == CacheTyping /\ UpdateKnows /\ DiskLeads /\ RequiredFilesStayPut

\* What was read is the file as it is on the disk, or nothing.
LEMMA ReadIsCurrent ==
  ASSUME CacheTyping, NEW n
  PROVE  \/ ReadFile(n) = NoFile
         \/ /\ n \in Files /\ ReadFile(n) \in Contents
            /\ ReadFile(n).file = n /\ ReadFile(n).version = disk[n].version
  BY DEF ReadFile, CacheTyping, Contents

-----------------------------------------------------------------------------
\* The invariant holds after loadLibs has filled the cache.
LEMMA CacheInitially == Init => CacheInv
  <1> SUFFICES ASSUME CacheInit PROVE CacheInv
    BY DEF Init
  <1>1. \A f \in Files : ReadFile(f) \in Contents \cup {NoFile}
                           /\ (ReadFile(f) # NoFile => ReadFile(f).file = f
                                                         /\ ReadFile(f).version = disk[f].version)
    BY DEF CacheInit, ReadFile, Contents
  <1>2. cache \in [Names -> {ReadFile(f) : f \in Files} \cup {NoFile}]
    BY DEF CacheInit, LoadLibs
  <1>3. CacheTyping
    BY <1>1, <1>2 DEF CacheInit, CacheTyping
  <1>4. UpdateKnows /\ RequiredFilesStayPut
    BY DEF CacheInit, UpdateKnows, RequiredFilesStayPut
  <1>5. DiskLeads
    BY <1>1, <1>2 DEF CacheInit, DiskLeads, Contents
  <1>. QED
    BY <1>3, <1>4, <1>5 DEF CacheInv

\* The steps of a script.
LEMMA RequireStep ==
  ASSUME CacheInv, NEW t \in Threads, Enter(t) \/ Leave(t)
  PROVE  CacheInv'
  <1> USE DEF CacheInv
  <1>0. UNCHANGED <<disk, cache, upc, update>>
    BY DEF Enter, Leave
  <1>1. CASE Enter(t)
    <2> DEFINE frame == [name |-> wants[t], content |-> cache[wants[t]]]
    <2>1. frame \in Frames /\ frame.content = cache[frame.name]
      BY <1>1 DEF Enter, CacheTyping, Frames
    <2>2. inside' = [inside EXCEPT ![t] = Append(@, frame)] /\ upc # "store"
      BY <1>1 DEF Enter, Shareable
    <2>. HIDE DEF frame
    <2>3. inside[t] \in Seq(Frames)
      BY DEF CacheTyping
    <2>4. Append(inside[t], frame) \in Seq(Frames)
      BY <2>1, <2>3
    <2>5. CacheTyping'
      BY <1>0, <2>2, <2>4 DEF CacheTyping
    <2>6. UpdateKnows' /\ DiskLeads'
      BY <1>0, <2>2 DEF UpdateKnows, DiskLeads
    <2>7. \A i \in 1..Len(Append(inside[t], frame)) :
            \/ i \in 1..Len(inside[t]) /\ Append(inside[t], frame)[i] = inside[t][i]
            \/ Append(inside[t], frame)[i] = frame
      BY <2>1, <2>3
    <2>8. RequiredFilesStayPut'
      BY <1>0, <2>1, <2>2, <2>7 DEF RequiredFilesStayPut, CacheTyping
    <2>. QED
      BY <2>5, <2>6, <2>8
  <1>2. CASE Leave(t)
    <2> DEFINE rest == SubSeq(inside[t], 1, Len(inside[t]) - 1)
    <2>1. inside' = [inside EXCEPT ![t] = rest] /\ inside[t] # <<>>
      BY <1>2 DEF Leave
    <2>2. inside[t] \in Seq(Frames)
      BY DEF CacheTyping
    <2>3. rest \in Seq(Frames)
      BY <2>1, <2>2, SubSeqProperties
    <2>4. \A i \in 1..Len(rest) : i \in 1..Len(inside[t]) /\ rest[i] = inside[t][i]
      BY <2>1, <2>2, SubSeqProperties
    <2>. HIDE DEF rest
    <2>5. CacheTyping'
      BY <1>0, <2>1, <2>3 DEF CacheTyping
    <2>6. UpdateKnows' /\ DiskLeads'
      BY <1>0, <2>1 DEF UpdateKnows, DiskLeads
    <2>7. RequiredFilesStayPut'
      BY <1>0, <2>1, <2>4 DEF RequiredFilesStayPut, CacheTyping
    <2>. QED
      BY <2>5, <2>6, <2>7
  <1>. QED
    BY <1>1, <1>2

\* Nothing of this is disturbed by a step that leaves the cache to itself.
LEMMA OtherStep ==
  ASSUME CacheInv, UNCHANGED <<disk, cache, inside, update>>,
         upc' = upc \/ {upc, upc'} \subseteq {"idle", "count"}
  PROVE  CacheInv'
  BY DEF CacheInv, CacheTyping, UpdateKnows, DiskLeads, RequiredFilesStayPut

\* The dispatcher's update.
LEMMA UpdateStep ==
  ASSUME CacheInv, LockCache \/ Store \/ \E n \in Names : ReadUpdate(n)
  PROVE  CacheInv'
  <1> USE DEF CacheInv
  <1>1. CASE LockCache
    BY <1>1 DEF LockCache, Exclusive, CacheTyping, UpdateKnows, DiskLeads, RequiredFilesStayPut
  <1>2. CASE Store
    <2>1. CacheTyping'
      BY <1>2 DEF Store, CacheTyping, UpdateKnows, Frames
    <2>2. UpdateKnows' /\ RequiredFilesStayPut'
      BY <1>2 DEF Store, UpdateKnows, RequiredFilesStayPut
    <2>3. DiskLeads'
      BY <1>2 DEF Store, CacheTyping, UpdateKnows, Frames, Contents, DiskLeads
    <2>. QED
      BY <2>1, <2>2, <2>3
  <1>3. ASSUME NEW n \in Names, ReadUpdate(n) PROVE CacheInv'
    <2>1. CASE ReadFile(n) = NoFile
      BY <1>3, <2>1, OtherStep DEF ReadUpdate, Failed
    <2>2. CASE ReadFile(n) # NoFile
      <3>1. /\ ReadFile(n) \in Contents
            /\ ReadFile(n).file = n /\ ReadFile(n).version = disk[n].version
        BY <2>2, ReadIsCurrent
      <3>2. upc' = "lock" /\ update' = [name |-> n, content |-> ReadFile(n)]
            /\ UNCHANGED <<disk, cache, inside>>
        BY <1>3, <2>2 DEF ReadUpdate, Failed
      <3>. HIDE DEF ReadFile
      <3>3. CacheTyping' /\ UpdateKnows' /\ RequiredFilesStayPut'
        BY <3>1, <3>2 DEF CacheTyping, UpdateKnows, Frames, RequiredFilesStayPut
      <3>4. DiskLeads'
        BY <3>1, <3>2 DEF DiskLeads, CacheTyping, Contents
      <3>. QED
        BY <3>3, <3>4
    <2>. QED
      BY <2>1, <2>2
  <1>. QED
    BY <1>1, <1>2, <1>3

\* Writing a file never makes any file older.
LEMMA EditedDisk ==
  ASSUME disk \in [Files -> [there : BOOLEAN, version : 1..MaxVersion]],
         NEW f \in Files, EditFile(f)
  PROVE  /\ disk' \in [Files -> [there : BOOLEAN, version : 1..MaxVersion]]
         /\ \A g \in Files : disk'[g].version >= disk[g].version
  <1>1. CASE disk' = [disk EXCEPT ![f].there = ~ @]
    <2> DEFINE flipped == [disk[f] EXCEPT !.there = ~ @]
    <2>1. flipped \in [there : BOOLEAN, version : 1..MaxVersion]
      <3>1. disk[f] \in [there : BOOLEAN, version : 1..MaxVersion]
        OBVIOUS
      <3>. QED
        BY <3>1, Zenon
    <2>2. flipped.version = disk[f].version
      BY Zenon
    <2>3. disk' = [disk EXCEPT ![f] = flipped]
      BY <1>1, Zenon
    <2>. HIDE DEF flipped
    <2>. QED
      BY <2>1, <2>2, <2>3
  <1>2. CASE disk[f].version < MaxVersion /\ disk' = [disk EXCEPT ![f].version = @ + 1]
    <2>1. disk[f].version + 1 \in 1..MaxVersion
      BY <1>2
    <2>2. \A g \in Files : g # f => disk'[g] = disk[g]
      BY <1>2
    <2>3. disk'[f] = [there |-> disk[f].there, version |-> disk[f].version + 1]
      BY <1>2
    <2>. QED
      BY <1>2, <2>1, <2>2, <2>3
  <1>. QED
    BY <1>1, <1>2 DEF EditFile

\* Writing the disk keeps what the cache says of it.
LEMMA EditStep ==
  ASSUME CacheInv, NEW f \in Files, EditFile(f)
  PROVE  CacheInv'
  <1>1. /\ disk' \in [Files -> [there : BOOLEAN, version : 1..MaxVersion]]
        /\ \A g \in Files : disk'[g].version >= disk[g].version
    BY EditedDisk DEF CacheInv, CacheTyping
  <1>2. UNCHANGED <<cache, inside, upc, update>>
    BY DEF EditFile
  <1>3. CacheTyping' /\ UpdateKnows' /\ RequiredFilesStayPut'
    BY <1>1, <1>2 DEF CacheInv, CacheTyping, UpdateKnows, RequiredFilesStayPut
  <1>4. DiskLeads'
    BY <1>1, <1>2 DEF CacheInv, CacheTyping, UpdateKnows, Frames, Contents, DiskLeads
  <1>. QED
    BY <1>3, <1>4 DEF CacheInv

-----------------------------------------------------------------------------
\* The theorems.

\* What is cached, what is being run, what is about to be stored and what is on the
\* disk stay in step.
THEOREM CacheInvariant == Spec => []CacheInv
  <1>1. ASSUME CacheInv, [Next]_runnerVars PROVE CacheInv'
    <2> USE <1>1
    <2>1. CASE UNCHANGED runnerVars
      BY <2>1, OtherStep DEF runnerVars, cacheVars
    <2>2. ASSUME NEW t \in Threads, ThreadStep(t) PROVE CacheInv'
      BY <2>2, OtherStep, RequireStep DEF ThreadStep, EndScript, NotFound
    <2>3. ASSUME NEW t \in Threads, Call(t) \/ CallRequire(t) PROVE CacheInv'
      BY <2>3, OtherStep DEF Call, CallRequire, Require, cacheVars
    <2>4. CASE AskCount \/ DispatcherStep
      BY <2>4, OtherStep, UpdateStep DEF AskCount, DispatcherStep, Count
    <2>5. ASSUME NEW n \in Names, ReadUpdate(n) PROVE CacheInv'
      BY <2>5, UpdateStep
    <2>6. ASSUME NEW f \in Files, EditFile(f) PROVE CacheInv'
      BY <2>6, EditStep
    <2>. QED
      BY <2>1, <2>2, <2>3, <2>4, <2>5, <2>6 DEF Next
  <1>. QED
    BY CacheInitially, <1>1, PTL DEF Spec

\* A file is what the cache holds under its name for as long as it runs, however many
\* others it requires.
THEOREM RunningFilesAreNotReplaced == Spec => []RequiredFilesStayPut
  <1>1. CacheInv => RequiredFilesStayPut
    BY DEF CacheInv
  <1>. QED
    BY CacheInvariant, <1>1, PTL

\* Only Store changes the cache.
LEMMA OnlyStoreChanges ==
  ASSUME Next, ~ Store
  PROVE  UNCHANGED cache
  <1>1. ASSUME NEW t \in Threads, ThreadStep(t) \/ Call(t) \/ CallRequire(t) PROVE UNCHANGED cache
    BY <1>1 DEF ThreadStep, EndScript, Enter, NotFound, Leave, Call, CallRequire, Require, cacheVars
  <1>2. CASE AskCount \/ DispatcherStep
    BY <1>2 DEF AskCount, DispatcherStep, Count, LockCache
  <1>3. ASSUME NEW n \in Names, ReadUpdate(n) PROVE UNCHANGED cache
    BY <1>3 DEF ReadUpdate
  <1>4. ASSUME NEW f \in Files, EditFile(f) PROVE UNCHANGED cache
    BY <1>4 DEF EditFile
  <1>. QED
    BY <1>1, <1>2, <1>3, <1>4 DEF Next

\* What is stored is a file, and no older version than any the cache has of it.
LEMMA StoreGetsNewer ==
  ASSUME CacheInv, Store, NEW n \in Names, cache[n] # NoFile
  PROVE  /\ cache'[n] # NoFile
         /\ cache'[n].file = cache[n].file => cache'[n].version >= cache[n].version
  <1>1. /\ update.name \in Names /\ update.content \in Contents
        /\ cache' = [cache EXCEPT ![update.name] = update.content]
    BY DEF Store, CacheInv, UpdateKnows, Frames
  <1>2. CASE n = update.name
    BY <1>1, <1>2 DEF Store, CacheInv, CacheTyping, DiskLeads, Contents
  <1>3. CASE n # update.name
    BY <1>1, <1>3 DEF CacheInv, CacheTyping, Contents
  <1>. QED
    BY <1>2, <1>3

\* Updates that fail leave the cache alone, and those that succeed bring no older
\* version of a file back, whoever writes the disk meanwhile.
THEOREM CacheGetsNewer == Spec => CacheOnlyGetsNewer
  <1>1. ASSUME CacheInv, [Next]_runnerVars
        PROVE  [\A n \in Names :
                  cache[n] # NoFile =>
                    /\ cache'[n] # NoFile
                    /\ cache'[n].file = cache[n].file
                         => cache'[n].version >= cache[n].version]_runnerVars
    <2>1. CASE UNCHANGED runnerVars
      BY <2>1
    <2>2. CASE Next /\ Store
      BY <1>1, <2>2, StoreGetsNewer
    <2>3. CASE Next /\ ~ Store
      BY <1>1, <2>3, OnlyStoreChanges DEF CacheInv, CacheTyping, Contents
    <2>. QED
      BY <1>1, <2>1, <2>2, <2>3
  <1>. QED
    BY CacheInvariant, <1>1, PTL DEF Spec, CacheOnlyGetsNewer

-----------------------------------------------------------------------------
\* The registry in the runner.  RegistryProofs has definitions of its own, which are
\* those of Registry.

\* The two initial conditions are the same.
LEMMA SameInit == RegistryProofs!Init <=> Registry!Init
  BY DEF RegistryProofs!Init, RegistryProofs!Pairs, RegistryProofs!Isolates,
         Registry!Init, Registry!Pairs, Registry!Isolates

\* So are the calls ...
LEMMA SameCalls == \A t : RegistryProofs!Calls(t) <=> Registry!Calls(t)
  BY DEF RegistryProofs!Calls, RegistryProofs!Invoke, RegistryProofs!Goto,
         RegistryProofs!CleanData, RegistryProofs!Unlocked, RegistryProofs!Pairs,
         RegistryProofs!mapVars, RegistryProofs!lockVars,
         Registry!Calls, Registry!Invoke, Registry!Goto, Registry!CleanData,
         Registry!Unlocked, Registry!Pairs, Registry!mapVars, Registry!lockVars

\* ... and the steps.
LEMMA SameSteps == \A t : RegistryProofs!Step(t) <=> Registry!Step(t)
  BY DEF RegistryProofs!Step, RegistryProofs!BeginCompile, RegistryProofs!EndCompile,
         RegistryProofs!Remove, RegistryProofs!LockShared, RegistryProofs!Find,
         RegistryProofs!NotFound, RegistryProofs!Enter, RegistryProofs!NotFunction,
         RegistryProofs!BadInput, RegistryProofs!Call, RegistryProofs!EndCall,
         RegistryProofs!Leave, RegistryProofs!EndCheck, RegistryProofs!Goto,
         RegistryProofs!Done, RegistryProofs!Unlocked, RegistryProofs!Wrapped,
         RegistryProofs!IsolateFor, RegistryProofs!Advanced, RegistryProofs!Reset,
         RegistryProofs!Released, RegistryProofs!mapVars, RegistryProofs!lockVars,
         RegistryProofs!Isolates,
         Registry!Step, Registry!BeginCompile, Registry!EndCompile, Registry!Remove,
         Registry!LockShared, Registry!Find, Registry!NotFound, Registry!Enter,
         Registry!NotFunction, Registry!BadInput, Registry!Call, Registry!EndCall,
         Registry!Leave, Registry!EndCheck, Registry!Goto, Registry!Done,
         Registry!Unlocked, Registry!Wrapped, Registry!IsolateFor, Registry!Advanced,
         Registry!Reset, Registry!Released, Registry!mapVars, Registry!lockVars,
         Registry!Isolates

\* So what is proved of the one registry holds of the other.
LEMMA SameRegistry == Registry!Spec => RegistryProofs!Spec
  <1>1. RegistryProofs!Next <=> Registry!Next
    BY SameCalls, SameSteps DEF RegistryProofs!Next, Registry!Next
  <1>2. UNCHANGED Registry!vars => UNCHANGED RegistryProofs!vars
    BY DEF Registry!vars, Registry!mapVars, Registry!lockVars,
           RegistryProofs!vars, RegistryProofs!mapVars, RegistryProofs!lockVars
  <1>3. [Registry!Next]_(Registry!vars) => [RegistryProofs!Next]_(RegistryProofs!vars)
    BY <1>1, <1>2
  <1>. QED
    BY SameInit, <1>3, PTL DEF Registry!Spec, RegistryProofs!Spec

\* A step of the runner is one of the registry, or leaves it alone.
LEMMA RegistryStep == [Next]_runnerVars => [Registry!Next]_(Registry!vars)
  <1> SUFFICES ASSUME [Next]_runnerVars
               PROVE  Registry!Next \/ UNCHANGED Registry!vars
    OBVIOUS
  <1>1. ASSUME UNCHANGED registryVars PROVE UNCHANGED Registry!vars
    BY <1>1 DEF registryVars, Registry!vars, Registry!mapVars, Registry!lockVars
  <1>2. ASSUME NEW t \in Threads, ThreadStep(t) \/ Call(t) \/ CallRequire(t)
        PROVE  Registry!Next \/ UNCHANGED registryVars
    BY <1>2 DEF ThreadStep, Call, CallRequire, Registry!Next
  <1>3. CASE AskCount \/ DispatcherStep
    BY <1>1, <1>3 DEF AskCount, DispatcherStep, Count
  <1>. QED
    BY <1>1, <1>2, <1>3 DEF Next, runnerVars

\* With scripts that require files and a dispatcher beside them, the runner still is
\* the registry of ScriptRegistry, so its properties are the runner's.
THEOREM RunnerUsesRegistry == Spec => Registry!Spec
  BY RegistryStep, PTL DEF Spec, Init, Registry!Spec

\* In particular its invariant is one of the runner.
LEMMA RegistryInvariant == Spec => []RegistryProofs!RegistryInv
  <1>1. RegistryProofs!Spec => []RegistryProofs!RegistryInv
    BY RegistryProofs!RegistryInvariant, ActorsAssumption, RegistryAssumption
       DEF IsFiniteSet, RegistryProofs!IsFiniteSet
  <1>. QED
    BY RunnerUsesRegistry, SameRegistry, <1>1, PTL

\* So is that compile, remove and run are one store of scripts: what is required and
\* updated meanwhile changes none of their answers.
THEOREM RunnerImplementsStore == Spec => Registry!StoreSpec
  <1>1. RegistryProofs!Spec => RegistryProofs!StoreSpec
    BY RegistryProofs!RegistryImplementsStore, ActorsAssumption, RegistryAssumption
       DEF IsFiniteSet, RegistryProofs!IsFiniteSet
  <1> USE DEF RegistryProofs!Pairs, Registry!Pairs, RegistryProofs!Asked, Registry!Asked,
              RegistryProofs!Running, Registry!Running
  <1>2. RegistryProofs!Store!StoreInit => Registry!Store!StoreInit
    BY DEF RegistryProofs!Store!StoreInit, Registry!Store!StoreInit
  <1>3. RegistryProofs!Store!StoreNext => Registry!Store!StoreNext
    BY DEF RegistryProofs!Store!StoreNext, RegistryProofs!Store!Break,
           RegistryProofs!Store!Define, RegistryProofs!Store!Forget,
           RegistryProofs!Store!Ask, RegistryProofs!Store!Answer, RegistryProofs!Store!Return,
           Registry!Store!StoreNext, Registry!Store!Break, Registry!Store!Define,
           Registry!Store!Forget, Registry!Store!Ask, Registry!Store!Answer, Registry!Store!Return
  <1>4. UNCHANGED RegistryProofs!Store!storeVars => UNCHANGED Registry!Store!storeVars
    BY DEF RegistryProofs!Store!storeVars, Registry!Store!storeVars
  <1>5. [RegistryProofs!Store!StoreNext]_(RegistryProofs!Store!storeVars)
          => [Registry!Store!StoreNext]_(Registry!Store!storeVars)
    BY <1>3, <1>4
  <1>6. RegistryProofs!StoreSpec => Registry!StoreSpec
    BY <1>2, <1>5, PTL DEF RegistryProofs!StoreSpec, RegistryProofs!Store!StoreSpec,
                           Registry!StoreSpec, Registry!Store!StoreSpec
  <1>. QED
    BY RunnerUsesRegistry, SameRegistry, <1>1, <1>6, PTL

-----------------------------------------------------------------------------
\* Nobody waits in a circle.

\* Only in a script does a thread call require or run a required file.
RequiresInScript ==
  /\ wants \in [Threads -> Names \cup {NoName}]
  /\ \A t \in Threads : wants[t] # NoName \/ inside[t] # <<>> => InScript(t)

\* A thread in the registry moves no other thread.
LEMMA OwnSteps ==
  ASSUME NEW t \in Threads, Registry!Step(t) \/ Registry!Calls(t),
         RegistryProofs!TypeOK, NEW u \in Threads \ {t}
  PROVE  pc'[u] = pc[u]
  <1>1. pc \in [Threads -> RegistryProofs!Pcs]
    BY DEF RegistryProofs!TypeOK
  <1>2. CASE Registry!Calls(t)
    BY <1>1, <1>2 DEF Registry!Calls, Registry!Invoke, Registry!CleanData, Registry!Goto
  <1>3. CASE Registry!Step(t)
    BY <1>1, <1>3
       DEF Registry!Step, Registry!BeginCompile, Registry!EndCompile, Registry!Remove,
           Registry!LockShared, Registry!Find, Registry!NotFound, Registry!Enter,
           Registry!NotFunction, Registry!BadInput, Registry!Call, Registry!EndCall,
           Registry!Leave, Registry!EndCheck, Registry!Goto, Registry!Done
  <1>. QED
    BY <1>2, <1>3

\* A call begins where no script runs.
LEMMA CallsAreIdle ==
  ASSUME NEW t \in Threads, Registry!Calls(t)
  PROVE  pc[t] = "idle"
  BY DEF Registry!Calls, Registry!Invoke, Registry!CleanData, Registry!Goto

\* Only a thread that runs a script can wait for the pair of another.
LEMMA ScriptStep ==
  RegistryProofs!TypeOK /\ CacheTyping /\ RequiresInScript /\ [Next]_runnerVars => RequiresInScript'
  <1> SUFFICES ASSUME RegistryProofs!TypeOK, CacheTyping, RequiresInScript, [Next]_runnerVars
               PROVE  RequiresInScript'
    OBVIOUS
  <1> USE DEF RequiresInScript, InScript
  <1>1. CASE UNCHANGED <<pc, wants, inside>>
    BY <1>1
  <1>2. ASSUME NEW t \in Threads, Registry!Step(t), EndScript(t) PROVE RequiresInScript'
    BY <1>2, OwnSteps DEF EndScript
  <1>3. ASSUME NEW t \in Threads, Call(t) PROVE RequiresInScript'
    BY <1>3, OwnSteps, CallsAreIdle DEF Call, cacheVars
  <1>4. ASSUME NEW t \in Threads, Enter(t) \/ NotFound(t) \/ Leave(t), UNCHANGED registryVars
        PROVE  RequiresInScript'
    <2>1. wants' \in [Threads -> Names \cup {NoName}] /\ UNCHANGED pc
      BY <1>4 DEF Enter, NotFound, Leave, registryVars
    <2>2. wants[t] \in Names => wants[t] # NoName
      BY NoNameAssumption
    <2>3. wants[t] # NoName \/ inside[t] # <<>>
      BY <1>4, <2>2 DEF Enter, NotFound, Leave
    <2>4. \A u \in Threads \ {t} : wants'[u] = wants[u] /\ inside'[u] = inside[u]
      BY <1>4 DEF Enter, NotFound, Leave, CacheTyping
    <2>. QED
      BY <2>1, <2>3, <2>4
  <1>5. ASSUME NEW t \in Threads, CallRequire(t) PROVE RequiresInScript'
    BY <1>5 DEF CallRequire, Require, registryVars
  <1>6. CASE AskCount \/ DispatcherStep
    BY <1>1, <1>6 DEF AskCount, DispatcherStep, Count, LockCache, Store, registryVars
  <1>7. ASSUME NEW n \in Names, ReadUpdate(n), UNCHANGED registryVars PROVE RequiresInScript'
    BY <1>1, <1>7 DEF ReadUpdate, registryVars
  <1>8. ASSUME NEW f \in Files, EditFile(f), UNCHANGED registryVars PROVE RequiresInScript'
    BY <1>1, <1>8 DEF EditFile, registryVars
  <1>. QED
    BY <1>1, <1>2, <1>3, <1>4, <1>5, <1>6, <1>7, <1>8
       DEF Next, ThreadStep, runnerVars, registryVars, cacheVars

\* How much an actor may still have to wait for: a store for nothing, a script for a
\* store, a run for a script, and a compile or a remove for runs.
Rank(a) == IF a = Dispatcher THEN IF upc \in {"count", "lock"} THEN 2 ELSE 0
           ELSE IF pc[a] \in {"compile", "remove"} THEN 3
           ELSE IF pc[a] \in {"run", "enter"} THEN 2
           ELSE 1

\* Whoever one waits for has less to wait for.
LEMMA WaitsGoDown ==
  ASSUME RegistryProofs!RegistryInv, RequiresInScript,
         NEW a \in Actors, NEW b \in Actors, WaitsFor(a, b)
  PROVE  Rank(b) < Rank(a)
  <1> USE DEF RegistryProofs!RegistryInv, RegistryProofs!LockInv, RegistryProofs!MapInv
  <1>1. b # NoThread /\ (b = Dispatcher \/ b \in Threads) /\ NoThread \notin Threads
        /\ Dispatcher \notin Threads
    BY ActorsAssumption DEF Actors
  <1>2. ASSUME b = writer PROVE Rank(b) = 1
    BY <1>1, <1>2, ActorsAssumption
       DEF RegistryProofs!TypeOK, RegistryProofs!WriterDefines, Rank
  <1>3. ASSUME NEW i \in RegistryProofs!Isolates, locker[i] = b PROVE Rank(b) = 1
    BY <1>1, <1>3, ActorsAssumption
       DEF RegistryProofs!TypeOK, RegistryProofs!HolderInside, RegistryProofs!InsidePcs, Rank
  <1>4. ASSUME b \in sharing PROVE Rank(b) \in {1, 2}
    BY <1>1, <1>4
       DEF RegistryProofs!TypeOK, RegistryProofs!SharersRun, RegistryProofs!SharedPcs, Rank
  <1>5. CASE a = Dispatcher
    <2>1. CASE upc = "count" /\ b = writer
      BY <1>2, <1>5, <2>1 DEF Rank
    <2>2. CASE upc = "lock" /\ b \in Threads /\ inside[b] # <<>>
      BY <1>1, <1>5, <2>2 DEF Rank, RequiresInScript, InScript
    <2>. QED
      BY <1>5, <2>1, <2>2 DEF WaitsFor, DispatcherWaitsFor
  <1>6. CASE a \in Threads
    <2>1. ThreadWaitsFor(a, b) /\ a # Dispatcher
      BY <1>1, <1>6 DEF WaitsFor
    <2>2. CASE pc[a] \in {"compile", "remove"} /\ b \in sharing \cup {writer}
      BY <1>2, <1>4, <2>1, <2>2 DEF Rank
    <2>3. CASE pc[a] \in {"compile", "remove"} /\ Wanted(a) # NoIsolate /\ locker[Wanted(a)] = b
      <3>1. pair[a][1] \in Convs
        BY <1>6, <2>3 DEF RegistryProofs!Knows, RegistryProofs!Pairs
      <3>2. Wanted(a) \in RegistryProofs!Isolates
        BY <2>3, <3>1, RegistryAssumption
           DEF Wanted, Registry!IsolateFor, Registry!Wrapped, RegistryProofs!TypeOK,
               RegistryProofs!Isolates
      <3>. QED
        BY <1>3, <2>1, <2>3, <3>2 DEF Rank
    <2>4. CASE pc[a] = "run" /\ b = writer
      BY <1>2, <2>1, <2>4 DEF Rank
    <2>5. CASE pc[a] = "enter" /\ locker[isolate[a]] = b
      BY <1>3, <1>6, <2>1, <2>5 DEF Rank, RegistryProofs!Knows
    <2>6. CASE wants[a] # NoName /\ ~ Shareable /\ b = Dispatcher
      BY <1>6, <2>1, <2>6 DEF Rank, Shareable, RequiresInScript, InScript
    <2>. QED
      BY <2>1, <2>2, <2>3, <2>4, <2>5, <2>6 DEF ThreadWaitsFor
  <1>. QED
    BY <1>5, <1>6 DEF Actors

\* In a set of actors somebody has the least to wait for.
LEMMA LeastRank ==
  ASSUME NEW S, S # {}
  PROVE  \E a \in S : \A b \in S : ~ (Rank(b) < Rank(a))
  <1>1. \A a \in S : Rank(a) \in 0..3
    BY DEF Rank
  <1>2. CASE \E a \in S : Rank(a) = 0
    BY <1>1, <1>2
  <1>3. CASE (\A a \in S : Rank(a) # 0) /\ \E a \in S : Rank(a) = 1
    BY <1>1, <1>3
  <1>4. CASE (\A a \in S : Rank(a) \notin {0, 1}) /\ \E a \in S : Rank(a) = 2
    BY <1>1, <1>4
  <1>5. CASE \A a \in S : Rank(a) = 3
    BY <1>5
  <1>. QED
    BY <1>1, <1>2, <1>3, <1>4, <1>5

\* However the locks of the registry, the Lockers and the lock of the cache are taken
\* inside one another, no set of threads, with the dispatcher or without, is stuck.
THEOREM NoDeadlock == Spec => []NobodyWaitsInACircle
  <1>1. Init => RequiresInScript
    BY DEF Init, CacheInit, RequiresInScript
  <1>2. Spec => []RequiresInScript
    <2>1. RegistryProofs!RegistryInv => RegistryProofs!TypeOK
      BY DEF RegistryProofs!RegistryInv
    <2>2. CacheInv => CacheTyping
      BY DEF CacheInv
    <2>. QED
      BY <1>1, <2>1, <2>2, ScriptStep, RegistryInvariant, CacheInvariant, PTL DEF Spec
  <1>3. RegistryProofs!RegistryInv /\ RequiresInScript => NobodyWaitsInACircle
    <2> SUFFICES ASSUME RegistryProofs!RegistryInv, RequiresInScript,
                        NEW S \in (SUBSET Actors) \ {{}}
                 PROVE  \E a \in S : \A b \in S : ~ WaitsFor(a, b)
      BY DEF NobodyWaitsInACircle
    <2>1. PICK a \in S : \A b \in S : ~ (Rank(b) < Rank(a))
      BY LeastRank
    <2>2. \A b \in S : ~ WaitsFor(a, b)
      BY <2>1, WaitsGoDown
    <2>. QED
      BY <2>2
  <1>. QED
    BY <1>2, <1>3, RegistryInvariant, PTL
=============================================================================
