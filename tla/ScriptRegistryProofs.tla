------------------------ MODULE ScriptRegistryProofs ------------------------
(***************************************************************************)
(* What is proved of ScriptRegistry, for any number of threads, isolates,  *)
(* convs, nodes and scripts.  One inductive invariant says which lock a    *)
(* thread holds at each place (LockInv) and what it knows there about the  *)
(* maps (MapInv); the properties and the implementation of ScriptStore     *)
(* follow from it.  That the round robin is even has an invariant of its   *)
(* own (Spread).                                                            *)
(***************************************************************************)
EXTENDS ScriptRegistry, FiniteSetTheorems, TLAPS

USE ThreadsAssumption, NumIsolatesAssumption, MarksAssumption

-----------------------------------------------------------------------------
\* The places where a thread has the shared side of _compileMutex, and those where
\* it has the Locker of its isolate, unless it never came to one.
SharedPcs == {"find", "enter", "test", "call", "leave"}
InsidePcs == {"define", "test", "call", "leave"}

WriterDefines == \A t \in Threads : pc[t] = "define" <=> writer = t
SharersRun == \A t \in Threads : t \in sharing <=> pc[t] \in SharedPcs
OneKind == writer # NoThread => sharing = {}

\* The two directions of "has the Locker".
InsiderHolds == \A t \in Threads : pc[t] \in InsidePcs /\ isolate[t] # NoIsolate
                                     => locker[isolate[t]] = t
HolderInside == \A i \in Isolates : locker[i] # NoThread
                                     => /\ isolate[locker[i]] = i
                                        /\ pc[locker[i]] \in InsidePcs

LockInv == WriterDefines /\ SharersRun /\ OneKind /\ InsiderHolds /\ HolderInside

\* A pair is known from the call on; an isolate from the lookup on, and it is the
\* one of the pair's conv while the lock lasts.
Knows ==
  \A t \in Threads :
    /\ pc[t] \notin {"idle", "check"} => pair[t] \in Pairs
    /\ pc[t] \notin InsidePcs \cup {"enter"} => isolate[t] = NoIsolate
    /\ pc[t] \in {"define", "enter", "test", "call"} =>
         isolate[t] \in Isolates /\ isolate[t] = convs[pair[t][1]]
    /\ pc[t] = "define" => functions[pair[t]] \in {Absent, Empty}
    /\ pc[t] \in {"enter", "test", "call"} => functions[pair[t]] # Absent
    /\ pc[t] = "call" => functions[pair[t]] # Empty /\ answer[t] = functions[pair[t]]
    /\ pc[t] \notin {"call", "leave"} => answer[t] = NoAnswer

\* What a compile has stored belongs to the isolate of its conv.
FunctionsAtHome ==
  \A p \in Pairs : functions[p] \in Scripts => home[p] = convs[p[1]]

MapInv == Knows /\ FunctionsAtHome /\ EveryFunctionHasAConv

RegistryInv == TypeOK /\ LockInv /\ MapInv

-----------------------------------------------------------------------------
\* The helpers.

\* A pair has a conv and is no mark.
LEMMA ConvOfPair == \A p \in Pairs : p[1] \in Convs /\ p # <<>>
  BY DEF Pairs

\* getIsolate never leaves _isolates, and its counter stays in range.
LEMMA IsolateIsOne ==
  ASSUME TypeOK, NEW c \in Convs
  PROVE  IsolateFor(c) \in Isolates /\ Advanced(c) \in 0..NumIsolates
  BY DEF TypeOK, IsolateFor, Advanced, Wrapped, Isolates

\* Reset leaves nothing but a handle without a function, and only where there was one.
LEMMA ResetTouchesOne ==
  ASSUME TypeOK, NEW p \in Pairs, Reset(p)
  PROVE  /\ functions' \in [Pairs -> Scripts \cup {Absent, Empty}]
         /\ functions'[p] \in {Absent, Empty}
         /\ functions[p] = Absent <=> functions'[p] = Absent
         /\ \A q \in Pairs : q # p => functions'[q] = functions[q]
  BY DEF TypeOK, Reset

\* The invariant holds of a new runner.
LEMMA RegistryInitially == Init => RegistryInv
  <1> SUFFICES ASSUME Init PROVE RegistryInv
    OBVIOUS
  <1>1. TypeOK
    BY DEF Init, TypeOK, Pcs, Isolates
  <1>2. LockInv
    BY DEF Init, LockInv, WriterDefines, SharersRun, OneKind, InsiderHolds, HolderInside,
           SharedPcs, InsidePcs
  <1>3. MapInv
    BY DEF Init, MapInv, Knows, FunctionsAtHome, EveryFunctionHasAConv, InsidePcs
  <1>. QED
    BY <1>1, <1>2, <1>3 DEF RegistryInv

-----------------------------------------------------------------------------
\* Types.

\* Every step keeps the types.
LEMMA TypeStep == RegistryInv /\ [Next]_vars => TypeOK'
  <1> SUFFICES ASSUME RegistryInv, [Next]_vars PROVE TypeOK'
    OBVIOUS
  <1> USE ConvOfPair DEF RegistryInv, TypeOK, Pcs, mapVars, lockVars, Goto
  <1>1. ASSUME NEW t \in Threads, NEW p \in Pairs \cup {<<>>}, NEW op \in Pcs, Invoke(t, op, p)
        PROVE  TypeOK'
    BY <1>1 DEF Invoke
  <1>2. ASSUME NEW t \in Threads, CleanData(t) PROVE TypeOK'
    BY <1>2 DEF CleanData
  <1>3. ASSUME NEW t \in Threads, BeginCompile(t) PROVE TypeOK'
    <2>1. pair[t] \in Pairs /\ pair[t][1] \in Convs
      BY <1>3 DEF BeginCompile, MapInv, Knows
    <2>2. IsolateFor(pair[t][1]) \in Isolates /\ Advanced(pair[t][1]) \in 0..NumIsolates
      BY <2>1, IsolateIsOne
    <2>3. functions' \in [Pairs -> Scripts \cup {Absent, Empty}]
      BY <1>3, <2>1, ResetTouchesOne DEF BeginCompile
    <2>. QED
      BY <1>3, <2>1, <2>2, <2>3 DEF BeginCompile
  <1>4. ASSUME NEW t \in Threads, NEW s \in Scripts, NEW ok \in BOOLEAN, EndCompile(t, s, ok)
        PROVE  TypeOK'
    <2>1. pair[t] \in Pairs
      BY <1>4 DEF EndCompile, MapInv, Knows
    <2>. QED
      BY <1>4, <2>1 DEF EndCompile, Done, Released
  <1>5. ASSUME NEW t \in Threads, Remove(t) PROVE TypeOK'
    <2>1. pair[t] \in Pairs
      BY <1>5 DEF Remove, MapInv, Knows
    <2>2. functions' \in [Pairs -> Scripts \cup {Absent, Empty}]
      BY <1>5, <2>1, ResetTouchesOne DEF Remove
    <2>. QED
      BY <1>5, <2>2 DEF Remove, Done
  <1>6. ASSUME NEW t \in Threads, LockShared(t) PROVE TypeOK'
    BY <1>6 DEF LockShared
  <1>7. ASSUME NEW t \in Threads, Find(t) PROVE TypeOK'
    <2>1. pair[t] \in Pairs /\ pair[t][1] \in Convs
      BY <1>7 DEF Find, MapInv, Knows
    <2>. QED
      BY <1>7, <2>1 DEF Find
  <1>8. ASSUME NEW t \in Threads, NotFound(t) PROVE TypeOK'
    BY <1>8 DEF NotFound
  <1>9. ASSUME NEW t \in Threads, Enter(t) PROVE TypeOK'
    BY <1>9 DEF Enter
  <1>10. ASSUME NEW t \in Threads, NotFunction(t) \/ BadInput(t) PROVE TypeOK'
    BY <1>10 DEF NotFunction, BadInput
  <1>11. ASSUME NEW t \in Threads, Call(t) PROVE TypeOK'
    <2>1. pair[t] \in Pairs
      BY <1>11 DEF Call, MapInv, Knows
    <2>. QED
      BY <1>11, <2>1 DEF Call
  <1>12. ASSUME NEW t \in Threads, EndCall(t) PROVE TypeOK'
    BY <1>12 DEF EndCall
  <1>13. ASSUME NEW t \in Threads, Leave(t) PROVE TypeOK'
    BY <1>13 DEF Leave, Done
  <1>14. ASSUME NEW t \in Threads, EndCheck(t) PROVE TypeOK'
    BY <1>14 DEF EndCheck, Done
  <1>15. CASE UNCHANGED vars
    BY <1>15 DEF vars
  <1>16. ASSUME NEW t \in Threads, Calls(t) PROVE TypeOK'
    BY <1>1, <1>2, <1>16 DEF Calls
  <1>17. ASSUME NEW t \in Threads, Step(t) PROVE TypeOK'
    BY <1>3, <1>4, <1>5, <1>6, <1>7, <1>8, <1>9, <1>10, <1>11, <1>12, <1>13, <1>14, <1>17 DEF Step
  <1>. QED
    BY <1>15, <1>16, <1>17 DEF Next

-----------------------------------------------------------------------------
\* Locks.

\* Every step keeps who has which lock.
LEMMA LockStep == RegistryInv /\ [Next]_vars => LockInv'
  <1> SUFFICES ASSUME RegistryInv, [Next]_vars PROVE LockInv'
    OBVIOUS
  <1> USE ConvOfPair, TypeStep
      DEF RegistryInv, TypeOK, LockInv, WriterDefines, SharersRun, OneKind, InsiderHolds,
          HolderInside, SharedPcs, InsidePcs, mapVars, lockVars, Goto
  <1>1. ASSUME NEW t \in Threads, NEW p \in Pairs \cup {<<>>},
               NEW op \in {"compile", "remove", "run", "check"}, Invoke(t, op, p)
        PROVE  LockInv'
    BY <1>1 DEF Invoke
  <1>2. ASSUME NEW t \in Threads, CleanData(t) PROVE LockInv'
    BY <1>2 DEF CleanData
  <1>3. ASSUME NEW t \in Threads, BeginCompile(t) PROVE LockInv'
    <2>1. pair[t] \in Pairs /\ pair[t][1] \in Convs /\ isolate[t] = NoIsolate
      BY <1>3 DEF BeginCompile, MapInv, Knows
    <2>2. IsolateFor(pair[t][1]) \in Isolates
      BY <2>1, IsolateIsOne
    <2>. QED
      BY <1>3, <2>1, <2>2 DEF BeginCompile, Unlocked
  <1>4. ASSUME NEW t \in Threads, NEW s \in Scripts, NEW ok \in BOOLEAN, EndCompile(t, s, ok)
        PROVE  LockInv'
    <2>1. isolate[t] \in Isolates
      BY <1>4 DEF EndCompile, MapInv, Knows
    <2>. QED
      BY <1>4, <2>1 DEF EndCompile, Done, Released
  <1>5. ASSUME NEW t \in Threads, Remove(t) PROVE LockInv'
    <2>1. isolate[t] = NoIsolate
      BY <1>5 DEF Remove, MapInv, Knows
    <2>. QED
      BY <1>5, <2>1 DEF Remove, Done
  <1>6. ASSUME NEW t \in Threads, LockShared(t) PROVE LockInv'
    BY <1>6 DEF LockShared
  <1>7. ASSUME NEW t \in Threads, Find(t) PROVE LockInv'
    BY <1>7 DEF Find
  <1>8. ASSUME NEW t \in Threads, NotFound(t) PROVE LockInv'
    <2>1. isolate[t] = NoIsolate
      BY <1>8 DEF NotFound, MapInv, Knows
    <2>. QED
      BY <1>8, <2>1 DEF NotFound
  <1>9. ASSUME NEW t \in Threads, Enter(t) PROVE LockInv'
    <2>1. isolate[t] \in Isolates
      BY <1>9 DEF Enter, MapInv, Knows
    <2>. QED
      BY <1>9, <2>1 DEF Enter
  <1>10. ASSUME NEW t \in Threads, NotFunction(t) \/ BadInput(t) \/ Call(t) \/ EndCall(t)
         PROVE  LockInv'
    BY <1>10 DEF NotFunction, BadInput, Call, EndCall
  <1>11. ASSUME NEW t \in Threads, Leave(t) PROVE LockInv'
    BY <1>11 DEF Leave, Done
  <1>12. ASSUME NEW t \in Threads, EndCheck(t) PROVE LockInv'
    BY <1>12 DEF EndCheck, Done, MapInv, Knows
  <1>13. CASE UNCHANGED vars
    BY <1>13 DEF vars
  <1>14. ASSUME NEW t \in Threads, Calls(t) PROVE LockInv'
    BY <1>1, <1>2, <1>14 DEF Calls
  <1>15. ASSUME NEW t \in Threads, Step(t) PROVE LockInv'
    BY <1>3, <1>4, <1>5, <1>6, <1>7, <1>8, <1>9, <1>10, <1>11, <1>12, <1>15 DEF Step
  <1>. QED
    BY <1>13, <1>14, <1>15 DEF Next

-----------------------------------------------------------------------------
\* Maps.  Whoever changes them has the unique lock, so nobody is where it matters.

\* Where _compileMutex is free, no thread is under either side of it.
LEMMA AloneWhenUnlocked ==
  ASSUME RegistryInv, Unlocked
  PROVE  \A t \in Threads : pc[t] \notin SharedPcs \cup {"define"}
  BY DEF RegistryInv, LockInv, WriterDefines, SharersRun, Unlocked

\* Where one compiles, no other thread is under either side of _compileMutex.
LEMMA AloneWhenDefining ==
  ASSUME RegistryInv, NEW t \in Threads, pc[t] = "define"
  PROVE  \A u \in Threads : u # t => pc[u] \notin SharedPcs \cup {"define"}
  BY DEF RegistryInv, LockInv, WriterDefines, SharersRun, OneKind

\* Every step keeps what the two maps say of each other and of the calls.
LEMMA MapStep == RegistryInv /\ [Next]_vars => MapInv'
  <1> SUFFICES ASSUME RegistryInv, [Next]_vars PROVE MapInv'
    OBVIOUS
  <1> USE ConvOfPair
      DEF RegistryInv, TypeOK, MapInv, Knows, FunctionsAtHome, EveryFunctionHasAConv,
          SharedPcs, InsidePcs, mapVars, lockVars, Goto
  <1>1. ASSUME NEW t \in Threads, NEW p \in Pairs,
               NEW op \in {"compile", "remove", "run"}, Invoke(t, op, p)
        PROVE  MapInv'
    BY <1>1 DEF Invoke
  <1>2. ASSUME NEW t \in Threads, Invoke(t, "check", <<>>) PROVE MapInv'
    BY <1>2 DEF Invoke
  <1>3. ASSUME NEW t \in Threads, CleanData(t) PROVE MapInv'
    BY <1>3, AloneWhenUnlocked DEF CleanData
  <1>4. ASSUME NEW t \in Threads, BeginCompile(t) PROVE MapInv'
    <2>1. pair[t] \in Pairs /\ pair[t][1] \in Convs /\ answer[t] = NoAnswer
      BY <1>4 DEF BeginCompile
    <2>2. IsolateFor(pair[t][1]) \in Isolates
      BY <2>1, IsolateIsOne
    <2>3. /\ functions'[pair[t]] \in {Absent, Empty}
          /\ \A q \in Pairs : q # pair[t] => functions'[q] = functions[q]
      BY <1>4, <2>1, ResetTouchesOne DEF BeginCompile
    <2>4. \A c \in Convs : /\ convs[c] # NoIsolate => convs'[c] = convs[c]
                           /\ convs'[pair[t][1]] # NoIsolate
      BY <1>4, <2>1, <2>2 DEF BeginCompile, IsolateFor, Isolates
    <2>5. Knows'
      BY <1>4, <2>1, <2>2, <2>3, AloneWhenUnlocked DEF BeginCompile
    <2>6. FunctionsAtHome'
      BY <1>4, <2>1, <2>3, <2>4 DEF BeginCompile
    <2>7. EveryFunctionHasAConv'
      BY <1>4, <2>1, <2>3, <2>4 DEF BeginCompile
    <2>. QED
      BY <2>5, <2>6, <2>7
  <1>5. ASSUME NEW t \in Threads, NEW s \in Scripts, NEW ok \in BOOLEAN, EndCompile(t, s, ok)
        PROVE  MapInv'
    <2>1. /\ pair[t] \in Pairs /\ answer[t] = NoAnswer
          /\ isolate[t] \in Isolates /\ isolate[t] = convs[pair[t][1]]
      BY <1>5 DEF EndCompile
    <2>2. Knows'
      BY <1>5, <2>1, AloneWhenDefining DEF EndCompile, Done
    <2>3. FunctionsAtHome' /\ EveryFunctionHasAConv'
      BY <1>5, <2>1 DEF EndCompile, Isolates
    <2>. QED
      BY <2>2, <2>3
  <1>6. ASSUME NEW t \in Threads, Remove(t) PROVE MapInv'
    <2>1. pair[t] \in Pairs /\ answer[t] = NoAnswer
      BY <1>6 DEF Remove
    <2>2. \/ UNCHANGED functions
          \/ /\ functions'[pair[t]] \in {Absent, Empty}
             /\ functions[pair[t]] = Absent <=> functions'[pair[t]] = Absent
             /\ \A q \in Pairs : q # pair[t] => functions'[q] = functions[q]
      BY <1>6, <2>1, ResetTouchesOne DEF Remove
    <2>3. Knows'
      BY <1>6, <2>1, AloneWhenUnlocked DEF Remove, Done
    <2>4. FunctionsAtHome' /\ EveryFunctionHasAConv'
      BY <1>6, <2>1, <2>2 DEF Remove
    <2>. QED
      BY <2>3, <2>4
  <1>7. ASSUME NEW t \in Threads, LockShared(t) PROVE MapInv'
    BY <1>7 DEF LockShared
  <1>8. ASSUME NEW t \in Threads, Find(t) PROVE MapInv'
    <2>1. pair[t] \in Pairs /\ convs[pair[t][1]] # NoIsolate /\ convs[pair[t][1]] \in Isolates
      BY <1>8 DEF Find
    <2>. QED
      BY <1>8, <2>1 DEF Find
  <1>9. ASSUME NEW t \in Threads, NotFound(t) PROVE MapInv'
    BY <1>9 DEF NotFound
  <1>10. ASSUME NEW t \in Threads, Enter(t) PROVE MapInv'
    BY <1>10 DEF Enter
  <1>11. ASSUME NEW t \in Threads, NotFunction(t) PROVE MapInv'
    BY <1>11 DEF NotFunction
  <1>12. ASSUME NEW t \in Threads, BadInput(t) PROVE MapInv'
    BY <1>12 DEF BadInput
  <1>13. ASSUME NEW t \in Threads, Call(t) PROVE MapInv'
    BY <1>13 DEF Call
  <1>14. ASSUME NEW t \in Threads, EndCall(t) PROVE MapInv'
    BY <1>14 DEF EndCall
  <1>15. ASSUME NEW t \in Threads, Leave(t) PROVE MapInv'
    BY <1>15 DEF Leave, Done
  <1>16. ASSUME NEW t \in Threads, EndCheck(t) PROVE MapInv'
    BY <1>16 DEF EndCheck, Done
  <1>17. CASE UNCHANGED vars
    BY <1>17 DEF vars
  <1>18. ASSUME NEW t \in Threads, Calls(t) PROVE MapInv'
    BY <1>1, <1>2, <1>3, <1>18 DEF Calls
  <1>19. ASSUME NEW t \in Threads, Step(t) PROVE MapInv'
    BY <1>4, <1>5, <1>6, <1>7, <1>8, <1>9, <1>10, <1>11, <1>12, <1>13, <1>14, <1>15, <1>16, <1>19
       DEF Step
  <1>. QED
    BY <1>17, <1>18, <1>19 DEF Next

-----------------------------------------------------------------------------
\* The theorems.

\* Each lock is held at the places that say so, and what a thread knows of the maps
\* there stays true while it holds it.
THEOREM RegistryInvariant == Spec => []RegistryInv
  <1>1. RegistryInv /\ [Next]_vars => RegistryInv'
    BY TypeStep, LockStep, MapStep DEF RegistryInv
  <1>. QED
    BY RegistryInitially, <1>1, PTL DEF Spec

\* The types, with getIsolate's counter at most one past the last isolate.
THEOREM TypeCorrect == Spec => []TypeOK
  <1>1. RegistryInv => TypeOK
    BY DEF RegistryInv
  <1>. QED
    BY RegistryInvariant, <1>1, PTL

\* A function is called in the isolate it was compiled in, by the one thread in there,
\* and is the one the map holds.
THEOREM FunctionsAreCalledAtHome == Spec => []CallsAtHome
  <1>1. RegistryInv => CallsAtHome
    <2> SUFFICES ASSUME RegistryInv, NEW t \in Threads, pc[t] = "call"
                 PROVE  /\ isolate[t] = home[pair[t]]
                        /\ locker[isolate[t]] = t
                        /\ answer[t] = functions[pair[t]]
      BY DEF CallsAtHome
    <2>1. /\ pair[t] \in Pairs
          /\ isolate[t] \in Isolates /\ isolate[t] = convs[pair[t][1]]
          /\ functions[pair[t]] \in Scripts /\ answer[t] = functions[pair[t]]
      BY DEF RegistryInv, TypeOK, MapInv, Knows
    <2>2. isolate[t] = home[pair[t]]
      BY <2>1 DEF RegistryInv, MapInv, FunctionsAtHome
    <2>3. locker[isolate[t]] = t
      BY <2>1 DEF RegistryInv, LockInv, InsiderHolds, InsidePcs, Isolates
    <2>. QED
      BY <2>1, <2>2, <2>3
  <1>. QED
    BY RegistryInvariant, <1>1, PTL

\* _convs[conv] in _run never inserts.
THEOREM RunsNeverInsert == Spec => []EveryFunctionHasAConv
  <1>1. RegistryInv => EveryFunctionHasAConv
    BY DEF RegistryInv, MapInv
  <1>. QED
    BY RegistryInvariant, <1>1, PTL

\* Who is in an isolate holds _compileMutex: the two kinds of lock are always taken in
\* one order, and a writer never waits for a Locker.
THEOREM WritersNeverWaitForALocker == Spec => []WritersFindIsolatesFree
  <1>1. RegistryInv => WritersFindIsolatesFree
    <2> SUFFICES ASSUME RegistryInv, NEW i \in Isolates, locker[i] # NoThread
                 PROVE  locker[i] \in sharing \cup {writer}
      BY DEF WritersFindIsolatesFree
    <2>1. locker[i] \in Threads /\ pc[locker[i]] \in InsidePcs
      BY DEF RegistryInv, TypeOK, LockInv, HolderInside
    <2>. QED
      BY <2>1 DEF RegistryInv, LockInv, WriterDefines, SharersRun, SharedPcs, InsidePcs
  <1>. QED
    BY RegistryInvariant, <1>1, PTL

\* No two threads run V8 in one isolate.
THEOREM IsolatesAreExclusive == Spec => []OneThreadPerIsolate
  <1>1. RegistryInv => OneThreadPerIsolate
    <2> SUFFICES ASSUME RegistryInv, NEW t \in Threads, NEW u \in Threads,
                        InV8(t), InV8(u), isolate[t] = isolate[u]
                 PROVE  t = u
      BY DEF OneThreadPerIsolate
    <2>1. \A v \in {t, u} : pc[v] \in InsidePcs /\ isolate[v] \in Isolates
      BY DEF RegistryInv, MapInv, Knows, InV8, InsidePcs
    <2>2. \A v \in {t, u} : locker[isolate[v]] = v
      BY <2>1 DEF RegistryInv, LockInv, InsiderHolds, Isolates
    <2>. QED
      BY <2>2
  <1>. QED
    BY RegistryInvariant, <1>1, PTL

-----------------------------------------------------------------------------
\* The round robin.

\* The isolates that have had their turn since the round began at s.
HadTurn(s, i) == IF s <= Wrapped THEN s <= i /\ i < Wrapped ELSE s <= i \/ i < Wrapped

\* Every isolate has had b convs in the rounds that are over, and one more in this one
\* if it has had its turn.
InRound(s, b) == \A i \in Isolates : Load(i) = IF HadTurn(s, i) THEN b + 1 ELSE b

Spread == \E s \in Isolates : \E b \in Nat : InRound(s, b)

\* A conv that gets an isolate counts there and nowhere else.
LEMMA LoadOfOneMore ==
  ASSUME TypeOK, NEW c \in Convs, NEW w \in Isolates, convs[c] = NoIsolate,
         convs' = [convs EXCEPT ![c] = w], NEW i \in Isolates
  PROVE  /\ Load(i) \in Nat
         /\ Load(i)' = IF i = w THEN Load(i) + 1 ELSE Load(i)
  <1> DEFINE Those == {d \in Convs : convs[d] = i}
  <1>1. IsFiniteSet(Those) /\ Cardinality(Those) \in Nat
    BY ConvsAssumption, FS_Subset, FS_CardinalityType
  <1>2. c \notin Those
    BY MarksAssumption, NumIsolatesAssumption DEF Isolates
  <1>3. CASE i = w
    <2>1. Those' = Those \cup {c}
      BY <1>3 DEF TypeOK
    <2>2. Cardinality(Those \cup {c}) = Cardinality(Those) + 1
      BY <1>1, <1>2, FS_AddElement
    <2>. QED
      BY <1>1, <1>3, <2>1, <2>2 DEF Load
  <1>4. CASE i # w
    <2>1. Those' = Those
      BY <1>2, <1>4 DEF TypeOK
    <2>. QED
      BY <1>1, <1>4, <2>1 DEF Load
  <1>. QED
    BY <1>3, <1>4

\* getIsolate goes on with the round, or ends it.
LEMMA NextInRound ==
  ASSUME TypeOK, NEW c \in Convs, convs[c] = NoIsolate,
         convs' = [convs EXCEPT ![c] = Wrapped], nextIsolate' = Wrapped + 1, Spread
  PROVE  Spread'
  <1>1. PICK s \in Isolates, b \in Nat : InRound(s, b)
    BY DEF Spread
  <1>2. Wrapped \in Isolates /\ Isolates = 0..NumIsolates - 1
    BY DEF TypeOK, Wrapped, Isolates
  <1>3. \A i \in Isolates : Load(i)' = IF i = Wrapped THEN Load(i) + 1 ELSE Load(i)
    BY <1>2, LoadOfOneMore
  <1>4. Wrapped' = IF Wrapped = NumIsolates - 1 THEN 0 ELSE Wrapped + 1
    <2>1. Wrapped' = IF nextIsolate' = NumIsolates THEN 0 ELSE nextIsolate'
      BY DEF Wrapped
    <2>. QED
      BY <1>2, <2>1
  <1>5. \A i \in Isolates : Load(i) = IF HadTurn(s, i) THEN b + 1 ELSE b
    BY <1>1 DEF InRound
  <1>6. ~ HadTurn(s, Wrapped)
    BY <1>2 DEF HadTurn
  <1>7. CASE Wrapped' = s
    <2>1. \A i \in Isolates : i # Wrapped => HadTurn(s, i)
      BY <1>2, <1>4, <1>7 DEF HadTurn
    <2>2. \A i \in Isolates : Load(i)' = b + 1
      BY <1>3, <1>5, <1>6, <2>1
    <2>3. \A i \in Isolates : ~ HadTurn(s, i)'
      BY <1>2, <1>7 DEF HadTurn
    <2>. QED
      BY <1>1, <2>2, <2>3 DEF Spread, InRound
  <1>8. CASE Wrapped' # s
    <2>1. \A i \in Isolates : HadTurn(s, i)' <=> i = Wrapped \/ HadTurn(s, i)
      BY <1>2, <1>4, <1>8 DEF HadTurn
    <2>2. \A i \in Isolates : Load(i)' = IF HadTurn(s, i)' THEN b + 1 ELSE b
      BY <1>3, <1>5, <1>6, <2>1
    <2>. QED
      BY <1>1, <2>2 DEF Spread, InRound
  <1>. QED
    BY <1>7, <1>8

\* Where no conv has an isolate, a round begins.
NewRound == convs = [c \in Convs |-> NoIsolate] => Spread

\* No isolate has any conv then, so none is ahead of another.
LEMMA RoundsBegin ==
  ASSUME TypeOK
  PROVE  NewRound
  <1> SUFFICES ASSUME convs = [c \in Convs |-> NoIsolate] PROVE Spread
    BY DEF NewRound
  <1>1. Wrapped \in Isolates
    BY DEF TypeOK, Wrapped, Isolates
  <1>2. \A i \in Isolates : {c \in Convs : convs[c] = i} = {}
    BY DEF Isolates
  <1>3. \A i \in Isolates : Load(i) = 0
    BY <1>2, FS_EmptySet DEF Load
  <1>4. \A i \in Isolates : ~ HadTurn(Wrapped, i)
    BY <1>1 DEF HadTurn, Isolates
  <1>. QED
    BY <1>1, <1>3, <1>4 DEF Spread, InRound

\* Every step keeps the round: compile goes on with it, cleanData begins a new one.
LEMMA SpreadStep ==
  ASSUME RegistryInv, NewRound', Spread, [Next]_vars
  PROVE  Spread'
  <1>1. TypeOK
    BY DEF RegistryInv
  <1>2. ASSUME UNCHANGED <<convs, nextIsolate>> PROVE Spread'
    <2>1. PICK s \in Isolates, b \in Nat : InRound(s, b)
      BY DEF Spread
    <2>2. ASSUME NEW i \in Isolates PROVE Load(i)' = Load(i) /\ (HadTurn(s, i)' <=> HadTurn(s, i))
      BY <1>2 DEF Load, HadTurn, Wrapped
    <2>3. InRound(s, b)'
      BY <2>1, <2>2 DEF InRound
    <2>. QED
      BY <2>3 DEF Spread
  <1>3. ASSUME NEW t \in Threads, BeginCompile(t) PROVE Spread'
    <2>1. pair[t][1] \in Convs
      BY <1>3, ConvOfPair DEF BeginCompile, Goto, RegistryInv, MapInv, Knows
    <2>2. PICK c \in Convs : c = pair[t][1]
      BY <2>1
    <2>3. convs' = [convs EXCEPT ![c] = IsolateFor(c)] /\ nextIsolate' = Advanced(c)
      BY <1>3, <2>2 DEF BeginCompile
    <2>4. CASE convs[c] = NoIsolate
      BY <1>1, <2>3, <2>4, NextInRound DEF IsolateFor, Advanced
    <2>5. CASE convs[c] # NoIsolate
      BY <1>1, <1>2, <2>3, <2>5 DEF IsolateFor, Advanced, TypeOK
    <2>. QED
      BY <2>4, <2>5
  <1>4. ASSUME NEW t \in Threads, CleanData(t) PROVE Spread'
    BY <1>4 DEF CleanData, NewRound
  <1>5. ASSUME NEW t \in Threads, Calls(t) PROVE Spread'
    BY <1>2, <1>4, <1>5 DEF Calls, Invoke, mapVars
  <1>6. ASSUME NEW t \in Threads, Step(t), ~ BeginCompile(t) PROVE UNCHANGED <<convs, nextIsolate>>
    BY <1>6 DEF Step, EndCompile, Remove, LockShared, Find, NotFound, Enter, NotFunction, BadInput,
       Call, EndCall, Leave, EndCheck, mapVars
  <1>. QED
    BY <1>2, <1>3, <1>5, <1>6 DEF Next, vars, mapVars

\* No isolate has more than one conv more than another, for any number of them and
\* whatever is compiled again or cleaned in between.
THEOREM RoundRobinIsEven == Spec => []ConvsAreSpread
  <1>1. RegistryInv => NewRound
    BY RoundsBegin DEF RegistryInv
  <1>2. Init => Spread
    BY RegistryInitially, RoundsBegin DEF Init, NewRound, RegistryInv
  <1>3. RegistryInv /\ NewRound' /\ Spread /\ [Next]_vars => Spread'
    BY SpreadStep
  <1>4. Spread => ConvsAreSpread
    BY DEF Spread, InRound, ConvsAreSpread
  <1>. QED
    BY <1>1, <1>2, <1>3, <1>4, RegistryInvariant, PTL DEF Spec

-----------------------------------------------------------------------------
\* The registry implements ScriptStore.

\* The registry starts where the store does.
LEMMA StoreInitially == Init => Store!StoreInit
  BY DEF Init, Store!StoreInit, Asked, Running

\* What a thread asks is its own affair.
LEMMA AskedAlone ==
  ASSUME NEW t \in Threads, NEW x,
         \A u \in Threads : (IF Running(u) THEN pair[u] ELSE <<>>)'
                             = IF u = t THEN x ELSE Asked[u]
  PROVE  Asked' = [Asked EXCEPT ![t] = x]
  BY DEF Asked

LEMMA AskedUnchanged ==
  ASSUME UNCHANGED pair, \A u \in Threads : Running(u)' <=> Running(u)
  PROVE  UNCHANGED Asked
  BY DEF Asked

\* Every step of the registry is a step of the store or changes nothing in it.
LEMMA StoreStep == RegistryInv /\ [Next]_vars => [Store!StoreNext]_(Store!storeVars)
  <1> SUFFICES ASSUME RegistryInv, [Next]_vars
               PROVE  Store!StoreNext \/ UNCHANGED <<functions, Asked, answer>>
    BY DEF Store!storeVars
  <1> USE ConvOfPair
      DEF RegistryInv, TypeOK, MapInv, Knows, Running, SharedPcs, InsidePcs,
          mapVars, lockVars, Goto
  <1>0. \A u \in Threads : Asked[u] = IF Running(u) THEN pair[u] ELSE <<>>
    BY DEF Asked
  <1>1. ASSUME NEW t \in Threads, NEW p \in Pairs, Invoke(t, "run", p)
        PROVE  Store!Ask(t, p)
    <2>1. Asked[t] = <<>> /\ UNCHANGED <<functions, answer>>
      BY <1>0, <1>1 DEF Invoke
    <2>2. Asked' = [Asked EXCEPT ![t] = p]
      <3>1. \A u \in Threads : (IF Running(u) THEN pair[u] ELSE <<>>)'
                                  = IF u = t THEN p ELSE Asked[u]
        BY <1>0, <1>1 DEF Invoke
      <3>. QED
        BY <3>1, AskedAlone
    <2>. QED
      BY <2>1, <2>2 DEF Store!Ask
  <1>2. ASSUME NEW t \in Threads, NEW p \in Pairs \cup {<<>>},
               NEW op \in {"compile", "remove", "check"}, Invoke(t, op, p)
        PROVE  UNCHANGED <<functions, Asked, answer>>
    BY <1>2 DEF Invoke, Asked
  <1>3. ASSUME NEW t \in Threads, CleanData(t) PROVE Store!Forget
    BY <1>3 DEF CleanData, Store!Forget, Asked
  <1>4. ASSUME NEW t \in Threads, BeginCompile(t)
        PROVE  Store!StoreNext \/ UNCHANGED <<functions, Asked, answer>>
    <2>1. pair[t] \in Pairs
      BY <1>4 DEF BeginCompile
    <2>2. Store!Break(pair[t]) \/ UNCHANGED <<functions, Asked, answer>>
      BY <1>4, <2>1 DEF BeginCompile, Reset, Store!Break, Asked
    <2>. QED
      BY <2>1, <2>2 DEF Store!StoreNext
  <1>5. ASSUME NEW t \in Threads, NEW s \in Scripts, NEW ok \in BOOLEAN, EndCompile(t, s, ok)
        PROVE  Store!StoreNext \/ UNCHANGED <<functions, Asked, answer>>
    <2>1. pair[t] \in Pairs
      BY <1>5 DEF EndCompile
    <2>2. Store!Define(pair[t], s) \/ UNCHANGED <<functions, Asked, answer>>
      BY <1>5, <2>1 DEF EndCompile, Done, Store!Define, Asked
    <2>. QED
      BY <2>1, <2>2 DEF Store!StoreNext
  <1>6. ASSUME NEW t \in Threads, Remove(t)
        PROVE  Store!StoreNext \/ UNCHANGED <<functions, Asked, answer>>
    <2>1. pair[t] \in Pairs
      BY <1>6 DEF Remove
    <2>2. Store!Break(pair[t]) \/ UNCHANGED <<functions, Asked, answer>>
      BY <1>6, <2>1 DEF Remove, Done, Reset, Store!Break, Asked
    <2>. QED
      BY <2>1, <2>2 DEF Store!StoreNext
  <1>7. ASSUME NEW t \in Threads, LockShared(t) \/ Find(t) \/ Enter(t) \/ BadInput(t) \/ EndCall(t)
        PROVE  UNCHANGED <<functions, Asked, answer>>
    BY <1>7, AskedUnchanged DEF LockShared, Find, Enter, BadInput, EndCall
  <1>8. ASSUME NEW t \in Threads, NotFound(t) PROVE Store!Answer(t)
    <2>1. Asked[t] = pair[t] /\ pair[t] # <<>>
      BY <1>0, <1>8 DEF NotFound
    <2>2. UNCHANGED Asked
      BY <1>8, AskedUnchanged DEF NotFound
    <2>3. answer[t] = NoAnswer /\ answer' = [answer EXCEPT ![t] = functions[pair[t]]]
      BY <1>8 DEF NotFound
    <2>. QED
      BY <1>8, <2>1, <2>2, <2>3 DEF NotFound, Store!Answer
  <1>9. ASSUME NEW t \in Threads, NotFunction(t) PROVE Store!Answer(t)
    <2>1. Asked[t] = pair[t] /\ pair[t] # <<>>
      BY <1>0, <1>9 DEF NotFunction
    <2>2. UNCHANGED Asked
      BY <1>9, AskedUnchanged DEF NotFunction
    <2>3. answer[t] = NoAnswer /\ answer' = [answer EXCEPT ![t] = functions[pair[t]]]
      BY <1>9 DEF NotFunction
    <2>. QED
      BY <1>9, <2>1, <2>2, <2>3 DEF NotFunction, Store!Answer
  <1>10. ASSUME NEW t \in Threads, Call(t) PROVE Store!Answer(t)
    <2>1. Asked[t] = pair[t] /\ pair[t] # <<>>
      BY <1>0, <1>10 DEF Call
    <2>2. UNCHANGED Asked
      BY <1>10, AskedUnchanged DEF Call
    <2>3. answer[t] = NoAnswer /\ answer' = [answer EXCEPT ![t] = functions[pair[t]]]
      BY <1>10 DEF Call
    <2>. QED
      BY <1>10, <2>1, <2>2, <2>3 DEF Call, Store!Answer
  <1>11. ASSUME NEW t \in Threads, Leave(t) PROVE Store!Return(t)
    <2>1. Asked[t] = pair[t] /\ pair[t] # <<>>
      BY <1>0, <1>11 DEF Leave
    <2>2. Asked' = [Asked EXCEPT ![t] = <<>>]
      <3>1. \A u \in Threads : (IF Running(u) THEN pair[u] ELSE <<>>)'
                                  = IF u = t THEN <<>> ELSE Asked[u]
        BY <1>0, <1>11 DEF Leave, Done
      <3>. QED
        BY <3>1, AskedAlone
    <2>. QED
      BY <1>11, <2>1, <2>2 DEF Leave, Store!Return
  <1>12. ASSUME NEW t \in Threads, EndCheck(t) PROVE UNCHANGED <<functions, Asked, answer>>
    BY <1>12 DEF EndCheck, Done, Asked
  <1>13. CASE UNCHANGED vars
    BY <1>13 DEF vars, Asked
  <1>14. ASSUME NEW t \in Threads, Calls(t)
         PROVE  Store!StoreNext \/ UNCHANGED <<functions, Asked, answer>>
    BY <1>1, <1>2, <1>3, <1>14 DEF Calls, Store!StoreNext
  <1>15. ASSUME NEW t \in Threads, Step(t)
         PROVE  Store!StoreNext \/ UNCHANGED <<functions, Asked, answer>>
    BY <1>4, <1>5, <1>6, <1>7, <1>8, <1>9, <1>10, <1>11, <1>12, <1>15 DEF Step, Store!StoreNext
  <1>. QED
    BY <1>13, <1>14, <1>15 DEF Next

\* Every answer of run is what its pair held at one moment during the run, and a pair
\* changes only by a compile, a remove or a cleanData.
THEOREM RegistryImplementsStore == Spec => StoreSpec
  BY RegistryInvariant, StoreInitially, StoreStep, PTL DEF Spec, StoreSpec, Store!StoreSpec
=============================================================================
