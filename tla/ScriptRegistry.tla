--------------------------- MODULE ScriptRegistry ---------------------------
(***************************************************************************)
(* _compile, _remove, _run and cleanData of src/v8runner.cpp: the maps     *)
(* _convs and _functions, the isolates, and the two kinds of lock around   *)
(* them.  _compileMutex is a reader-writer lock taken for the whole of an  *)
(* operation; the v8::Locker of an isolate lets one thread at a time into  *)
(* it.  What a script computes is left out: a script is a member of        *)
(* Scripts, and compiling it gives its function or fails.                  *)
(***************************************************************************)
EXTENDS Integers, FiniteSets

CONSTANTS Threads, Convs, Nodes, Scripts,
          NumIsolates,   \* the constructor's threadsCount
          NoThread, NoIsolate,
          Absent,        \* no entry in _functions
          Empty,         \* an entry whose handle was Reset
          NoAnswer

ASSUME ThreadsAssumption == IsFiniteSet(Threads) /\ NoThread \notin Threads
ASSUME NumIsolatesAssumption == NumIsolates \in Nat \ {0}
ASSUME ConvsAssumption == IsFiniteSet(Convs)
ASSUME MarksAssumption == /\ NoIsolate \notin 0..NumIsolates
                          /\ Absent # Empty /\ NoAnswer \notin Scripts \cup {Absent, Empty}
                          /\ Scripts \cap {Absent, Empty} = {}

Isolates == 0..NumIsolates - 1
Pairs == Convs \X Nodes

VARIABLES
  convs,       \* _convs: the isolate of each conv
  functions,   \* _functions: the script of each pair's function
  home,        \* the isolate each of those functions belongs to
  nextIsolate, \* the static variable of getIsolate
  sharing,     \* the threads with the shared side of _compileMutex
  writer,      \* the thread with its unique side
  locker,      \* the thread inside each isolate
  pc, pair,    \* where each thread is, and the pair it was called with
  isolate,     \* the isolate it is in
  answer       \* what run has found for the caller

mapVars == <<convs, functions, home, nextIsolate>>
lockVars == <<sharing, writer, locker>>
vars == <<mapVars, lockVars, pc, pair, isolate, answer>>

Pcs == {"idle", "check", "compile", "define", "remove", "run", "find", "enter", "test", "call", "leave"}

Init == /\ convs = [c \in Convs |-> NoIsolate]
        /\ functions = [p \in Pairs |-> Absent]
        /\ home = [p \in Pairs |-> NoIsolate]
        /\ nextIsolate = 0
        /\ sharing = {} /\ writer = NoThread
        /\ locker = [i \in Isolates |-> NoThread]
        /\ pc = [t \in Threads |-> "idle"]
        /\ pair = [t \in Threads |-> <<>>]
        /\ isolate = [t \in Threads |-> NoIsolate]
        /\ answer = [t \in Threads |-> NoAnswer]

Goto(t, from, to) == pc[t] = from /\ pc' = [pc EXCEPT ![t] = to]

-----------------------------------------------------------------------------
\* The calls.

Invoke(t, op, p) == /\ Goto(t, "idle", op)
                    /\ pair' = [pair EXCEPT ![t] = p]
                    /\ UNCHANGED <<mapVars, lockVars, isolate, answer>>

\* The call returns, and its locals are gone.
Done(t) == /\ pc' = [pc EXCEPT ![t] = "idle"]
           /\ pair' = [pair EXCEPT ![t] = <<>>]
           /\ isolate' = [isolate EXCEPT ![t] = NoIsolate]

\* The unique side of _compileMutex is free for the taking.
Unlocked == writer = NoThread /\ sharing = {}

-----------------------------------------------------------------------------
\* _compile.

\* Mutant: the wrap comes one isolate too early.
WrapEarly == IF nextIsolate = NumIsolates - 1 THEN 0 ELSE nextIsolate

\* getIsolate: the wrap happens on the next call.
Wrapped == IF nextIsolate = NumIsolates THEN 0 ELSE nextIsolate

\* Mutant: every compile takes the next isolate.
AlwaysNext(c) == Wrapped

\* The isolate of a conv: its own, or the next one for a new conv.
IsolateFor(c) == IF convs[c] = NoIsolate THEN Wrapped ELSE convs[c]

\* Mutant: the counter moves on with every compile.
AdvanceAlways(c) == nextIsolate + 1

\* nextIsolate after a compile of the conv.
Advanced(c) == IF convs[c] = NoIsolate THEN Wrapped + 1 ELSE nextIsolate

\* Mutant: the old function stays until the new one replaces it.
KeepOld(p) == UNCHANGED functions

\* The old function of the pair is Reset.
Reset(p) == functions' = IF functions[p] = Absent THEN functions
                         ELSE [functions EXCEPT ![p] = Empty]

\* Under the unique lock and the Locker of the conv's isolate: the conv gets its
\* isolate, the old function is dropped, and the script is compiled and run.
BeginCompile(t) ==
  LET c == pair[t][1]
  IN  /\ Goto(t, "compile", "define")
      /\ Unlocked
      /\ locker[IsolateFor(c)] = NoThread
      /\ writer' = t
      /\ locker' = [locker EXCEPT ![IsolateFor(c)] = t]
      /\ isolate' = [isolate EXCEPT ![t] = IsolateFor(c)]
      /\ convs' = [convs EXCEPT ![c] = IsolateFor(c)]
      /\ nextIsolate' = Advanced(c)
      /\ Reset(pair[t])
      /\ UNCHANGED <<home, sharing, pair, answer>>

\* Mutant: a failed compile returns without unlocking.
HeldOnError(t, ok) == IF ok THEN NoThread ELSE t

\* Both ways out of _compile release _compileMutex.
Released(t, ok) == NoThread

\* The source was s: its value is stored as the pair's function; or Script::Compile
\* or Run fails, and nothing is stored.  Both locks are released.
EndCompile(t, s, ok) ==
  /\ pc[t] = "define"
  /\ functions' = IF ok THEN [functions EXCEPT ![pair[t]] = s] ELSE functions
  /\ home' = IF ok THEN [home EXCEPT ![pair[t]] = isolate[t]] ELSE home
  /\ writer' = Released(t, ok)
  /\ locker' = [locker EXCEPT ![isolate[t]] = NoThread]
  /\ Done(t)
  /\ UNCHANGED <<convs, nextIsolate, sharing, answer>>

-----------------------------------------------------------------------------
\* _remove and cleanData, each within one hold of the unique lock.

\* An unknown conv has no function to reset.
Remove(t) ==
  /\ pc[t] = "remove"
  /\ Unlocked
  /\ IF convs[pair[t][1]] = NoIsolate THEN UNCHANGED functions
     ELSE locker[convs[pair[t][1]]] = NoThread /\ Reset(pair[t])
  /\ Done(t)
  /\ UNCHANGED <<convs, home, nextIsolate, lockVars, answer>>

\* Mutant: the functions are reset but stay in the map.
CleanConvsOnly(t) ==
  /\ pc[t] = "idle"
  /\ Unlocked
  /\ convs' = [c \in Convs |-> NoIsolate]
  /\ functions' = [p \in Pairs |-> IF functions[p] = Absent THEN Absent ELSE Empty]
  /\ UNCHANGED <<home, nextIsolate, lockVars, pc, pair, isolate, answer>>

\* nextIsolate is static and stays where it is.
CleanData(t) ==
  /\ pc[t] = "idle"
  /\ Unlocked
  /\ convs' = [c \in Convs |-> NoIsolate]
  /\ functions' = [p \in Pairs |-> Absent]
  /\ home' = [p \in Pairs |-> NoIsolate]
  /\ UNCHANGED <<nextIsolate, lockVars, pc, pair, isolate, answer>>

-----------------------------------------------------------------------------
\* _run, under the shared side of _compileMutex throughout.

LockShared(t) == /\ Goto(t, "run", "find")
                 /\ writer = NoThread
                 /\ sharing' = sharing \cup {t}
                 /\ UNCHANGED <<mapVars, writer, locker, pair, isolate, answer>>

\* Mutant: the shared lock is let go of once the pair is found.
FindAndUnlock(t) ==
  /\ Goto(t, "find", "enter")
  /\ functions[pair[t]] # Absent
  /\ isolate' = [isolate EXCEPT ![t] = convs[pair[t][1]]]
  /\ sharing' = sharing \ {t}
  /\ UNCHANGED <<mapVars, writer, locker, pair, answer>>

\* _functions.find, then _convs[conv].
Find(t) == /\ Goto(t, "find", "enter")
           /\ functions[pair[t]] # Absent
           /\ isolate' = [isolate EXCEPT ![t] = convs[pair[t][1]]]
           /\ UNCHANGED <<mapVars, lockVars, pair, answer>>

\* NOT_FOUND_PAIR_ERR.
NotFound(t) == /\ Goto(t, "find", "leave")
               /\ functions[pair[t]] = Absent
               /\ answer' = [answer EXCEPT ![t] = Absent]
               /\ UNCHANGED <<mapVars, lockVars, pair, isolate>>

\* Mutant: run enters the isolate without its Locker.
EnterUnlocked(t) ==
  /\ Goto(t, "enter", "test")
  /\ locker' = [locker EXCEPT ![isolate[t]] = t]
  /\ UNCHANGED <<mapVars, sharing, writer, pair, isolate, answer>>

\* v8::Locker locker(isolate): it may have to wait for another run.
Enter(t) == /\ Goto(t, "enter", "test")
            /\ locker[isolate[t]] = NoThread
            /\ locker' = [locker EXCEPT ![isolate[t]] = t]
            /\ UNCHANGED <<mapVars, sharing, writer, pair, isolate, answer>>

\* pFunc.IsEmpty(): NOT_FUNCTION_ERR.
NotFunction(t) == /\ Goto(t, "test", "leave")
                  /\ functions[pair[t]] = Empty
                  /\ answer' = [answer EXCEPT ![t] = Empty]
                  /\ UNCHANGED <<mapVars, lockVars, pair, isolate>>

\* BAD_INPUT_ERR: the data is no JSON, and nothing is called.
BadInput(t) == /\ Goto(t, "test", "leave")
               /\ functions[pair[t]] # Empty
               /\ UNCHANGED <<mapVars, lockVars, pair, isolate, answer>>

\* The function is called, and runs until it returns, throws or is terminated.
Call(t) == /\ Goto(t, "test", "call")
           /\ functions[pair[t]] # Empty
           /\ answer' = [answer EXCEPT ![t] = functions[pair[t]]]
           /\ UNCHANGED <<mapVars, lockVars, pair, isolate>>

EndCall(t) == /\ Goto(t, "call", "leave")
              /\ UNCHANGED <<mapVars, lockVars, pair, isolate, answer>>

\* Both locks are released and the answer goes to the caller.
Leave(t) == /\ pc[t] = "leave"
            /\ locker' = [i \in Isolates |-> IF i = isolate[t] THEN NoThread ELSE locker[i]]
            /\ sharing' = sharing \ {t}
            /\ answer' = [answer EXCEPT ![t] = NoAnswer]
            /\ Done(t)
            /\ UNCHANGED <<mapVars, writer>>

\* _checkCode: the script is compiled and run in an isolate of its own, which is
\* made before and disposed of after, under no lock of the others.
EndCheck(t) == /\ pc[t] = "check"
               /\ Done(t)
               /\ UNCHANGED <<mapVars, lockVars, answer>>

-----------------------------------------------------------------------------
\* What a thread is called with, and what it does about it.
Calls(t) == \/ \E op \in {"compile", "remove", "run"}, p \in Pairs : Invoke(t, op, p)
            \/ Invoke(t, "check", <<>>)
            \/ CleanData(t)

Step(t) == \/ BeginCompile(t) \/ \E s \in Scripts, ok \in BOOLEAN : EndCompile(t, s, ok)
           \/ Remove(t)
           \/ LockShared(t) \/ Find(t) \/ NotFound(t) \/ Enter(t)
           \/ NotFunction(t) \/ BadInput(t) \/ Call(t) \/ EndCall(t) \/ Leave(t)
           \/ EndCheck(t)

Next == \E t \in Threads : Calls(t) \/ Step(t)

Spec == Init /\ [][Next]_vars

-----------------------------------------------------------------------------
\* Properties.

\* Every variable has its type; nextIsolate may stand one past the last isolate.
TypeOK ==
  /\ convs \in [Convs -> Isolates \cup {NoIsolate}]
  /\ functions \in [Pairs -> Scripts \cup {Absent, Empty}]
  /\ home \in [Pairs -> Isolates \cup {NoIsolate}]
  /\ nextIsolate \in 0..NumIsolates
  /\ sharing \subseteq Threads /\ writer \in Threads \cup {NoThread}
  /\ locker \in [Isolates -> Threads \cup {NoThread}]
  /\ pc \in [Threads -> Pcs]
  /\ pair \in [Threads -> Pairs \cup {<<>>}]
  /\ isolate \in [Threads -> Isolates \cup {NoIsolate}]
  /\ answer \in [Threads -> Scripts \cup {Absent, Empty, NoAnswer}]

\* A function is only ever touched in the isolate it was compiled in ("compile
\* the same conv withing the same isolate", v8runner.cpp:320), and a thread that
\* calls it is alone in there and calls what the map holds.
CallsAtHome ==
  \A t \in Threads :
    pc[t] = "call" => /\ isolate[t] = home[pair[t]]
                      /\ locker[isolate[t]] = t
                      /\ answer[t] = functions[pair[t]]

\* Every pair in _functions has its conv in _convs: _convs[conv] in _run, which
\* other runs execute at the same time, finds its entry and never inserts one.
EveryFunctionHasAConv ==
  \A p \in Pairs : functions[p] # Absent => convs[p[1]] # NoIsolate

\* Who is in an isolate holds _compileMutex, so compile and remove, once they
\* have it, never wait for a Locker.
WritersFindIsolatesFree ==
  \A i \in Isolates : locker[i] # NoThread => locker[i] \in sharing \cup {writer}

\* The Locker gives a thread the isolate to itself: no two threads are in one.
InV8(t) == pc[t] \in {"define", "test", "call"}
OneThreadPerIsolate ==
  \A t, u \in Threads : t # u /\ InV8(t) /\ InV8(u) => isolate[t] # isolate[u]

\* getIsolate spreads the convs evenly, whatever is compiled again, removed or
\* cleaned in between.
Load(i) == Cardinality({c \in Convs : convs[c] = i})
ConvsAreSpread == \A i, j \in Isolates : Load(i) - Load(j) <= 1

\* Together the operations implement the store of ScriptStore: every answer is
\* what the pair asked for held at one moment during the run, and a pair changes
\* only by a compile, a remove or a cleanData.
Running(t) == pc[t] \in {"run", "find", "enter", "test", "call", "leave"}
Asked == [t \in Threads |-> IF Running(t) THEN pair[t] ELSE <<>>]
Store == INSTANCE ScriptStore WITH Unknown <- Absent, Broken <- Empty, NoPair <- <<>>,
                                   content <- functions, asked <- Asked
StoreSpec == Store!StoreSpec
=============================================================================
