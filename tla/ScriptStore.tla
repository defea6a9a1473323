---------------------------- MODULE ScriptStore ----------------------------
(***************************************************************************)
(* What compile, remove and run of src/v8runner.cpp promise together, with *)
(* no lock and no isolate in it: a map from pairs (conv, node) to scripts, *)
(* and answers to run that give the map's content at one moment between    *)
(* the question and the answer.                                            *)
(***************************************************************************)
CONSTANTS Pairs, Scripts, Threads,
          Unknown,   \* the pair was never compiled
          Broken,    \* it was, but holds no function now
          NoPair, NoAnswer

VARIABLES content,   \* what each pair holds
          asked,     \* the pair each thread is running, if any
          answer     \* what that run has found, if anything yet

storeVars == <<content, asked, answer>>

StoreInit == /\ content = [p \in Pairs |-> Unknown]
             /\ asked = [t \in Threads |-> NoPair]
             /\ answer = [t \in Threads |-> NoAnswer]

\* remove, and the first half of compile: the old function is dropped.
Break(p) == /\ content[p] # Unknown
            /\ content' = [content EXCEPT ![p] = Broken]
            /\ UNCHANGED <<asked, answer>>

\* The second half of a compile that succeeds.
Define(p, s) == /\ content[p] \in {Unknown, Broken}
                /\ content' = [content EXCEPT ![p] = s]
                /\ UNCHANGED <<asked, answer>>

\* cleanData.
Forget == /\ content' = [p \in Pairs |-> Unknown]
          /\ UNCHANGED <<asked, answer>>

\* run is called,
Ask(t, p) == /\ asked[t] = NoPair
             /\ asked' = [asked EXCEPT ![t] = p]
             /\ UNCHANGED <<content, answer>>

\* looks its pair up,
Answer(t) == /\ asked[t] # NoPair /\ answer[t] = NoAnswer
             /\ answer' = [answer EXCEPT ![t] = content[asked[t]]]
             /\ UNCHANGED <<content, asked>>

\* and returns; if its input was bad it returns without an answer.
Return(t) == /\ asked[t] # NoPair
             /\ asked' = [asked EXCEPT ![t] = NoPair]
             /\ answer' = [answer EXCEPT ![t] = NoAnswer]
             /\ UNCHANGED content

StoreNext == \/ \E p \in Pairs : Break(p) \/ \E s \in Scripts : Define(p, s)
             \/ Forget
             \/ \E t \in Threads : Answer(t) \/ Return(t) \/ \E p \in Pairs : Ask(t, p)

StoreSpec == StoreInit /\ [][StoreNext]_storeVars
=============================================================================
