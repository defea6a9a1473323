-------------------------- MODULE CommandService --------------------------
(***************************************************************************)
(* What the C node promises the Erlang processes that send it commands on  *)
(* one pair (conv, node): every command received is answered once; one     *)
(* that was refused has done nothing; any other took effect all at once,   *)
(* at a moment between the request and its answer.  There is no queue, no  *)
(* thread and no clock in it.                                              *)
(***************************************************************************)
CONSTANTS Requests, CommandNames,
          Refusals,   \* the answers that mean the command was not carried out
          Absent,     \* the pair was never compiled
          Empty,      \* it holds no function any more
          NoCommand, NoResult

VARIABLES content,    \* the compile whose function the pair holds, if any
          command,    \* what each request asks for, once it is received
          result,     \* its outcome, once there is one
          answered    \* the requests whose answer was sent

serviceVars == <<content, command, result, answered>>

ServiceInit == /\ content = Absent
               /\ command = [r \in Requests |-> NoCommand]
               /\ result = [r \in Requests |-> NoResult]
               /\ answered = {}

Accept(r) == /\ command[r] = NoCommand
             /\ \E c \in CommandNames : command' = [command EXCEPT ![r] = c]
             /\ UNCHANGED <<content, result, answered>>

Decide(r, x) == /\ command[r] # NoCommand /\ result[r] = NoResult
                /\ result' = [result EXCEPT ![r] = x]
                /\ UNCHANGED command

Refuse(r) == /\ \E x \in Refusals : Decide(r, x)
             /\ UNCHANGED content

\* The old function is gone even if the new one does not compile.
Dropped == IF content = Absent THEN Absent ELSE Empty

Compile(r) == /\ command[r] = "compile"
              /\ \/ Decide(r, "OK") /\ content' = r
                 \/ Decide(r, "COMPILE_ERR") /\ content' = Dropped

Remove(r) == /\ command[r] = "remove"
             /\ Decide(r, "OK")
             /\ content' = Dropped

\* A run finds what the pair holds, be it a function or none.
Run(r) == /\ command[r] = "run"
          /\ Decide(r, content)
          /\ UNCHANGED content

Other(r) == /\ command[r] \notin {"compile", "remove", "run"}
            /\ \E x \in {"OK", "COMPILE_ERR", "ERR"} : Decide(r, x)
            /\ UNCHANGED content

Carry(r) == Refuse(r) \/ Compile(r) \/ Remove(r) \/ Run(r) \/ Other(r)

\* A command may be carried out and answered in one step.
Answer(r) == /\ r \notin answered
             /\ answered' = answered \cup {r}
             /\ \/ result[r] # NoResult /\ UNCHANGED <<content, command, result>>
                \/ Carry(r)

\* The node ends, when everything it has received is answered.
Stop == /\ \A r \in Requests : command[r] # NoCommand => r \in answered
        /\ content' = Absent
        /\ UNCHANGED <<command, result, answered>>

ServiceNext == \/ Stop
               \/ \E r \in Requests : \/ Accept(r) \/ Answer(r)
                                      \/ Carry(r) /\ UNCHANGED answered

ServiceSpec == ServiceInit /\ [][ServiceNext]_serviceVars
===========================================================================
