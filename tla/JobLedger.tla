----------------------------- MODULE JobLedger -----------------------------
(***************************************************************************)
(* What the thread pool of include/threadpool.h promises its callers, with *)
(* no thread, lock or condition variable in it: a job is refused only when *)
(* the counter is at the limit; one that was accepted is started at most   *)
(* once and never before a waiting job of higher priority; the counter     *)
(* never says less than what is queued and running, so callers together    *)
(* pass the limit by one job each at most; and the pool is closed only     *)
(* when nothing runs, when the counter says what is left in the queue and, *)
(* if the caller of joinAll asked to wait, when that is nothing.           *)
(***************************************************************************)
EXTENDS Integers, FiniteSets

CONSTANTS Jobs,          \* the jobs callers may hand to the pool
          Callers,       \* the number of threads that may call addJob at once
          MaxQueueSize   \* the limit the pool is given

VARIABLES fate,       \* of each job: "new", "refused", "queued", "running" or "done"
          left,       \* the pool's count of the jobs that are not done
          priority,   \* the priority addJob was given with each job
          phase       \* "open", after joinAll "draining" or "abandoning", then "closed"

ledgerVars == <<fate, left, priority, phase>>

LedgerInit == /\ fate = [j \in Jobs |-> "new"]
              /\ left = 0
              /\ priority \in [Jobs -> Int]
              /\ phase = "open"

Pending == {j \in Jobs : fate[j] \in {"queued", "running"}}

Becomes(j, from, to) == fate[j] = from /\ fate' = [fate EXCEPT ![j] = to]

\* addJob returned true; the other callers may have come first since it looked.
Accept(j) == /\ phase = "open"
             /\ Becomes(j, "new", "queued")
             /\ left < MaxQueueSize + Callers - 1
             /\ left' = left + 1
             /\ priority'[j] \in Int /\ priority' = [priority EXCEPT ![j] = priority'[j]]
             /\ UNCHANGED phase

\* addJob returned false.
Refuse(j) == /\ phase = "open"
             /\ Becomes(j, "new", "refused")
             /\ left >= MaxQueueSize
             /\ UNCHANGED <<left, priority, phase>>

\* A thread of the pool has taken the job out of the queue.
Start(j) == /\ phase # "closed"
            /\ \A k \in Jobs : fate[k] = "queued" => ~ (priority[j] < priority[k])
            /\ Becomes(j, "queued", "running")
            /\ UNCHANGED <<left, priority, phase>>

\* The job's body has returned; it is counted for a while yet.
Complete(j) == /\ Becomes(j, "running", "done")
               /\ UNCHANGED <<left, priority, phase>>

\* One that is done is counted no more.
Settle == /\ Cardinality(Pending) < left
          /\ left' = left - 1
          /\ UNCHANGED <<fate, priority, phase>>

\* A thread that is to end counts an empty job.
Idle == /\ phase \in {"draining", "abandoning"}
        /\ left' = left + 1
        /\ UNCHANGED <<fate, priority, phase>>

\* joinAll(TRUE) or joinAll(FALSE) is called.
BeginClose(p) == /\ phase = "open"
                 /\ phase' = p
                 /\ UNCHANGED <<fate, left, priority>>

\* joinAll has joined every thread.
Close == /\ \/ phase = "abandoning"
            \/ phase = "draining" /\ \A j \in Jobs : fate[j] # "queued"
         /\ \A j \in Jobs : fate[j] # "running"
         /\ left = Cardinality(Pending)
         /\ phase' = "closed"
         /\ UNCHANGED <<fate, left, priority>>

LedgerNext == \/ \E j \in Jobs : Accept(j) \/ Refuse(j) \/ Start(j) \/ Complete(j)
              \/ Settle \/ Idle
              \/ \E p \in {"draining", "abandoning"} : BeginClose(p)
              \/ Close

LedgerSpec == LedgerInit /\ [][LedgerNext]_ledgerVars
=============================================================================
