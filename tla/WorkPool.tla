------------------------------ MODULE WorkPool ------------------------------
(***************************************************************************)
(* What ghexbench::thread_pool promises to the one thread that calls it       *)
(* (src/src/thread_pool.cpp): every worker runs the jobs accepted for it one   *)
(* by one, in the order they were accepted; sync ends only when the jobs       *)
(* accepted before it have been finished, join only when all have, and then    *)
(* no more are accepted.  There are no queues, mutexes or notifications here.  *)
(***************************************************************************)
EXTENDS Naturals

CONSTANT Worker

VARIABLES accepted,  \* the number of jobs accepted for each worker
          running,   \* the job a worker is in, 0 if none
          finished,  \* the last job that each worker has finished
          promised,  \* what sync has to wait for
          joined,
          call       \* the call that is going on

vars == <<accepted, running, finished, promised, joined, call>>

Init == /\ accepted = [t \in Worker |-> 0]
        /\ running = [t \in Worker |-> 0]
        /\ finished = [t \in Worker |-> 0]
        /\ promised = [t \in Worker |-> 0]
        /\ joined = FALSE
        /\ call = "none"

Begin(c) == /\ call = "none"
            /\ call' = c
            /\ promised' = IF c = "sync" THEN accepted ELSE promised
            /\ UNCHANGED <<accepted, running, finished, joined>>

\* The one job of a schedule, or those that sync gives the workers for itself.
Accept(t) == /\ call \in {"schedule", "sync"} /\ ~joined
             /\ accepted' = [accepted EXCEPT ![t] = @ + 1]
             /\ call' = IF call = "schedule" THEN "scheduled" ELSE call
             /\ UNCHANGED <<running, finished, promised, joined>>

Start(t) == /\ running[t] = 0 /\ finished[t] < accepted[t]
            /\ running' = [running EXCEPT ![t] = finished[t] + 1]
            /\ UNCHANGED <<accepted, finished, promised, joined, call>>

Finish(t) == /\ running[t] # 0
             /\ finished' = [finished EXCEPT ![t] = running[t]]
             /\ running' = [running EXCEPT ![t] = 0]
             /\ UNCHANGED <<accepted, promised, joined, call>>

EndSchedule == /\ call = "scheduled" /\ call' = "none"
               /\ UNCHANGED <<accepted, running, finished, promised, joined>>

EndSync == /\ call = "sync" /\ call' = "none"
           /\ \A t \in Worker : promised[t] <= finished[t]
           /\ UNCHANGED <<accepted, running, finished, promised, joined>>

EndJoin == /\ call = "join" /\ call' = "none"
           /\ \A t \in Worker : finished[t] = accepted[t]
           /\ joined' = TRUE
           /\ UNCHANGED <<accepted, running, finished, promised>>

Next == \/ \E c \in {"schedule", "sync", "join"} : Begin(c)
        \/ \E t \in Worker : Accept(t) \/ Start(t) \/ Finish(t)
        \/ EndSchedule \/ EndSync \/ EndJoin

Spec == Init /\ [][Next]_vars
=============================================================================
