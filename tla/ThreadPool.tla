----------------------------- MODULE ThreadPool -----------------------------
(***************************************************************************)
(* ghexbench::thread_pool (src/src/thread_pool.cpp): NumThreads workers, each *)
(* with a queue, a mutex and a condition variable of its own, and the main   *)
(* thread of the program, the only one that calls schedule, sync and join.   *)
(* A critical section is split where another thread can tell the difference: *)
(* main polls the queues without their mutexes, and a worker that has seen    *)
(* its predicate false has not begun to wait yet.                            *)
(*                                                                         *)
(* A job is the number of its place among the jobs accepted for its worker;  *)
(* what it computes is left out, and it ends at some time of its own.        *)
(***************************************************************************)
EXTENDS Integers, Sequences

CONSTANTS NumThreads,  \* m_num_threads
          MaxCalls     \* bound on the calls main makes

ASSUME NumThreadsAssumption == NumThreads \in Nat \ {0}
ASSUME MaxCallsAssumption == MaxCalls \in Nat

Worker == 0..(NumThreads - 1)

VARIABLES m_queue,    \* thread_wrapper::m_queue of each worker
          owner,      \* who holds thread_wrapper::m_mutex
          m_running, m_joined,
          wpc,        \* where each worker is
          running,    \* the job a worker is in, 0 if none
          mpc,        \* where main is
          op,         \* the call main is in
          target,     \* the worker that main's loop is at
          busy,       \* the count_if of sync has seen a queue with a job
          accepted,   \* number of jobs accepted for each worker
          finished,   \* the last job that each worker has finished
          promised,   \* accepted at the last call of sync
          calls       \* number of calls main has made

queueVars == <<m_queue, accepted>>
flagVars == <<m_running, m_joined>>
workVars == <<running, finished>>
mainVars == <<mpc, op, target, busy, promised, calls>>
vars == <<queueVars, owner, flagVars, wpc, workVars, mainVars>>

WorkerLocation == {"acquire", "check", "block", "waiting", "run", "exited"}
MainLocation == {"idle", "sched_lock", "sched_push", "sched_notify", "poll",
                 "join_lock", "join_stop", "join_unlock", "join_notify",
                 "join_thread"}

\* Queues hold accepted jobs only, main's loops stay within the workers.
TypeOK ==
    /\ m_queue \in [Worker -> Seq(1..MaxCalls)]
    /\ owner \in [Worker -> {"free", "worker", "main"}]
    /\ m_running \in BOOLEAN /\ m_joined \in BOOLEAN
    /\ wpc \in [Worker -> WorkerLocation]
    /\ running \in [Worker -> 0..MaxCalls]
    /\ mpc \in MainLocation
    /\ op \in {"none", "schedule", "sync", "join"}
    /\ target \in Worker
    /\ busy \in BOOLEAN
    /\ accepted \in [Worker -> 0..MaxCalls]
    /\ finished \in [Worker -> 0..MaxCalls]
    /\ promised \in [Worker -> 0..MaxCalls]
    /\ calls \in 0..MaxCalls

\* The constructor starts every worker before it returns.
Init ==
    /\ m_queue = [t \in Worker |-> <<>>]
    /\ owner = [t \in Worker |-> "free"]
    /\ m_running = TRUE /\ m_joined = FALSE
    /\ wpc = [t \in Worker |-> "acquire"]
    /\ running = [t \in Worker |-> 0]
    /\ mpc = "idle" /\ op = "none" /\ target = 0 /\ busy = FALSE
    /\ accepted = [t \in Worker |-> 0]
    /\ finished = [t \in Worker |-> 0]
    /\ promised = [t \in Worker |-> 0]
    /\ calls = 0

-----------------------------------------------------------------------------
(***************************************************************************)
(* worker_fct                                                               *)
(***************************************************************************)
Acquire(t) == /\ wpc[t] = "acquire" /\ owner[t] = "free"
              /\ wpc' = [wpc EXCEPT ![t] = "check"]
              /\ owner' = [owner EXCEPT ![t] = "worker"]
              /\ UNCHANGED <<queueVars, flagVars, workVars, mainVars>>

Unlock(t, next) == /\ wpc' = [wpc EXCEPT ![t] = next]
                   /\ owner' = [owner EXCEPT ![t] = "free"]

\* The predicate of m_cv.wait is false.
GoToSleep(t) == /\ wpc[t] = "check" /\ m_queue[t] = <<>> /\ m_running
                /\ wpc' = [wpc EXCEPT ![t] = "block"]
                /\ UNCHANGED <<queueVars, owner, flagVars, workVars, mainVars>>

Block(t) == /\ wpc[t] = "block"
            /\ Unlock(t, "waiting")
            /\ UNCHANGED <<queueVars, flagVars, workVars, mainVars>>

SpuriousWakeup(t) == /\ wpc[t] = "waiting"
                     /\ wpc' = [wpc EXCEPT ![t] = "acquire"]
                     /\ UNCHANGED <<queueVars, owner, flagVars, workVars, mainVars>>

Pop(t) == /\ wpc[t] = "check" /\ m_queue[t] # <<>>
          /\ Unlock(t, "run")
          /\ running' = [running EXCEPT ![t] = Head(m_queue[t])]
          /\ m_queue' = [m_queue EXCEPT ![t] = Tail(@)]
          /\ UNCHANGED <<accepted, flagVars, finished, mainVars>>

\* A mutation: the stop flag alone ends the loop.
ExitWhenStopped(t) == /\ wpc[t] = "check" /\ ~m_running
                      /\ Unlock(t, "exited")
                      /\ UNCHANGED <<queueVars, flagVars, workVars, mainVars>>

Exit(t) == /\ wpc[t] = "check" /\ m_queue[t] = <<>> /\ ~m_running
           /\ Unlock(t, "exited")
           /\ UNCHANGED <<queueVars, flagVars, workVars, mainVars>>

\* The job runs and returns, outside the critical section.
Run(t) == /\ wpc[t] = "run"
          /\ wpc' = [wpc EXCEPT ![t] = "acquire"]
          /\ finished' = [finished EXCEPT ![t] = running[t]]
          /\ running' = [running EXCEPT ![t] = 0]
          /\ UNCHANGED <<queueVars, owner, flagVars, mainVars>>

WorkerStep(t) == \/ Acquire(t) \/ GoToSleep(t) \/ Block(t)
                 \/ Pop(t) \/ Exit(t) \/ Run(t)

-----------------------------------------------------------------------------
(***************************************************************************)
(* The calls main makes, in any order.  Once the pool is joined, schedule    *)
(* refuses the job and join does nothing.                                   *)
(***************************************************************************)
NotifyOne(t) == wpc' = IF wpc[t] = "waiting" THEN [wpc EXCEPT ![t] = "acquire"]
                                             ELSE wpc

Begin(call, first) == /\ mpc = "idle" /\ calls < MaxCalls
                      /\ calls' = calls + 1
                      /\ op' = call /\ mpc' = first
                      /\ UNCHANGED <<queueVars, owner, flagVars, wpc, workVars>>

CallSchedule(t) == /\ Begin("schedule", IF m_joined THEN "idle" ELSE "sched_lock")
                   /\ target' = t
                   /\ UNCHANGED <<busy, promised>>

\* A mutation: sync polls the queues without scheduling an empty job first.
CallSyncPollOnly == /\ Begin("sync", "poll")
                    /\ target' = 0 /\ busy' = FALSE
                    /\ promised' = accepted

CallSync == /\ Begin("sync", IF m_joined THEN "poll" ELSE "sched_lock")
            /\ target' = 0 /\ busy' = FALSE
            /\ promised' = accepted

CallJoin == /\ Begin("join", IF m_joined THEN "idle" ELSE "join_lock")
            /\ target' = 0
            /\ UNCHANGED <<busy, promised>>

Last == NumThreads - 1

\* A loop of main over the workers: the next one, or the step after the loop.
LoopOn(again, after) == IF target = Last THEN target' = 0 /\ mpc' = after
                                         ELSE target' = target + 1 /\ mpc' = again

-----------------------------------------------------------------------------
(***************************************************************************)
(* schedule_impl, called once by schedule and for every worker by sync.     *)
(***************************************************************************)
SchedLock == /\ mpc = "sched_lock" /\ owner[target] = "free"
             /\ owner' = [owner EXCEPT ![target] = "main"]
             /\ mpc' = "sched_push"
             /\ UNCHANGED <<queueVars, flagVars, wpc, workVars, op, target, busy,
                            promised, calls>>

\* A mutation: the new job is put at the front.
SchedPushFront ==
    /\ mpc = "sched_push"
    /\ accepted' = [accepted EXCEPT ![target] = @ + 1]
    /\ m_queue' = [m_queue EXCEPT ![target] = <<accepted'[target]>> \o @]
    /\ owner' = [owner EXCEPT ![target] = "free"]
    /\ mpc' = "sched_notify"
    /\ UNCHANGED <<flagVars, wpc, workVars, op, target, busy, promised, calls>>

SchedPush == /\ mpc = "sched_push"
             /\ accepted' = [accepted EXCEPT ![target] = @ + 1]
             /\ m_queue' = [m_queue EXCEPT ![target] = Append(@, accepted'[target])]
             /\ owner' = [owner EXCEPT ![target] = "free"]
             /\ mpc' = "sched_notify"
             /\ UNCHANGED <<flagVars, wpc, workVars, op, target, busy, promised, calls>>

\* A mutation: the notification is forgotten.
SchedNoNotify == /\ mpc = "sched_notify"
                 /\ IF op = "sync" THEN LoopOn("sched_lock", "poll")
                                   ELSE mpc' = "idle" /\ UNCHANGED target
                 /\ UNCHANGED <<queueVars, owner, flagVars, wpc, workVars, op, busy,
                                promised, calls>>

SchedNotify == /\ mpc = "sched_notify"
               /\ NotifyOne(target)
               /\ IF op = "sync" THEN LoopOn("sched_lock", "poll")
                                 ELSE mpc' = "idle" /\ UNCHANGED target
               /\ UNCHANGED <<queueVars, owner, flagVars, workVars, op, busy,
                              promised, calls>>

\* A mutation: the poll runs past the last worker.
PollPastEnd == /\ mpc = "poll"
               /\ target' = target + 1
               /\ mpc' = IF target = NumThreads THEN "idle" ELSE "poll"
               /\ UNCHANGED <<queueVars, owner, flagVars, wpc, workVars, op, busy,
                              promised, calls>>

(***************************************************************************)
(* sync: the size of each queue in turn, without its mutex; again from the   *)
(* first unless all were empty.                                             *)
(***************************************************************************)
Poll == /\ mpc = "poll"
        /\ LET some == busy \/ m_queue[target] # <<>> IN
             /\ LoopOn("poll", IF some THEN "poll" ELSE "idle")
             /\ busy' = (some /\ target # Last)
        /\ UNCHANGED <<queueVars, owner, flagVars, wpc, workVars, op, promised, calls>>

-----------------------------------------------------------------------------
(***************************************************************************)
(* join: all mutexes, the flag, all mutexes released, then worker by worker. *)
(***************************************************************************)
\* A mutation: the flag is cleared without the mutexes.
JoinLockNothing == /\ mpc = "join_lock"
                   /\ LoopOn("join_lock", "join_stop")
                   /\ UNCHANGED <<queueVars, owner, flagVars, wpc, workVars, op, busy,
                                  promised, calls>>

JoinLock == /\ mpc = "join_lock" /\ owner[target] = "free"
            /\ owner' = [owner EXCEPT ![target] = "main"]
            /\ LoopOn("join_lock", "join_stop")
            /\ UNCHANGED <<queueVars, flagVars, wpc, workVars, op, busy, promised, calls>>

JoinStop == /\ mpc = "join_stop"
            /\ m_running' = FALSE
            /\ mpc' = "join_unlock"
            /\ UNCHANGED <<queueVars, owner, m_joined, wpc, workVars, op, target, busy,
                           promised, calls>>

JoinUnlock == /\ mpc = "join_unlock"
              /\ owner' = [owner EXCEPT ![target] = "free"]
              /\ LoopOn("join_unlock", "join_notify")
              /\ UNCHANGED <<queueVars, flagVars, wpc, workVars, op, busy, promised, calls>>

JoinNotify == /\ mpc = "join_notify"
              /\ NotifyOne(target)
              /\ mpc' = "join_thread"
              /\ UNCHANGED <<queueVars, owner, flagVars, workVars, op, target, busy,
                             promised, calls>>

JoinThread == /\ mpc = "join_thread" /\ wpc[target] = "exited"
              /\ LoopOn("join_notify", "idle")
              /\ m_joined' = (target = Last)
              /\ UNCHANGED <<queueVars, owner, m_running, wpc, workVars, op, busy,
                             promised, calls>>

MainStep == \/ SchedLock \/ SchedPush \/ SchedNotify \/ Poll
            \/ JoinLock \/ JoinStop \/ JoinUnlock \/ JoinNotify \/ JoinThread

\* main has made its last call, and the pool is gone.
Done == mpc = "idle" /\ calls = MaxCalls /\ m_joined /\ UNCHANGED vars

Next == \/ \E t \in Worker : WorkerStep(t) \/ SpuriousWakeup(t) \/ CallSchedule(t)
        \/ CallSync \/ CallJoin \/ MainStep \/ Done

Spec == Init /\ [][Next]_vars

(***************************************************************************)
(* Every thread runs, a mutex that is free again and again is acquired in    *)
(* the end, and jobs end.  Main need not make another call, and nothing is   *)
(* expected of spurious wakeups.                                            *)
(***************************************************************************)
Fairness == /\ \A t \in Worker : WF_vars(WorkerStep(t)) /\ SF_vars(Acquire(t))
            /\ WF_vars(MainStep) /\ SF_vars(SchedLock) /\ SF_vars(JoinLock)

FairSpec == Spec /\ Fairness

-----------------------------------------------------------------------------
(***************************************************************************)
(* sync returns only when every job accepted before it has been finished,    *)
(* although it looks at the queues without a mutex and never at the jobs     *)
(* that are running.                                                        *)
(***************************************************************************)
SyncCompletes ==
    [][mpc = "poll" /\ mpc' = "idle" =>
         \A t \in Worker : finished[t] >= promised[t]]_vars

(***************************************************************************)
(* join loses nothing: when it has returned, every job ever accepted has     *)
(* been finished and every worker has left its loop.                        *)
(***************************************************************************)
JoinDrains ==
    m_joined => \A t \in Worker : /\ wpc[t] = "exited"
                                  /\ m_queue[t] = <<>>
                                  /\ finished[t] = accepted[t]

(***************************************************************************)
(* A worker runs its jobs one by one in the order they were scheduled, and   *)
(* each once.                                                               *)
(***************************************************************************)
RunInOrder ==
    [][\A t \in Worker : running'[t] \notin {0, running[t]} =>
                           running[t] = 0 /\ running'[t] = finished[t] + 1]_vars

(***************************************************************************)
(* No wakeup is lost: when a worker waits although it has something to do,   *)
(* main has not come to its notification yet.                               *)
(***************************************************************************)
NotifyPending(t) == \/ mpc = "sched_notify" /\ target = t
                    \/ mpc = "join_unlock"
                    \/ mpc = "join_notify" /\ target <= t
                    \/ mpc = "join_thread" /\ target < t

NoLostWakeup ==
    \A t \in Worker :
      wpc[t] \in {"block", "waiting"} /\ (m_queue[t] # <<>> \/ ~m_running)
        => NotifyPending(t)

(***************************************************************************)
(* Every call of main returns: sync and join do not hang.                   *)
(***************************************************************************)
CallsReturn == mpc # "idle" ~> mpc = "idle"

(***************************************************************************)
(* An accepted job is finished in the end, joined or not.                   *)
(***************************************************************************)
AcceptedJobsFinish ==
    \A t \in Worker : \A k \in 1..MaxCalls : accepted[t] >= k ~> finished[t] >= k

(***************************************************************************)
(* All this together is the pool that WorkPool promises, whatever happens to  *)
(* queues, mutexes and wakeups: SyncCompletes, JoinDrains and RunInOrder are   *)
(* parts of it, and no job is accepted by a pool that was joined.            *)
(***************************************************************************)
CallNow == IF mpc = "idle" THEN "none"
           ELSE IF op = "schedule" /\ mpc = "sched_notify" THEN "scheduled" ELSE op

Pool == INSTANCE WorkPool WITH joined <- m_joined, call <- CallNow

ImplementsPool == Pool!Spec
=============================================================================
