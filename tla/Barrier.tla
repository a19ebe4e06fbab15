------------------------------ MODULE Barrier ------------------------------
(***************************************************************************)
(* ghexbench::thread_pool::barrier, the reusable spinning barrier of        *)
(* src/src/thread_pool.cpp.  Thread is the set of threads that share one     *)
(* barrier object and N its m_num_threads; both programs create the barrier *)
(* with thread_pool::make_barrier, so N is the number of workers.  A step    *)
(* is one atomic operation on a counter: a load, a compare-exchange or a     *)
(* store, in the program order of operator(), count_up and count_down.       *)
(*                                                                         *)
(* Atomic operations are interleaved (sequential consistency): what the      *)
(* relaxed compare-exchange leaves undefined for the plain data of the       *)
(* callers is not modelled here.                                            *)
(***************************************************************************)
EXTENDS Naturals, FiniteSets

CONSTANTS Thread,   \* the worker threads of the pool
          Rounds    \* how often each of them calls the barrier

ASSUME ThreadAssumption == IsFiniteSet(Thread) /\ Thread # {}
ASSUME RoundsAssumption == Rounds \in Nat

\* A mutation: a barrier made for one thread too few.
NShort == Cardinality(Thread) - 1

N == Cardinality(Thread)

VARIABLES m_up,     \* counters::m_up
          m_down,   \* counters::m_down
          pc,       \* where each thread is
          expected, \* count_up's expected and count_down's ex, per thread
          returned  \* returned[t]: calls that t has returned from

barrierVars == <<m_up, m_down, pc, expected, returned>>

Location == {"out", "enter", "up_load", "up_cas", "up_reset", "up_spin",
             "turn", "down_load", "down_cas", "down_reset", "down_spin"}

\* Counters stay within the number of threads; a thread makes no more calls
\* than it should.
BarrierTypeOK == /\ m_up \in 0..N
                 /\ m_down \in 0..N
                 /\ pc \in [Thread -> Location]
                 /\ expected \in [Thread -> 0..N]
                 /\ returned \in [Thread -> 0..Rounds]

BarrierInit == /\ m_up = 0
               /\ m_down = N
               /\ pc = [t \in Thread |-> "out"]
               /\ expected = [t \in Thread |-> 0]
               /\ returned = [t \in Thread |-> 0]

Goto(t, from, to) == pc[t] = from /\ pc' = [pc EXCEPT ![t] = to]

Return(t, from) == /\ Goto(t, from, "out")
                   /\ returned' = [returned EXCEPT ![t] = @ + 1]

(***************************************************************************)
(* The caller: every thread calls the barrier the same number of times.     *)
(***************************************************************************)
Call(t) == /\ returned[t] < Rounds
           /\ Goto(t, "out", "enter")
           /\ UNCHANGED <<m_up, m_down, expected, returned>>

\* operator(): a barrier of a single thread returns at once.
Enter(t) == /\ IF N > 1
               THEN Goto(t, "enter", "up_load") /\ UNCHANGED returned
               ELSE Return(t, "enter")
            /\ UNCHANGED <<m_up, m_down, expected>>

-----------------------------------------------------------------------------
(***************************************************************************)
(* count_up                                                                 *)
(***************************************************************************)
UpLoad(t) == /\ Goto(t, "up_load", "up_cas")
             /\ expected' = [expected EXCEPT ![t] = m_up]
             /\ UNCHANGED <<m_up, m_down, returned>>

\* Mutations: the counter is stored without comparing it; the last but one
\* takes itself for the last.
UpCasBlind(t) == /\ m_up' = expected[t] + 1
                 /\ Goto(t, "up_cas",
                         IF expected[t] = N - 1 THEN "up_reset" ELSE "up_spin")
                 /\ UNCHANGED <<m_down, expected, returned>>

UpCasEarly(t) == /\ m_up = expected[t]
                 /\ m_up' = m_up + 1
                 /\ Goto(t, "up_cas",
                         IF expected[t] = N - 2 THEN "up_reset" ELSE "up_spin")
                 /\ UNCHANGED <<m_down, expected, returned>>

UpCas(t) == /\ m_up = expected[t]
            /\ m_up' = m_up + 1
            /\ Goto(t, "up_cas",
                    IF expected[t] = N - 1 THEN "up_reset" ELSE "up_spin")
            /\ UNCHANGED <<m_down, expected, returned>>

\* compare_exchange_weak may fail even when the values agree.
UpCasFail(t) == /\ Goto(t, "up_cas", "up_load")
                /\ UNCHANGED <<m_up, m_down, expected, returned>>

UpReset(t) == /\ Goto(t, "up_reset", "down_load")
              /\ m_up' = 0
              /\ UNCHANGED <<m_down, expected, returned>>

UpSpin(t) == /\ m_up = 0
             /\ Goto(t, "up_spin", "turn")
             /\ UNCHANGED <<m_up, m_down, expected, returned>>

\* operator(): a thread that was not the last waits for the first decrement.
Turn(t) == /\ m_down # N
           /\ Goto(t, "turn", "down_load")
           /\ UNCHANGED <<m_up, m_down, expected, returned>>

-----------------------------------------------------------------------------
(***************************************************************************)
(* count_down                                                               *)
(***************************************************************************)
DownLoad(t) == /\ Goto(t, "down_load", "down_cas")
               /\ expected' = [expected EXCEPT ![t] = m_down]
               /\ UNCHANGED <<m_up, m_down, returned>>

DownCas(t) == /\ m_down = expected[t]
              /\ m_down' = m_down - 1
              /\ Goto(t, "down_cas",
                      IF expected[t] = 1 THEN "down_reset" ELSE "down_spin")
              /\ UNCHANGED <<m_up, expected, returned>>

DownCasFail(t) == /\ Goto(t, "down_cas", "down_load")
                  /\ UNCHANGED <<m_up, m_down, expected, returned>>

\* A mutation: the last thread out does not refill the counter.
DownResetForgotten(t) == /\ Return(t, "down_reset")
                         /\ UNCHANGED <<m_up, m_down, expected>>

DownReset(t) == /\ Return(t, "down_reset")
                /\ m_down' = N
                /\ UNCHANGED <<m_up, expected>>

DownSpin(t) == /\ m_down = N
               /\ Return(t, "down_spin")
               /\ UNCHANGED <<m_up, m_down, expected>>

-----------------------------------------------------------------------------
\* The steps of t that cannot fail.
Step(t) == \/ Enter(t) \/ UpLoad(t) \/ UpReset(t) \/ UpSpin(t) \/ Turn(t)
           \/ DownLoad(t) \/ DownReset(t) \/ DownSpin(t)

AllReturned == \A t \in Thread : pc[t] = "out" /\ returned[t] = Rounds

BarrierNext == \/ \E t \in Thread : \/ Call(t) \/ Step(t)
                                    \/ UpCas(t) \/ UpCasFail(t)
                                    \/ DownCas(t) \/ DownCasFail(t)
               \/ AllReturned /\ UNCHANGED barrierVars

BarrierSpec == BarrierInit /\ [][BarrierNext]_barrierVars

(***************************************************************************)
(* The scheduler runs every worker (each is pinned to a core of its own by  *)
(* set_affinity), and a compare-exchange that can succeed again and again    *)
(* does not fail for ever: the counters change at most N times per phase,    *)
(* and a spurious failure is an interrupted reservation.                     *)
(***************************************************************************)
BarrierFairness == \A t \in Thread : /\ WF_barrierVars(Call(t) \/ Step(t))
                                     /\ WF_barrierVars(UpCas(t) \/ UpCasFail(t))
                                     /\ WF_barrierVars(DownCas(t) \/ DownCasFail(t))
                                     /\ SF_barrierVars(UpCas(t))
                                     /\ SF_barrierVars(DownCas(t))

BarrierFairSpec == BarrierSpec /\ BarrierFairness

-----------------------------------------------------------------------------
(***************************************************************************)
(* The two phases of the barrier.  While it counts up, m_down is full and    *)
(* m_up is the number of threads that have arrived; the thread that finds    *)
(* itself the last is the only one to reset.  While it counts down, m_up is  *)
(* zero and m_down is the number of threads that have not yet decremented.   *)
(* Threads of the previous phase may still be spinning in either.            *)
(***************************************************************************)
Arrived == {t \in Thread : pc[t] \in {"up_reset", "up_spin"}}
Departed == {t \in Thread : pc[t] \in {"down_reset", "down_spin"}}

OnlyOne(location) == \A t, u \in Thread :
                        pc[t] = location /\ pc[u] = location => t = u

CountingUp ==
    /\ m_down = N
    /\ m_up = Cardinality(Arrived)
    /\ \A t \in Thread : pc[t] \notin {"turn", "down_load", "down_cas",
                                       "down_reset"}
    /\ \A t \in Thread : pc[t] = "up_reset" => m_up = N
    /\ OnlyOne("up_reset")

CountingDown ==
    /\ m_up = 0
    /\ m_down = N - Cardinality(Departed)
    /\ \A t \in Thread : pc[t] \notin {"out", "enter", "up_load", "up_cas",
                                       "up_reset"}
    /\ \A t \in Thread : pc[t] = "down_reset" => m_down = 0
    /\ OnlyOne("down_reset")

\* The call t is in or about to make; a thread released from the count-down
\* that has not noticed counts as gone.
Epoch(t) == returned[t]
            + (IF pc[t] = "down_spin" /\ m_down = N THEN 1 ELSE 0)

(***************************************************************************)
(* The inductive invariant: the barrier is in one of its two phases, and all *)
(* threads are in the same call.                                            *)
(***************************************************************************)
PhaseInv == /\ CountingUp \/ CountingDown
            /\ \A t, u \in Thread : Epoch(t) = Epoch(u)
            /\ \A t \in Thread : pc[t] # "out" => returned[t] < Rounds

-----------------------------------------------------------------------------
(***************************************************************************)
(* No thread returns from its k-th call before every thread has made its     *)
(* k-th call: the barrier is reusable, without a straggler of one call being *)
(* taken for an arrival of the next.                                        *)
(***************************************************************************)
Calls(t) == returned[t] + (IF pc[t] = "out" THEN 0 ELSE 1)

NoEarlyReturn == \A t, u \in Thread : returned[t] <= Calls(u)

(***************************************************************************)
(* A reset is a plain store: it loses whatever another thread has counted    *)
(* since.  No reset of either counter may happen while another thread is     *)
(* between its load and its compare-exchange of that counter, or while the   *)
(* counter is short of what everyone's arrival or departure makes it.        *)
(***************************************************************************)
ResetLosesNothing ==
    \A t \in Thread :
      /\ pc[t] = "up_reset" =>
           m_up = N /\ \A u \in Thread : pc[u] \notin {"up_load", "up_cas"}
      /\ pc[t] = "down_reset" =>
           m_down = 0 /\ \A u \in Thread : pc[u] \notin {"down_load", "down_cas"}

(***************************************************************************)
(* The abstract barrier this one implements: calls that have begun, and have *)
(* returned.                                                               *)
(***************************************************************************)
R == INSTANCE Rendezvous WITH entered <- [t \in Thread |-> Calls(t)],
                              left <- returned

(***************************************************************************)
(* Progress: a thread that called the barrier returns from it, although the  *)
(* others may be pre-empted at any step and a compare-exchange may fail.     *)
(***************************************************************************)
EveryCallReturns ==
    \A t \in Thread : pc[t] = "enter" ~> pc[t] = "out"
=============================================================================
