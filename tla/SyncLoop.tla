------------------------------ MODULE SyncLoop ------------------------------
(***************************************************************************)
(* ghexbench::sync_loop (src/src/sync_loop.cpp, sync_loop.hpp) as             *)
(* cartex/src/runtime/runtime.cpp uses it with --time: every thread of every  *)
(* rank runs two timed loops one after the other, the warm-up and the main    *)
(* one, and asks elapsed() whether to go on.  Rank 0 measures, MPI_Bcast      *)
(* takes its answer to thread 0 of every rank, and bcast() hands it to the     *)
(* other threads through m_dt, m_count_up and m_count_down.                   *)
(*                                                                         *)
(* The answer is abstracted to whether the time is up; nothing is assumed of  *)
(* the clock (high_resolution_clock need not be steady), except that the       *)
(* time is up at the MaxQueries-th answer at the latest.  The body of the      *)
(* loop is one step that synchronises nobody, so threads run as far apart as   *)
(* the loop lets them.  Atomic operations are interleaved, and so is the       *)
(* access to the plain double m_dt.                                           *)
(***************************************************************************)
EXTENDS Integers, Sequences, FiniteSets

CONSTANTS Ranks,              \* size of m_comm
          NumThreads,         \* threads per rank
          WarmMin, WarmInc,   \* iteration counts of the warm-up loop
          MainMin, MainInc,   \* and of the main loop
          NReps,              \* values --nrep may be given
          MaxQueries          \* bound on the answers before the time is up

ASSUME SizesAssumption == Ranks \in Nat \ {0} /\ NumThreads \in Nat \ {0}
ASSUME CountsAssumption == /\ {WarmMin, WarmInc, MainMin, MainInc} \subseteq Nat
                           /\ NReps \subseteq Nat
                           /\ MaxQueries \in Nat \ {0}

Rank == 0..(Ranks - 1)
Tid == 0..(NumThreads - 1)
Proc == Rank \X Tid

\* A mutation: a sync_loop made for one thread too few.
OneTooFew == NumThreads - 1

\* runtime makes its m_loop for all the threads of the rank.
m_num_threads == NumThreads

Absent == -1      \* the option --nrep was not given
Unlimited == -1   \* the default of max_iterations, never reached

Bigger(a, b) == IF a > b THEN a ELSE b

\* runtime::m_num_reps when --time is given.
NumReps(nrep) == IF nrep = Absent THEN 0 ELSE nrep

\* The arguments of the two calls of repeat_for.
Loop(k, nrep) ==
    IF k = 1 THEN [min |-> WarmMin, inc |-> Bigger(1, WarmInc), max |-> Unlimited]
             ELSE [min |-> MainMin, inc |-> Bigger(1, MainInc), max |-> NumReps(nrep)]

VARIABLES nrep,          \* the option --nrep of this run of the program
          m_dt,          \* m_dt of each rank
          m_count_up, m_count_down,
          bcasts,        \* what the root has broadcast so far
          pc, i,         \* each thread's place and iteration count
          loop,          \* the loop it is in: 1 warm-up, 2 main, 3 neither
          queries,       \* the number of calls of elapsed it has made
          dt,            \* its local dt
          ex_d,          \* its local ex_d
          iterations     \* what its finished loops have returned, and why

sharedVars == <<m_dt, m_count_up, m_count_down, bcasts>>
loopVars == <<i, loop, queries, iterations>>
vars == <<nrep, sharedVars, pc, loopVars, dt, ex_d>>

\* An answer names the query it answers, for the properties; 0 is no answer.
Answer == [query : Nat, up : BOOLEAN]
NoAnswer == [query |-> 0, up |-> FALSE]

Location == {"body", "measure", "publish", "up", "up_reset", "up_spin", "read",
             "down_load", "down_cas", "down_reset", "down_spin", "test", "done"}

\* Counters stay within the number of threads, answers are those of queries,
\* and a thread has a result for every loop it has left.
TypeOK ==
    /\ nrep \in NReps \cup {Absent}
    /\ m_dt \in [Rank -> Answer]
    /\ m_count_up \in [Rank -> 0..m_num_threads]
    /\ m_count_down \in [Rank -> 0..m_num_threads]
    /\ bcasts \in Seq(BOOLEAN)
    /\ pc \in [Proc -> Location]
    /\ i \in [Proc -> Nat]
    /\ loop \in [Proc -> 1..3]
    /\ queries \in [Proc -> Nat]
    /\ dt \in [Proc -> Answer]
    /\ ex_d \in [Proc -> 0..m_num_threads]
    /\ iterations \in [Proc -> Seq([n : Nat, by : {"count", "time"}])]
    /\ \A p \in Proc : Len(iterations[p]) = loop[p] - 1

Init ==
    /\ nrep \in NReps \cup {Absent}
    /\ m_dt = [r \in Rank |-> NoAnswer]
    /\ m_count_up = [r \in Rank |-> 0]
    /\ m_count_down = [r \in Rank |-> m_num_threads]
    /\ bcasts = <<>>
    /\ pc = [p \in Proc |-> "body"]
    /\ i = [p \in Proc |-> 0]
    /\ loop = [p \in Proc |-> 1]
    /\ queries = [p \in Proc |-> 0]
    /\ dt = [p \in Proc |-> NoAnswer]
    /\ ex_d = [p \in Proc |-> 0]
    /\ iterations = [p \in Proc |-> <<>>]

Goto(p, from, to) == pc[p] = from /\ pc' = [pc EXCEPT ![p] = to]

-----------------------------------------------------------------------------
(***************************************************************************)
(* repeat_for                                                               *)
(***************************************************************************)
\* The loop of p returns n, by its count or by the time, and p goes on to the
\* next loop or is done.
Return(p, from, n, by) == /\ Goto(p, from, IF loop[p] = 2 THEN "done" ELSE "body")
                      /\ iterations' = [iterations EXCEPT ![p] = Append(@, [n |-> n, by |-> by])]
                      /\ loop' = [loop EXCEPT ![p] = @ + 1]
                      /\ i' = [i EXCEPT ![p] = 0]

\* f() increment times, then the tests that need no clock.
Body(p) == LET l == Loop(loop[p], nrep)
               n == i[p] + l.inc
           IN  /\ pc[p] = "body"
               /\ \/ /\ l.max # Unlimited /\ n >= l.max
                     /\ Return(p, "body", n, "count")
                     /\ UNCHANGED queries
                  \/ /\ l.max = Unlimited \/ n < l.max
                     /\ i' = [i EXCEPT ![p] = n]
                     /\ Goto(p, "body", IF n < l.min THEN "body" ELSE "measure")
                     /\ queries' = [queries EXCEPT ![p] = IF n < l.min THEN @ ELSE @ + 1]
                     /\ UNCHANGED <<loop, iterations>>
               /\ UNCHANGED <<nrep, sharedVars, dt, ex_d>>

\* elapsed(tp, thread_id) < seconds, once elapsed has returned.
Test(p) == /\ IF dt[p].up
                THEN Return(p, "test", i[p], "time")
                ELSE Goto(p, "test", "body") /\ UNCHANGED <<i, loop, iterations>>
           /\ UNCHANGED <<nrep, sharedVars, queries, dt, ex_d>>

-----------------------------------------------------------------------------
(***************************************************************************)
(* elapsed: MPI_Bcast from rank 0 by thread 0 of each rank.  The root does    *)
(* not wait for the others; they take the broadcasts in order.               *)
(***************************************************************************)
MeasureOnly(p) == /\ p[2] # 0
                  /\ Goto(p, "measure", "up")
                  /\ UNCHANGED <<nrep, sharedVars, loopVars, dt, ex_d>>

BcastRoot(p) == /\ p = <<0, 0>>
                /\ Goto(p, "measure", "publish")
                /\ \E up \in BOOLEAN :
                     /\ Len(bcasts) + 1 >= MaxQueries => up
                     /\ bcasts' = Append(bcasts, up)
                     /\ dt' = [dt EXCEPT ![p] = [query |-> queries[p], up |-> up]]
                /\ UNCHANGED <<nrep, m_dt, m_count_up, m_count_down, loopVars, ex_d>>

\* A mutation: a rank believes its own clock.
BcastOwnClock(p) == /\ p[1] # 0 /\ p[2] = 0 /\ Len(bcasts) >= queries[p]
                    /\ Goto(p, "measure", "publish")
                    /\ \E up \in BOOLEAN :
                         dt' = [dt EXCEPT ![p] = [query |-> queries[p], up |-> up]]
                    /\ UNCHANGED <<nrep, sharedVars, loopVars, ex_d>>

BcastOther(p) == /\ p[1] # 0 /\ p[2] = 0 /\ Len(bcasts) >= queries[p]
                 /\ Goto(p, "measure", "publish")
                 /\ dt' = [dt EXCEPT ![p] = [query |-> queries[p],
                                             up |-> bcasts[queries[p]]]]
                 /\ UNCHANGED <<nrep, sharedVars, loopVars, ex_d>>

-----------------------------------------------------------------------------
(***************************************************************************)
(* bcast                                                                    *)
(***************************************************************************)
Publish(p) == /\ Goto(p, "publish", "up")
              /\ m_dt' = [m_dt EXCEPT ![p[1]] = dt[p]]
              /\ UNCHANGED <<nrep, m_count_up, m_count_down, bcasts, loopVars, dt, ex_d>>

\* A mutation: the last thread does not know that it is the last.
UpNoReset(p) == /\ m_count_up[p[1]] = p[2]
                /\ m_count_up' = [m_count_up EXCEPT ![p[1]] = @ + 1]
                /\ Goto(p, "up", IF p[2] = m_num_threads THEN "up_reset" ELSE "up_spin")
                /\ UNCHANGED <<nrep, m_dt, m_count_down, bcasts, loopVars, dt, ex_d>>

\* The threads of a rank count up in the order of their ids.  The exchange is
\* tried again and again until it is this thread's turn.
Up(p) == /\ m_count_up[p[1]] = p[2]
         /\ m_count_up' = [m_count_up EXCEPT ![p[1]] = @ + 1]
         /\ Goto(p, "up", IF p[2] = m_num_threads - 1 THEN "up_reset" ELSE "up_spin")
         /\ UNCHANGED <<nrep, m_dt, m_count_down, bcasts, loopVars, dt, ex_d>>

UpReset(p) == /\ Goto(p, "up_reset", "read")
              /\ m_count_up' = [m_count_up EXCEPT ![p[1]] = 0]
              /\ UNCHANGED <<nrep, m_dt, m_count_down, bcasts, loopVars, dt, ex_d>>

UpSpin(p) == /\ m_count_up[p[1]] = 0
             /\ Goto(p, "up_spin", "read")
             /\ UNCHANGED <<nrep, sharedVars, loopVars, dt, ex_d>>

Read(p) == /\ Goto(p, "read", "down_load")
           /\ dt' = [dt EXCEPT ![p] = m_dt[p[1]]]
           /\ UNCHANGED <<nrep, sharedVars, loopVars, ex_d>>

DownLoad(p) == /\ Goto(p, "down_load", "down_cas")
               /\ ex_d' = [ex_d EXCEPT ![p] = m_count_down[p[1]]]
               /\ UNCHANGED <<nrep, sharedVars, loopVars, dt>>

DownCas(p) == /\ m_count_down[p[1]] = ex_d[p]
              /\ m_count_down' = [m_count_down EXCEPT ![p[1]] = @ - 1]
              /\ Goto(p, "down_cas", IF ex_d[p] = 1 THEN "down_reset" ELSE "down_spin")
              /\ UNCHANGED <<nrep, m_dt, m_count_up, bcasts, loopVars, dt, ex_d>>

\* The counter has changed, or the weak exchange has failed for no reason.
DownCasFail(p) == /\ Goto(p, "down_cas", "down_load")
                  /\ UNCHANGED <<nrep, sharedVars, loopVars, dt, ex_d>>

DownReset(p) == /\ Goto(p, "down_reset", "test")
                /\ m_count_down' = [m_count_down EXCEPT ![p[1]] = m_num_threads]
                /\ UNCHANGED <<nrep, m_dt, m_count_up, bcasts, loopVars, dt, ex_d>>

\* A mutation: the wait ends at any count but zero.
DownSpinEager(p) == /\ m_count_down[p[1]] # 0
                    /\ Goto(p, "down_spin", "test")
                    /\ UNCHANGED <<nrep, sharedVars, loopVars, dt, ex_d>>

DownSpin(p) == /\ m_count_down[p[1]] = m_num_threads
               /\ Goto(p, "down_spin", "test")
               /\ UNCHANGED <<nrep, sharedVars, loopVars, dt, ex_d>>

-----------------------------------------------------------------------------
Step(p) == \/ Body(p) \/ Test(p)
           \/ MeasureOnly(p) \/ BcastRoot(p) \/ BcastOther(p) \/ Publish(p)
           \/ Up(p) \/ UpReset(p) \/ UpSpin(p) \/ Read(p)
           \/ DownLoad(p) \/ DownReset(p) \/ DownSpin(p)

Done == (\A p \in Proc : pc[p] = "done") /\ UNCHANGED vars

Next == Done \/ \E p \in Proc : Step(p) \/ DownCas(p) \/ DownCasFail(p)

Spec == Init /\ [][Next]_vars

\* Every thread runs, and an exchange that can succeed again and again does.
Fairness == \A p \in Proc : /\ WF_vars(Step(p))
                            /\ WF_vars(DownCas(p) \/ DownCasFail(p))
                            /\ SF_vars(DownCas(p))

FairSpec == Spec /\ Fairness

-----------------------------------------------------------------------------
(***************************************************************************)
(* All threads of all ranks leave a loop after the same number of            *)
(* iterations: otherwise a rank would wait for halos nobody sends.           *)
(***************************************************************************)
Agreement ==
    \A p, q \in Proc : \A k \in DOMAIN iterations[p] \cap DOMAIN iterations[q] :
        iterations[p][k] = iterations[q][k]

(***************************************************************************)
(* A thread acts on the answer to the query it has made: not on that of the  *)
(* query before, which m_dt still holds, nor on the next, which thread 0      *)
(* may be about to write.                                                   *)
(***************************************************************************)
ActsOnOwnAnswer ==
    \A p \in Proc : pc[p] \in {"down_load", "down_cas", "down_reset", "down_spin",
                               "test"}
                      => dt[p] = [query |-> queries[p], up |-> bcasts[queries[p]]]

(***************************************************************************)
(* Every thread ends both loops.                                            *)
(***************************************************************************)
AllFinish == <>(\A p \in Proc : pc[p] = "done")

(***************************************************************************)
(* What --time says ("execution time", cartex/src/bin/benchmark.cpp:28): the  *)
(* main loop stops when the time is up, or when the repetitions that were     *)
(* asked for have been made.                                                *)
(***************************************************************************)
RunsForExecutionTime ==
    \A p \in Proc : pc[p] = "done" =>
      \/ iterations[p][2].by = "time"
      \/ nrep # Absent /\ iterations[p][2].n >= nrep
=============================================================================
