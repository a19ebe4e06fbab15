--------------------------- MODULE SyncLoopProofs ---------------------------
(***************************************************************************)
(* Proofs about SyncLoop for every number of ranks and threads, every       *)
(* iteration count and every clock.                                         *)
(***************************************************************************)
EXTENDS SyncLoop, FiniteSetTheorems, TLAPS

\* The answer to query k, as the root has broadcast it.
Ans(k) == [query |-> k, up |-> bcasts[k]]

\* From the call of elapsed to its return.
Asking == {"measure", "publish", "up", "up_reset", "up_spin", "read",
           "down_load", "down_cas", "down_reset", "down_spin"}
Answered == {"down_load", "down_cas", "down_reset", "down_spin", "test"}

\* Threads of r that have counted down, and spin or reset.
Departed(r) == {t \in Tid : pc[<<r, t>>] \in {"down_reset", "down_spin"}}

(***************************************************************************)
(* bcast is in one of two phases.  Threads count up in the order of their    *)
(* ids, the first of them, thread 0, when it has published the answer; or    *)
(* they read the answer, which nobody can overwrite before all have counted  *)
(* down.                                                                   *)
(***************************************************************************)
RankUp(r) ==
    /\ m_count_down[r] = NumThreads
    /\ \A t \in Tid :
         /\ pc[<<r, t>>] \notin {"read", "down_load", "down_cas", "down_reset"}
         /\ pc[<<r, t>>] \in {"up_reset", "up_spin"} <=> t < m_count_up[r]
         /\ pc[<<r, t>>] = "up_reset" => t = NumThreads - 1
    /\ pc[<<r, 0>>] \in {"up", "up_reset", "up_spin"} => m_dt[r] = Ans(queries[<<r, 0>>])

RankDown(r) ==
    /\ m_count_up[r] = 0
    /\ m_count_down[r] = NumThreads - Cardinality(Departed(r))
    /\ \A t \in Tid : pc[<<r, t>>] \in {"up_spin", "read", "down_load", "down_cas",
                                       "down_reset", "down_spin"}
    /\ \A t \in Tid : pc[<<r, t>>] = "down_reset" => m_count_down[r] = 0
    /\ \A t, u \in Tid :
         pc[<<r, t>>] = "down_reset" /\ pc[<<r, u>>] = "down_reset" => t = u
    /\ m_dt[r] = Ans(queries[<<r, 0>>])

\* Queries of p that are over, whether or not p has noticed.
Over(p) == queries[p] - (IF pc[p] \in Asking
                              /\ ~(pc[p] = "down_spin" /\ m_count_down[p[1]] = NumThreads)
                         THEN 1 ELSE 0)

RankInv(r) == /\ RankUp(r) \/ RankDown(r)
              /\ \A t, u \in Tid : Over(<<r, t>>) = Over(<<r, u>>)

\* What a thread knows, and what has been broadcast when it does.
ThreadInv(p) ==
    /\ pc[p] = "done" <=> loop[p] = 3
    /\ pc[p] \in Asking \cup {"test"} => queries[p] >= 1
    /\ pc[p] = "publish" => p[2] = 0
    /\ pc[p] \in Answered \cup {"publish"} => dt[p] = Ans(queries[p])
    /\ pc[p] \in Answered \cup {"publish"} => queries[p] <= Len(bcasts)
    /\ p[2] = 0 /\ pc[p] \in Asking \ {"measure"} => queries[p] <= Len(bcasts)

RootInv == Len(bcasts) = queries[<<0, 0>>] - (IF pc[<<0, 0>>] = "measure" THEN 1 ELSE 0)

(***************************************************************************)
(* The inductive invariant.                                                 *)
(***************************************************************************)
IInv == /\ TypeOK
        /\ \A p \in Proc : ThreadInv(p)
        /\ \A r \in Rank : RankInv(r)
        /\ RootInv

-----------------------------------------------------------------------------
(***************************************************************************)
(* Counting the threads of a rank.                                          *)
(***************************************************************************)
\* The ids of the threads are a finite set of as many members as threads.
LEMMA TidCount == IsFiniteSet(Tid) /\ Cardinality(Tid) = NumThreads
<1>1. /\ IsFiniteSet(0..(NumThreads - 1))
      /\ Cardinality(0..(NumThreads - 1)) =
           IF 0 > NumThreads - 1 THEN 0 ELSE (NumThreads - 1) - 0 + 1
  BY SizesAssumption, FS_Interval
<1>2. QED
  BY <1>1, SizesAssumption DEF Tid

\* A set of threads has at most NumThreads members, and as many only if it is
\* all of them.
LEMMA SubsetCount ==
  ASSUME NEW S \in SUBSET Tid
  PROVE  /\ IsFiniteSet(S)
         /\ Cardinality(S) \in 0..NumThreads
         /\ Cardinality(S) = NumThreads => S = Tid
         /\ Cardinality(S) = 0 => S = {}
<1>1. /\ IsFiniteSet(S)
      /\ Cardinality(S) <= NumThreads
      /\ NumThreads = Cardinality(S) => S = Tid
  BY TidCount, FS_Subset
<1>2. Cardinality(S) \in Nat
  BY <1>1, FS_CardinalityType
<1>3. Cardinality(S) = 0 => S = {}
  BY <1>1, FS_EmptySet
<1>4. QED
  BY <1>1, <1>2, <1>3, SizesAssumption

\* One more thread in a set makes it one larger.
LEMMA OneMore ==
  ASSUME NEW S \in SUBSET Tid, NEW t \in Tid, t \notin S
  PROVE  /\ Cardinality(S \cup {t}) = Cardinality(S) + 1
         /\ Cardinality(S) < NumThreads
<1>1. Cardinality(S \cup {t}) = Cardinality(S) + 1
  BY SubsetCount, FS_AddElement
<1>2. Cardinality(S) # NumThreads
  BY SubsetCount
<1>3. QED
  BY <1>1, <1>2, SubsetCount, SizesAssumption

-----------------------------------------------------------------------------
(***************************************************************************)
(* A step is one thread's, touches its own rank, and leaves every answer     *)
(* that was broadcast as it is.                                             *)
(***************************************************************************)
\* Only <<r, t>> moves, and only the counters and the answer of r change.
OnlyOf(r, t) ==
    /\ \A q \in Proc : q # <<r, t>> => /\ pc'[q] = pc[q] /\ loop'[q] = loop[q]
                                       /\ queries'[q] = queries[q]
                                       /\ dt'[q] = dt[q]
    /\ \A s \in Rank : s # r => /\ m_dt'[s] = m_dt[s]
                                /\ m_count_up'[s] = m_count_up[s]
                                /\ m_count_down'[s] = m_count_down[s]

BcastsKept == /\ Len(bcasts) <= Len(bcasts')
              /\ \A k \in 1..Len(bcasts) : bcasts'[k] = bcasts[k]

\* What a thread knows stays true while others move.
LEMMA ThreadKept ==
  ASSUME TypeOK, TypeOK', NEW p \in Proc, ThreadInv(p), BcastsKept,
         pc'[p] = pc[p], loop'[p] = loop[p], queries'[p] = queries[p], dt'[p] = dt[p]
  PROVE  ThreadInv(p)'
<1>1. queries[p] \in Nat /\ Len(bcasts) \in Nat /\ Len(bcasts') \in Nat
  BY DEF TypeOK
<1>2. queries[p] \in 1..Len(bcasts) => Ans(queries[p])' = Ans(queries[p])
  BY DEF BcastsKept, Ans
<1>3. QED
  BY <1>1, <1>2 DEF ThreadInv, BcastsKept, Asking, Answered, Ans

\* So does what holds of another rank.
LEMMA RankKept ==
  ASSUME IInv, TypeOK', NEW r \in Rank, NEW t \in Tid, OnlyOf(r, t), BcastsKept,
         NEW s \in Rank, s # r
  PROVE  RankInv(s)'
<1> USE DEF IInv
<1>1. \A u \in Tid : /\ <<s, u>> \in Proc
                     /\ pc'[<<s, u>>] = pc[<<s, u>>]
                     /\ queries'[<<s, u>>] = queries[<<s, u>>]
  BY DEF OnlyOf, Proc
<1>2. /\ m_dt'[s] = m_dt[s] /\ m_count_up'[s] = m_count_up[s]
      /\ m_count_down'[s] = m_count_down[s]
  BY DEF OnlyOf
<1>3. \A u \in Tid : Over(<<s, u>>)' = Over(<<s, u>>)
  BY <1>1, <1>2 DEF Over
<1>4. Departed(s)' = Departed(s)
  BY <1>1 DEF Departed
<1>5. 0 \in Tid
  BY SizesAssumption DEF Tid
<1>6. pc[<<s, 0>>] \in Asking \ {"measure", "publish"}
        => Ans(queries[<<s, 0>>])' = Ans(queries[<<s, 0>>])
  <2>1. ThreadInv(<<s, 0>>) /\ queries[<<s, 0>>] \in Nat /\ Len(bcasts) \in Nat
    BY <1>1, <1>5 DEF TypeOK
  <2>2. pc[<<s, 0>>] \in Asking \ {"measure", "publish"}
          => queries[<<s, 0>>] \in 1..Len(bcasts)
    BY <2>1 DEF ThreadInv, Asking
  <2>3. QED
    BY <1>1, <1>5, <2>2 DEF BcastsKept, Ans
<1>7. ASSUME RankUp(s) PROVE RankUp(s)'
  BY <1>1, <1>2, <1>5, <1>6, <1>7 DEF RankUp, Asking
<1>8. ASSUME RankDown(s) PROVE RankDown(s)'
  BY <1>1, <1>2, <1>4, <1>5, <1>6, <1>8 DEF RankDown, Asking
<1>9. QED
  BY <1>3, <1>7, <1>8 DEF RankInv

\* What is left to show of a step of <<r, t>>.
LEMMA StepInv ==
  ASSUME IInv, TypeOK', NEW r \in Rank, NEW t \in Tid, OnlyOf(r, t), BcastsKept,
         ThreadInv(<<r, t>>)', RankInv(r)',
         <<r, t>> = <<0, 0>> \/ bcasts' = bcasts,
         <<r, t>> = <<0, 0>> => RootInv'
  PROVE  IInv'
<1>1. \A q \in Proc : ThreadInv(q)'
  BY ThreadKept DEF IInv, OnlyOf
<1>2. \A s \in Rank : RankInv(s)'
  BY RankKept
<1>3. RootInv'
  <2>1. <<0, 0>> \in Proc
    BY SizesAssumption DEF Proc, Rank, Tid
  <2>2. QED
    BY <2>1 DEF IInv, RootInv, OnlyOf
<1>4. QED
  BY <1>1, <1>2, <1>3 DEF IInv

\* Over in the phase of counting down: nobody has noticed, so all threads of
\* the rank are in the same query.
LEMMA DownQueries ==
  ASSUME IInv, NEW r \in Rank, RankDown(r)
  PROVE  /\ \A t \in Tid : Over(<<r, t>>) = queries[<<r, t>>] - 1
         /\ \A t, u \in Tid : queries[<<r, t>>] = queries[<<r, u>>]
<1>1. ASSUME NEW t \in Tid PROVE Over(<<r, t>>) = queries[<<r, t>>] - 1
  <2>1. Departed(r) \in SUBSET Tid
    BY DEF Departed
  <2>2. ASSUME pc[<<r, t>>] = "down_spin" PROVE m_count_down[r] # NumThreads
    <3>1. Departed(r) # {}
      BY <2>2 DEF Departed
    <3>2. Cardinality(Departed(r)) \in 1..NumThreads
      BY <2>1, <3>1, SubsetCount, SizesAssumption
    <3>3. QED
      BY <3>2, SizesAssumption DEF RankDown
  <2>3. QED
    BY <2>2 DEF RankDown, Over, Asking, m_num_threads
<1>2. \A t \in Tid : queries[<<r, t>>] \in Nat
  BY DEF IInv, TypeOK, Proc
<1>3. \A t, u \in Tid : Over(<<r, t>>) = Over(<<r, u>>)
  BY DEF IInv, RankInv
<1>4. ASSUME NEW t \in Tid, NEW u \in Tid
      PROVE  queries[<<r, t>>] = queries[<<r, u>>]
  BY <1>1, <1>2, <1>3
<1>5. QED
  BY <1>1, <1>4

-----------------------------------------------------------------------------
(***************************************************************************)
(* The invariant holds initially and is preserved by every step.            *)
(***************************************************************************)
\* Everybody enters the warm-up loop, and no rank has counted anybody.
LEMMA InitInv == Init => IInv
<1> SUFFICES ASSUME Init PROVE IInv
  OBVIOUS
<1> USE SizesAssumption DEF Init, m_num_threads
<1>1. TypeOK
  BY DEF TypeOK, Location, Answer, NoAnswer
<1>2. \A p \in Proc : ThreadInv(p)
  BY DEF ThreadInv, Asking, Answered
<1>3. ASSUME NEW r \in Rank PROVE RankInv(r)
  <2>1. \A t \in Tid : /\ pc[<<r, t>>] = "body" /\ queries[<<r, t>>] = 0
                       /\ t \in Nat
    BY DEF Proc, Tid
  <2>2. 0 \in Tid
    BY DEF Tid
  <2>3. RankUp(r)
    BY <2>1, <2>2 DEF RankUp
  <2>4. QED
    BY <2>1, <2>3 DEF RankInv, Over, Asking
<1>4. RootInv
  <2>1. <<0, 0>> \in Proc
    BY DEF Proc, Rank, Tid
  <2>2. QED
    BY <2>1 DEF RootInv
<1>5. QED
  BY <1>1, <1>2, <1>3, <1>4 DEF IInv

(***************************************************************************)
(* Every step keeps the types: a counter never leaves 0..NumThreads.        *)
(***************************************************************************)
\* A loop that returns does so with a count, and is not the third.
LEMMA TypeReturn ==
  ASSUME IInv, NEW p \in Proc, NEW from \in {"body", "test"}, NEW n \in Nat,
         NEW by \in {"count", "time"}, Return(p, from, n, by)
  PROVE  /\ pc' \in [Proc -> Location]
         /\ i' \in [Proc -> Nat]
         /\ loop' \in [Proc -> 1..3]
         /\ iterations' \in [Proc -> Seq([n : Nat, by : {"count", "time"}])]
         /\ \A q \in Proc : Len(iterations'[q]) = loop'[q] - 1
<1>1. loop[p] \in {1, 2}
  BY DEF IInv, TypeOK, ThreadInv, Return, Goto
<1>2. iterations[p] \in Seq([n : Nat, by : {"count", "time"}])
  BY DEF IInv, TypeOK
<1>3. /\ Append(iterations[p], [n |-> n, by |-> by])
            \in Seq([n : Nat, by : {"count", "time"}])
      /\ Len(Append(iterations[p], [n |-> n, by |-> by])) = Len(iterations[p]) + 1
  BY <1>2
<1>4. QED
  BY <1>1, <1>3 DEF IInv, TypeOK, Return, Goto, Location

\* Every action, one by one.
LEMMA TypeStep ==
  ASSUME IInv, NEW r \in Rank, NEW t \in Tid, NEW p, p = <<r, t>>,
         Step(p) \/ DownCas(p) \/ DownCasFail(p)
  PROVE  TypeOK'
<1>1. p \in Proc /\ p[1] = r /\ p[2] = t /\ TypeOK
  BY DEF Proc, IInv
<1>2. NumThreads \in Nat /\ NumThreads >= 1 /\ t \in 0..(NumThreads - 1)
  BY SizesAssumption DEF Tid
<1>3. CASE Body(p)
  <2> DEFINE l == Loop(loop[p], nrep)
             n == i[p] + l.inc
  <2>1. n \in Nat /\ i[p] \in Nat
    BY <1>1, CountsAssumption DEF TypeOK, Loop, Bigger
  <2>2. CASE Return(p, "body", n, "count") /\ UNCHANGED queries
    BY <1>1, <1>3, <2>1, <2>2, TypeReturn DEF Body, TypeOK, sharedVars
  <2>3. CASE /\ i' = [i EXCEPT ![p] = n]
             /\ Goto(p, "body", IF n < l.min THEN "body" ELSE "measure")
             /\ queries' = [queries EXCEPT ![p] = IF n < l.min THEN @ ELSE @ + 1]
             /\ UNCHANGED <<loop, iterations>>
    <3>1. UNCHANGED <<nrep, sharedVars, dt, ex_d>>
      BY <1>3 DEF Body
    <3> HIDE DEF n, l
    <3>2. QED
      BY <1>1, <2>1, <2>3, <3>1 DEF TypeOK, sharedVars, Goto, Location
  <2>4. QED
    BY <1>3, <2>2, <2>3 DEF Body
<1>4. CASE Test(p)
  <2>1. CASE dt[p].up
    BY <1>1, <1>4, <2>1, TypeReturn DEF Test, TypeOK, sharedVars
  <2>2. CASE ~dt[p].up
    BY <1>1, <1>4, <2>2 DEF Test, TypeOK, sharedVars, Goto, Location
  <2>3. QED
    BY <2>1, <2>2
<1>5. CASE MeasureOnly(p)
  BY <1>1, <1>5 DEF MeasureOnly, TypeOK, sharedVars, loopVars, Goto, Location
<1>6. CASE BcastRoot(p)
  <2>1. PICK up \in BOOLEAN :
              /\ bcasts' = Append(bcasts, up)
              /\ dt' = [dt EXCEPT ![p] = [query |-> queries[p], up |-> up]]
    BY <1>6 DEF BcastRoot
  <2>2. bcasts' \in Seq(BOOLEAN) /\ dt' \in [Proc -> Answer]
    BY <1>1, <2>1 DEF TypeOK, Answer
  <2>3. QED
    BY <1>1, <1>6, <2>2 DEF BcastRoot, TypeOK, loopVars, Goto, Location
<1>7. CASE BcastOther(p)
  <2>1. bcasts[queries[p]] \in BOOLEAN
    BY <1>1, <1>7 DEF BcastOther, IInv, ThreadInv, TypeOK, Goto, Asking
  <2>2. QED
    BY <1>1, <1>7, <2>1
       DEF BcastOther, TypeOK, sharedVars, loopVars, Goto, Location, Answer
<1>8. CASE Publish(p)
  BY <1>1, <1>8 DEF Publish, TypeOK, loopVars, Goto, Location
<1>9. CASE Up(p)
  BY <1>1, <1>2, <1>9 DEF Up, TypeOK, loopVars, Goto, Location, m_num_threads
<1>10. CASE UpReset(p)
  BY <1>1, <1>2, <1>10
     DEF UpReset, TypeOK, loopVars, Goto, Location, m_num_threads
<1>11. CASE UpSpin(p)
  BY <1>1, <1>11 DEF UpSpin, TypeOK, sharedVars, loopVars, Goto, Location
<1>12. CASE Read(p)
  BY <1>1, <1>12 DEF Read, TypeOK, sharedVars, loopVars, Goto, Location
<1>13. CASE DownLoad(p)
  BY <1>1, <1>13 DEF DownLoad, TypeOK, sharedVars, loopVars, Goto, Location
<1>14. CASE DownCas(p)
  <2>1. m_count_down[r] # 0
    <3>1. RankDown(r) \/ m_count_down[r] = NumThreads
      BY DEF IInv, RankInv, RankUp
    <3>2. ASSUME RankDown(r) PROVE m_count_down[r] # 0
      <4>1. Departed(r) \in SUBSET Tid /\ t \notin Departed(r)
        BY <1>1, <1>14 DEF Departed, DownCas, Goto
      <4>2. QED
        BY <1>2, <3>2, <4>1, OneMore, SubsetCount DEF RankDown
    <3>3. QED
      BY <1>2, <3>1, <3>2
  <2>2. m_count_down[r] - 1 \in 0..m_num_threads
    BY <1>1, <1>2, <2>1 DEF TypeOK, m_num_threads
  <2>3. QED
    BY <1>1, <1>14, <2>2 DEF DownCas, TypeOK, loopVars, Goto, Location
<1>15. CASE DownCasFail(p)
  BY <1>1, <1>15 DEF DownCasFail, TypeOK, sharedVars, loopVars, Goto, Location
<1>16. CASE DownReset(p)
  BY <1>1, <1>2, <1>16
     DEF DownReset, TypeOK, loopVars, Goto, Location, m_num_threads
<1>17. CASE DownSpin(p)
  BY <1>1, <1>17 DEF DownSpin, TypeOK, sharedVars, loopVars, Goto, Location
<1>18. QED
  BY <1>3, <1>4, <1>5, <1>6, <1>7, <1>8, <1>9, <1>10, <1>11, <1>12, <1>13,
     <1>14, <1>15, <1>16, <1>17 DEF Step

(***************************************************************************)
(* Between the loops' bodies and count_up: the rank counts up, and the step   *)
(* neither counts nor ends a query.                                         *)
(***************************************************************************)
LEMMA QuietUpRank ==
  ASSUME IInv, TypeOK', NEW r \in Rank, NEW t \in Tid, OnlyOf(r, t),
         UNCHANGED <<m_count_up, m_count_down>>,
         pc[<<r, t>>] \in {"body", "test", "measure", "publish"},
         pc'[<<r, t>>] \in {"body", "done", "measure", "publish", "up"},
         Over(<<r, t>>)' = Over(<<r, t>>),
         t = 0 /\ pc'[<<r, 0>>] = "up" => m_dt'[r] = Ans(queries[<<r, 0>>])',
         t # 0 => m_dt'[r] = m_dt[r] /\ bcasts' = bcasts
  PROVE  RankInv(r)'
<1>1. \A u \in Tid : <<r, u>> \in Proc
  BY DEF Proc
<1>2. \A u \in Tid \ {t} : /\ pc'[<<r, u>>] = pc[<<r, u>>]
                           /\ queries'[<<r, u>>] = queries[<<r, u>>]
  BY <1>1 DEF OnlyOf
<1>3. RankUp(r)
  BY DEF IInv, RankInv, RankDown
<1>4. 0 \in Tid
  BY SizesAssumption DEF Tid
<1>5. RankUp(r)'
  BY <1>2, <1>3, <1>4 DEF RankUp, Ans
<1>6. \A u \in Tid : Over(<<r, u>>)' = Over(<<r, u>>)
  BY <1>2 DEF Over
<1>7. QED
  BY <1>5, <1>6 DEF RankInv, IInv

LEMMA QuietUpInv ==
  ASSUME IInv, TypeOK', NEW r \in Rank, NEW t \in Tid, NEW p, p = <<r, t>>,
         Body(p) \/ Test(p) \/ MeasureOnly(p)
  PROVE  IInv'
<1>1. p \in Proc /\ p[1] = r /\ p[2] = t /\ TypeOK /\ ThreadInv(p) /\ RootInv
  BY DEF Proc, IInv
<1> DEFINE l == Loop(loop[p], nrep)
<1>2. /\ UNCHANGED <<m_dt, m_count_up, m_count_down, bcasts, dt>>
      /\ \A q \in Proc : q # p => /\ pc'[q] = pc[q] /\ loop'[q] = loop[q]
                                  /\ queries'[q] = queries[q]
  BY <1>1 DEF TypeOK, Body, Test, MeasureOnly, Return, Goto, sharedVars, loopVars
<1>3. /\ pc[p] \in {"body", "test", "measure"}
      /\ pc'[p] \in {"body", "done", "measure", "up"}
      /\ pc[p] = "measure" <=> pc'[p] = "up"
      /\ pc'[p] = "up" => t # 0
      /\ pc'[p] = "done" <=> loop'[p] = 3
      /\ queries'[p] = queries[p] + (IF pc'[p] = "measure" THEN 1 ELSE 0)
  <2>1. CASE MeasureOnly(p)
    BY <1>1, <2>1 DEF TypeOK, MeasureOnly, Goto, loopVars, ThreadInv
  <2>2. CASE Test(p)
    <3>1. pc[p] = "test" /\ loop[p] \in 1..2 /\ queries' = queries
      BY <1>1, <2>2 DEF TypeOK, Test, Return, Goto, ThreadInv
    <3>2. CASE dt[p].up
      <4>1. Return(p, "test", i[p], "time")
        BY <2>2, <3>2 DEF Test
      <4>2. QED
        BY <1>1, <3>1, <4>1 DEF TypeOK, Return, Goto
    <3>3. CASE ~dt[p].up
      <4>1. Goto(p, "test", "body") /\ UNCHANGED loop
        BY <2>2, <3>3 DEF Test
      <4>2. QED
        BY <1>1, <3>1, <4>1 DEF TypeOK, Goto
    <3>4. QED
      BY <3>2, <3>3
  <2>3. CASE Body(p)
    <3>1. pc[p] = "body" /\ loop[p] \in 1..2 /\ queries[p] \in Nat
      BY <1>1, <2>3 DEF TypeOK, Body, ThreadInv
    <3>2. CASE Return(p, "body", i[p] + l.inc, "count") /\ UNCHANGED queries
      BY <1>1, <3>1, <3>2 DEF TypeOK, Return, Goto
    <3>3. CASE /\ Goto(p, "body", IF i[p] + l.inc < l.min THEN "body" ELSE "measure")
               /\ queries' = [queries EXCEPT
                                ![p] = IF i[p] + l.inc < l.min THEN @ ELSE @ + 1]
               /\ UNCHANGED <<loop, iterations>>
      <4> HIDE DEF l
      <4>1. QED
        BY <1>1, <3>1, <3>3 DEF TypeOK, Goto
    <3>4. QED
      BY <2>3, <3>2, <3>3 DEF Body
  <2>4. QED
    BY <2>1, <2>2, <2>3
<1>4. queries[p] \in Nat /\ Len(bcasts) \in Nat
  BY <1>1 DEF TypeOK
<1>5. OnlyOf(r, t) /\ BcastsKept
  BY <1>2, <1>4 DEF OnlyOf, BcastsKept
<1>6. Over(p)' = Over(p)
  BY <1>3, <1>4 DEF Over, Asking
<1>7. RankInv(r)'
  BY <1>2, <1>3, <1>5, <1>6, QuietUpRank
<1>8. ThreadInv(p)'
  BY <1>1, <1>2, <1>3, <1>4 DEF ThreadInv, Asking, Answered
<1>9. p = <<0, 0>> => RootInv'
  BY <1>1, <1>2, <1>3, <1>4 DEF RootInv
<1>10. QED
  BY <1>2, <1>5, <1>7, <1>8, <1>9, StepInv

\* What Append adds, and what it keeps.
LEMMA Appended ==
  ASSUME NEW S, NEW s \in Seq(S), NEW e \in S
  PROVE  /\ Len(Append(s, e)) = Len(s) + 1
         /\ Append(s, e)[Len(s) + 1] = e
         /\ \A k \in 1..Len(s) : Append(s, e)[k] = s[k]
OBVIOUS

(***************************************************************************)
(* Thread 0 of a rank takes the answer: the root adds one, the others take    *)
(* the one to their own query.                                              *)
(***************************************************************************)
LEMMA BcastInv ==
  ASSUME IInv, TypeOK', NEW r \in Rank, NEW t \in Tid, NEW p, p = <<r, t>>,
         BcastRoot(p) \/ BcastOther(p)
  PROVE  IInv'
<1>1. p \in Proc /\ p[1] = r /\ p[2] = t /\ TypeOK /\ ThreadInv(p) /\ RootInv
  BY DEF Proc, IInv
<1>2. /\ UNCHANGED <<m_dt, m_count_up, m_count_down, loop, queries>>
      /\ \A q \in Proc : q # p => pc'[q] = pc[q] /\ dt'[q] = dt[q]
      /\ pc[p] = "measure" /\ pc'[p] = "publish" /\ t = 0
  BY <1>1 DEF TypeOK, BcastRoot, BcastOther, Goto, sharedVars, loopVars
<1>3. queries[p] \in Nat /\ queries[p] >= 1 /\ Len(bcasts) \in Nat
  BY <1>1, <1>2 DEF TypeOK, ThreadInv, Asking
<1>4. /\ BcastsKept /\ queries[p] <= Len(bcasts') /\ dt'[p] = Ans(queries[p])'
      /\ p = <<0, 0>> \/ bcasts' = bcasts
      /\ p = <<0, 0>> => Len(bcasts') = queries[p]
  <2>1. CASE BcastRoot(p)
    <3>1. PICK up \in BOOLEAN :
            /\ bcasts' = Append(bcasts, up)
            /\ dt' = [dt EXCEPT ![p] = [query |-> queries[p], up |-> up]]
      BY <2>1 DEF BcastRoot
    <3>2. p = <<0, 0>> /\ Len(bcasts) = queries[p] - 1
      BY <1>1, <1>2, <2>1 DEF BcastRoot, RootInv
    <3>3. /\ Len(bcasts') = queries[p] /\ bcasts'[queries[p]] = up
          /\ \A k \in 1..Len(bcasts) : bcasts'[k] = bcasts[k]
      <4>1. /\ Len(bcasts') = Len(bcasts) + 1 /\ bcasts'[Len(bcasts) + 1] = up
            /\ \A k \in 1..Len(bcasts) : bcasts'[k] = bcasts[k]
        BY <1>1, <3>1, Appended DEF TypeOK
      <4>2. Len(bcasts) + 1 = queries[p]
        BY <1>3, <3>2
      <4>3. QED
        BY <4>1, <4>2
    <3>4. dt'[p] = [query |-> queries[p], up |-> up]
      BY <1>1, <3>1 DEF TypeOK
    <3>5. dt'[p] = Ans(queries[p])'
      BY <1>2, <3>3, <3>4, Zenon DEF Ans
    <3>6. BcastsKept
      <4>1. Len(bcasts) <= Len(bcasts')
        BY <1>3, <3>2, <3>3
      <4>2. QED
        BY <3>3, <4>1 DEF BcastsKept
    <3>7. queries[p] <= Len(bcasts')
      BY <1>3, <3>3
    <3>8. QED
      BY <3>2, <3>3, <3>5, <3>6, <3>7
  <2>2. CASE BcastOther(p)
    BY <1>1, <1>2, <1>3, <2>2
       DEF TypeOK, BcastOther, BcastsKept, Ans, sharedVars
  <2>3. QED
    BY <2>1, <2>2
<1>5. OnlyOf(r, t)
  BY <1>2 DEF OnlyOf
<1>6. Over(p)' = Over(p)
  BY <1>2 DEF Over, Asking
<1>7. RankInv(r)'
  BY <1>2, <1>5, <1>6, QuietUpRank
<1>8. ThreadInv(p)'
  BY <1>1, <1>2, <1>3, <1>4 DEF ThreadInv, Asking, Answered
<1>9. p = <<0, 0>> => RootInv'
  BY <1>2, <1>4 DEF RootInv
<1>10. QED
  BY <1>4, <1>5, <1>7, <1>8, <1>9, StepInv

\* Thread 0 writes the answer to its own query while nobody reads.
LEMMA PublishInv ==
  ASSUME IInv, TypeOK', NEW r \in Rank, NEW t \in Tid, NEW p, p = <<r, t>>,
         Publish(p)
  PROVE  IInv'
<1>1. p \in Proc /\ p[1] = r /\ p[2] = t /\ TypeOK /\ ThreadInv(p) /\ RootInv
  BY DEF Proc, IInv
<1>2. /\ UNCHANGED <<bcasts, m_count_up, m_count_down, loop, queries, dt>>
      /\ \A q \in Proc : q # p => pc'[q] = pc[q]
      /\ \A s \in Rank : s # r => m_dt'[s] = m_dt[s]
      /\ pc[p] = "publish" /\ pc'[p] = "up" /\ t = 0 /\ m_dt'[r] = dt[p]
  BY <1>1 DEF TypeOK, ThreadInv, Publish, Goto, loopVars
<1>3. queries[p] \in Nat /\ Len(bcasts) \in Nat
  BY <1>1 DEF TypeOK
<1>4. OnlyOf(r, t) /\ BcastsKept
  BY <1>2, <1>3 DEF OnlyOf, BcastsKept
<1>5. Over(p)' = Over(p)
  BY <1>2 DEF Over, Asking
<1>6. m_dt'[r] = Ans(queries[p])'
  BY <1>1, <1>2 DEF ThreadInv, Ans
<1>7. RankInv(r)'
  BY <1>2, <1>4, <1>5, <1>6, QuietUpRank
<1>8. ThreadInv(p)'
  BY <1>1, <1>2, <1>3 DEF ThreadInv, Asking, Answered, Ans
<1>9. p = <<0, 0>> => RootInv'
  BY <1>1, <1>2 DEF RootInv
<1>10. QED
  BY <1>2, <1>4, <1>7, <1>8, <1>9, StepInv

(***************************************************************************)
(* count_up                                                                 *)
(***************************************************************************)
\* The threads that have counted up are those below the counter.
LEMMA UpInv ==
  ASSUME IInv, TypeOK', NEW r \in Rank, NEW t \in Tid, NEW p, p = <<r, t>>, Up(p)
  PROVE  IInv'
<1>1. p \in Proc /\ p[1] = r /\ p[2] = t /\ TypeOK /\ ThreadInv(p) /\ RootInv
  BY DEF Proc, IInv
<1>2. /\ UNCHANGED <<bcasts, m_dt, m_count_down, loop, queries, dt>>
      /\ \A q \in Proc : q # p => pc'[q] = pc[q]
      /\ \A s \in Rank : s # r => m_count_up'[s] = m_count_up[s]
      /\ pc[p] = "up" /\ m_count_up[r] = t /\ m_count_up'[r] = t + 1
      /\ pc'[p] \in {"up_reset", "up_spin"}
      /\ pc'[p] = "up_reset" => t = NumThreads - 1
  BY <1>1 DEF TypeOK, Up, Goto, loopVars, m_num_threads
<1>3. queries[p] \in Nat /\ Len(bcasts) \in Nat
  BY <1>1 DEF TypeOK
<1>4. OnlyOf(r, t) /\ BcastsKept
  BY <1>2, <1>3 DEF OnlyOf, BcastsKept
<1>5. \A u \in Tid : <<r, u>> \in Proc /\ u \in Nat
  BY DEF Proc, Tid
<1>6. RankUp(r)
  BY <1>2 DEF IInv, RankInv, RankDown
<1>7. RankUp(r)'
  <2>1. 0 \in Tid
    BY SizesAssumption DEF Tid
  <2>2. pc'[<<r, 0>>] \in {"up", "up_reset", "up_spin"}
          => pc[<<r, 0>>] \in {"up", "up_reset", "up_spin"}
    BY <1>2, <1>5, <2>1
  <2>3. ASSUME NEW u \in Tid
        PROVE  /\ pc'[<<r, u>>] \notin {"read", "down_load", "down_cas", "down_reset"}
               /\ pc'[<<r, u>>] \in {"up_reset", "up_spin"} <=> u < m_count_up'[r]
               /\ pc'[<<r, u>>] = "up_reset" => u = NumThreads - 1
    BY <1>2, <1>5, <1>6 DEF RankUp
  <2>4. QED
    BY <1>2, <1>6, <2>2, <2>3 DEF RankUp, Ans
<1>8. \A u \in Tid : Over(<<r, u>>)' = Over(<<r, u>>)
  BY <1>2, <1>5 DEF Over, Asking
<1>9. RankInv(r)'
  BY <1>7, <1>8 DEF RankInv, IInv
<1>10. ThreadInv(p)'
  BY <1>1, <1>2, <1>3 DEF ThreadInv, Asking, Answered
<1>11. p = <<0, 0>> => RootInv'
  BY <1>1, <1>2 DEF RootInv
<1>12. QED
  BY <1>2, <1>4, <1>9, <1>10, <1>11, StepInv

\* The last thread resets the counter when all the others spin on it.
LEMMA UpResetInv ==
  ASSUME IInv, TypeOK', NEW r \in Rank, NEW t \in Tid, NEW p, p = <<r, t>>,
         UpReset(p)
  PROVE  IInv'
<1>1. p \in Proc /\ p[1] = r /\ p[2] = t /\ TypeOK /\ ThreadInv(p) /\ RootInv
  BY DEF Proc, IInv
<1>2. /\ UNCHANGED <<bcasts, m_dt, m_count_down, loop, queries, dt>>
      /\ \A q \in Proc : q # p => pc'[q] = pc[q]
      /\ \A s \in Rank : s # r => m_count_up'[s] = m_count_up[s]
      /\ pc[p] = "up_reset" /\ pc'[p] = "read" /\ m_count_up'[r] = 0
  BY <1>1 DEF TypeOK, UpReset, Goto, loopVars
<1>3. queries[p] \in Nat /\ Len(bcasts) \in Nat
  BY <1>1 DEF TypeOK
<1>4. OnlyOf(r, t) /\ BcastsKept
  BY <1>2, <1>3 DEF OnlyOf, BcastsKept
<1>5. \A u \in Tid : <<r, u>> \in Proc /\ u \in Nat /\ u <= NumThreads - 1
  BY SizesAssumption DEF Proc, Tid
<1>6. RankUp(r)
  BY <1>2 DEF IInv, RankInv, RankDown
<1>7. m_count_up[r] \in Nat /\ m_count_up[r] > NumThreads - 1
  BY <1>1, <1>2, <1>6, SizesAssumption DEF RankUp, TypeOK, m_num_threads
<1>8. \A u \in Tid \ {t} : pc[<<r, u>>] = "up_spin" /\ pc'[<<r, u>>] = "up_spin"
  <2>1. ASSUME NEW u \in Tid \ {t}
        PROVE  pc[<<r, u>>] = "up_spin" /\ pc'[<<r, u>>] = "up_spin"
    <3>1. u < m_count_up[r]
      <4>1. u \in Nat /\ u <= NumThreads - 1
        BY <1>5
      <4>2. QED
        BY <1>7, <4>1, SizesAssumption
    <3>2. pc[<<r, u>>] \in {"up_spin", "up_reset"}
      BY <1>6, <3>1 DEF RankUp
    <3>3. pc[<<r, u>>] # "up_reset"
      BY <1>2, <1>6 DEF RankUp
    <3>4. QED
      BY <1>2, <1>5, <3>2, <3>3
  <2>2. QED
    BY <2>1
<1>9. m_dt[r] = Ans(queries[<<r, 0>>])
  <2>1. 0 \in Tid
    BY SizesAssumption DEF Tid
  <2>2. QED
    BY <1>2, <1>6, <1>8, <2>1 DEF RankUp
<1>10. RankDown(r)'
  <2>1. Departed(r)' = {}
    BY <1>2, <1>8 DEF Departed
  <2>2. Cardinality(Departed(r)') = 0
    BY <2>1, FS_EmptySet
  <2>3. QED
    BY <1>2, <1>6, <1>8, <1>9, <2>2, SizesAssumption DEF RankDown, RankUp, Ans
<1>11. \A u \in Tid : Over(<<r, u>>)' = Over(<<r, u>>)
  BY <1>2, <1>8 DEF Over, Asking
<1>12. RankInv(r)'
  BY <1>10, <1>11 DEF RankInv, IInv
<1>13. ThreadInv(p)'
  BY <1>1, <1>2, <1>3 DEF ThreadInv, Asking, Answered
<1>14. p = <<0, 0>> => RootInv'
  BY <1>1, <1>2 DEF RootInv
<1>15. QED
  BY <1>2, <1>4, <1>12, <1>13, <1>14, StepInv

-----------------------------------------------------------------------------
(***************************************************************************)
(* count_down                                                               *)
(***************************************************************************)
\* A step of the count-down that leaves the counters alone.
LEMMA QuietDownRank ==
  ASSUME IInv, TypeOK', NEW r \in Rank, NEW t \in Tid, OnlyOf(r, t), RankDown(r),
         UNCHANGED <<m_dt, m_count_up, m_count_down, bcasts, queries>>,
         pc[<<r, t>>] \in {"up_spin", "read", "down_load", "down_cas"},
         pc'[<<r, t>>] \in {"read", "down_load", "down_cas"}
  PROVE  RankInv(r)'
<1>1. \A u \in Tid \ {t} : pc'[<<r, u>>] = pc[<<r, u>>]
  BY DEF OnlyOf, Proc
<1>2. Departed(r)' = Departed(r)
  BY <1>1 DEF Departed
<1>3. RankDown(r)'
  BY <1>1, <1>2 DEF RankDown, Ans
<1>4. \A u \in Tid : Over(<<r, u>>)' = Over(<<r, u>>)
  BY <1>1 DEF Over, Asking
<1>5. QED
  BY <1>3, <1>4 DEF RankInv, IInv

\* A thread leaves count_up after the reset, and reads the answer to its own
\* query: its rank is all in the same one.
LEMMA QuietDownInv ==
  ASSUME IInv, TypeOK', NEW r \in Rank, NEW t \in Tid, NEW p, p = <<r, t>>,
         UpSpin(p) \/ Read(p) \/ DownLoad(p) \/ DownCasFail(p)
  PROVE  IInv'
<1>1. p \in Proc /\ p[1] = r /\ p[2] = t /\ TypeOK /\ ThreadInv(p) /\ RootInv
  BY DEF Proc, IInv
<1>2. /\ UNCHANGED <<bcasts, m_dt, m_count_up, m_count_down, loop, queries>>
      /\ \A q \in Proc : q # p => pc'[q] = pc[q] /\ dt'[q] = dt[q]
      /\ pc[p] \in {"up_spin", "read", "down_load", "down_cas"}
      /\ pc'[p] \in {"read", "down_load", "down_cas"}
      /\ pc[p] = "up_spin" <=> pc'[p] = "read"
      /\ pc[p] = "up_spin" => m_count_up[r] = 0
      /\ IF pc[p] = "read" THEN dt'[p] = m_dt[r] ELSE dt'[p] = dt[p]
  BY <1>1 DEF TypeOK, UpSpin, Read, DownLoad, DownCasFail, Goto, loopVars, sharedVars
<1>3. queries[p] \in Nat /\ Len(bcasts) \in Nat
  BY <1>1 DEF TypeOK
<1>4. OnlyOf(r, t) /\ BcastsKept
  BY <1>2, <1>3 DEF OnlyOf, BcastsKept
<1>5. RankDown(r)
  <2>1. t \in Nat
    BY DEF Tid
  <2>2. ~RankUp(r)
    BY <1>2, <2>1 DEF RankUp
  <2>3. QED
    BY <2>2 DEF IInv, RankInv
<1>6. RankInv(r)'
  BY <1>2, <1>4, <1>5, QuietDownRank
<1>7. m_dt[r] = Ans(queries[p]) /\ queries[p] <= Len(bcasts)
  <2>1. 0 \in Tid /\ <<r, 0>> \in Proc
    BY SizesAssumption DEF Proc, Tid
  <2>2. queries[p] = queries[<<r, 0>>]
    BY <1>5, <2>1, DownQueries
  <2>3. queries[<<r, 0>>] <= Len(bcasts)
    BY <1>5, <2>1 DEF IInv, ThreadInv, RankDown, Asking
  <2>4. QED
    BY <1>5, <2>2, <2>3 DEF RankDown
<1>8. dt'[p] = IF pc[p] = "read" THEN Ans(queries[p]) ELSE dt[p]
  BY <1>2, <1>7
<1>9. ThreadInv(p)'
  BY <1>1, <1>2, <1>3, <1>7, <1>8 DEF ThreadInv, Asking, Answered, Ans
<1>10. p = <<0, 0>> => RootInv'
  BY <1>1, <1>2 DEF RootInv
<1>11. QED
  BY <1>2, <1>4, <1>6, <1>9, <1>10, StepInv

\* A compare-exchange counts its thread out, and the last to count resets.
LEMMA DownCasInv ==
  ASSUME IInv, TypeOK', NEW r \in Rank, NEW t \in Tid, NEW p, p = <<r, t>>,
         DownCas(p)
  PROVE  IInv'
<1>1. p \in Proc /\ p[1] = r /\ p[2] = t /\ TypeOK /\ ThreadInv(p) /\ RootInv
  BY DEF Proc, IInv
<1>2. /\ UNCHANGED <<bcasts, m_dt, m_count_up, loop, queries, dt>>
      /\ \A q \in Proc : q # p => pc'[q] = pc[q]
      /\ \A s \in Rank : s # r => m_count_down'[s] = m_count_down[s]
      /\ m_count_down'[r] = m_count_down[r] - 1
      /\ pc[p] = "down_cas" /\ pc'[p] \in {"down_reset", "down_spin"}
      /\ pc'[p] = "down_reset" <=> m_count_down[r] = 1
  BY <1>1 DEF TypeOK, DownCas, Goto, loopVars
<1>3. queries[p] \in Nat /\ Len(bcasts) \in Nat
  BY <1>1 DEF TypeOK
<1>4. OnlyOf(r, t) /\ BcastsKept
  BY <1>2, <1>3 DEF OnlyOf, BcastsKept
<1>5. RankDown(r)
  BY <1>2 DEF IInv, RankInv, RankUp
<1>6. \A u \in Tid \ {t} : pc'[<<r, u>>] = pc[<<r, u>>]
  BY <1>2 DEF Proc
<1>7. Departed(r) \in SUBSET Tid /\ t \notin Departed(r)
  BY <1>2 DEF Departed
<1>8. Departed(r)' = Departed(r) \cup {t}
  BY <1>2, <1>6 DEF Departed
<1>9. /\ m_count_down'[r] = NumThreads - Cardinality(Departed(r)')
      /\ m_count_down[r] >= 1 /\ m_count_down'[r] # NumThreads
      /\ m_count_down[r] \in Nat
  <2>1. /\ Cardinality(Departed(r)) \in 0..NumThreads
        /\ Cardinality(Departed(r)) < NumThreads
        /\ Cardinality(Departed(r)') = Cardinality(Departed(r)) + 1
    BY <1>7, <1>8, OneMore, SubsetCount
  <2>2. QED
    BY <1>2, <1>5, <2>1, SizesAssumption DEF RankDown
<1>10. \A u \in Tid : pc[<<r, u>>] # "down_reset"
  BY <1>5, <1>9 DEF RankDown
<1>11. RankDown(r)'
  <2>1. \A u \in Tid : pc'[<<r, u>>] = "down_reset" => u = t /\ m_count_down'[r] = 0
    BY <1>2, <1>6, <1>9, <1>10
  <2>2. \A u \in Tid : pc'[<<r, u>>] \in {"up_spin", "read", "down_load", "down_cas",
                                         "down_reset", "down_spin"}
    BY <1>2, <1>5, <1>6 DEF RankDown
  <2>3. QED
    BY <1>2, <1>5, <1>9, <2>1, <2>2 DEF RankDown, Ans
<1>12. \A u \in Tid : Over(<<r, u>>)' = queries[<<r, u>>] - 1
  BY <1>2, <1>9, <1>11 DEF Over, Asking, RankDown, m_num_threads
<1>13. RankInv(r)'
  BY <1>5, <1>11, <1>12, DownQueries DEF RankInv
<1>14. ThreadInv(p)'
  BY <1>1, <1>2, <1>3 DEF ThreadInv, Asking, Answered, Ans
<1>15. p = <<0, 0>> => RootInv'
  BY <1>1, <1>2 DEF RootInv
<1>16. QED
  BY <1>2, <1>4, <1>13, <1>14, <1>15, StepInv

\* The last thread refills the counter: all the others spin on it, and their
\* query is over from then on.
LEMMA DownResetInv ==
  ASSUME IInv, TypeOK', NEW r \in Rank, NEW t \in Tid, NEW p, p = <<r, t>>,
         DownReset(p)
  PROVE  IInv'
<1>1. p \in Proc /\ p[1] = r /\ p[2] = t /\ TypeOK /\ ThreadInv(p) /\ RootInv
  BY DEF Proc, IInv
<1>2. /\ UNCHANGED <<bcasts, m_dt, m_count_up, loop, queries, dt>>
      /\ \A q \in Proc : q # p => pc'[q] = pc[q]
      /\ \A s \in Rank : s # r => m_count_down'[s] = m_count_down[s]
      /\ m_count_down'[r] = NumThreads
      /\ pc[p] = "down_reset" /\ pc'[p] = "test"
  BY <1>1 DEF TypeOK, DownReset, Goto, loopVars, m_num_threads
<1>3. queries[p] \in Nat /\ Len(bcasts) \in Nat
  BY <1>1 DEF TypeOK
<1>4. OnlyOf(r, t) /\ BcastsKept
  BY <1>2, <1>3 DEF OnlyOf, BcastsKept
<1>5. RankDown(r) /\ m_count_down[r] = 0
  BY <1>2 DEF IInv, RankInv, RankUp, RankDown
<1>6. Departed(r) = Tid
  <2>1. Departed(r) \in SUBSET Tid
    BY DEF Departed
  <2>2. Cardinality(Departed(r)) = NumThreads
    BY <1>5, <2>1, SubsetCount, SizesAssumption DEF RankDown
  <2>3. QED
    BY <2>1, <2>2, SubsetCount
<1>7. \A u \in Tid \ {t} : pc[<<r, u>>] = "down_spin" /\ pc'[<<r, u>>] = "down_spin"
  BY <1>2, <1>5, <1>6 DEF RankDown, Departed, Proc
<1>8. RankUp(r)'
  <2>1. 0 \in Tid /\ \A u \in Tid : u \in Nat
    BY SizesAssumption DEF Tid
  <2>2. m_count_up'[r] = 0
    BY <1>2, <1>5 DEF RankDown
  <2>3. QED
    BY <1>2, <1>7, <2>1, <2>2 DEF RankUp
<1>9. \A u \in Tid : Over(<<r, u>>)' = queries[<<r, u>>]
  <2>1. \A u \in Tid : queries[<<r, u>>] \in Nat
    BY <1>1 DEF TypeOK, Proc
  <2>2. QED
    BY <1>2, <1>7, <2>1 DEF Over, Asking
<1>10. RankInv(r)'
  BY <1>5, <1>8, <1>9, DownQueries DEF RankInv
<1>11. ThreadInv(p)'
  BY <1>1, <1>2, <1>3 DEF ThreadInv, Asking, Answered, Ans
<1>12. p = <<0, 0>> => RootInv'
  BY <1>1, <1>2 DEF RootInv
<1>13. QED
  BY <1>2, <1>4, <1>10, <1>11, <1>12, StepInv

\* A thread that spins on m_count_down leaves only when it was refilled.
LEMMA DownSpinInv ==
  ASSUME IInv, TypeOK', NEW r \in Rank, NEW t \in Tid, NEW p, p = <<r, t>>,
         DownSpin(p)
  PROVE  IInv'
<1>1. p \in Proc /\ p[1] = r /\ p[2] = t /\ TypeOK /\ ThreadInv(p) /\ RootInv
  BY DEF Proc, IInv
<1>2. /\ UNCHANGED <<bcasts, m_dt, m_count_up, m_count_down, loop, queries, dt>>
      /\ \A q \in Proc : q # p => pc'[q] = pc[q]
      /\ pc[p] = "down_spin" /\ pc'[p] = "test" /\ m_count_down[r] = NumThreads
  BY <1>1 DEF TypeOK, DownSpin, Goto, loopVars, sharedVars, m_num_threads
<1>3. queries[p] \in Nat /\ Len(bcasts) \in Nat
  BY <1>1 DEF TypeOK
<1>4. OnlyOf(r, t) /\ BcastsKept
  BY <1>2, <1>3 DEF OnlyOf, BcastsKept
<1>5. RankUp(r)
  <2>1. Departed(r) \in SUBSET Tid /\ Departed(r) # {}
    BY <1>2 DEF Departed
  <2>2. Cardinality(Departed(r)) \in 1..NumThreads
    BY <2>1, SubsetCount, SizesAssumption
  <2>3. ~RankDown(r)
    BY <1>2, <2>2, SizesAssumption DEF RankDown
  <2>4. QED
    BY <2>3 DEF IInv, RankInv
<1>6. \A u \in Tid \ {t} : pc'[<<r, u>>] = pc[<<r, u>>]
  BY <1>2 DEF Proc
<1>7. RankUp(r)'
  <2>1. 0 \in Tid
    BY SizesAssumption DEF Tid
  <2>2. pc'[<<r, 0>>] \in {"up", "up_reset", "up_spin"} => pc'[<<r, 0>>] = pc[<<r, 0>>]
    BY <1>2, <1>6, <2>1
  <2>3. \A u \in Tid :
          /\ pc'[<<r, u>>] \notin {"read", "down_load", "down_cas", "down_reset"}
          /\ pc'[<<r, u>>] \in {"up_reset", "up_spin"} <=> u < m_count_up[r]
          /\ pc'[<<r, u>>] = "up_reset" => u = NumThreads - 1
    BY <1>2, <1>5, <1>6 DEF RankUp
  <2>4. QED
    BY <1>2, <1>5, <2>2, <2>3 DEF RankUp, Ans
<1>8. \A u \in Tid : Over(<<r, u>>)' = Over(<<r, u>>)
  <2>1. Over(p) = queries[p] /\ Over(p)' = queries[p]
    BY <1>1, <1>2, <1>3 DEF Over, Asking
  <2>2. \A u \in Tid \ {t} : Over(<<r, u>>)' = Over(<<r, u>>)
    BY <1>2, <1>6 DEF Over
  <2>3. QED
    BY <2>1, <2>2
<1>9. RankInv(r)'
  BY <1>7, <1>8 DEF RankInv, IInv
<1>10. ThreadInv(p)'
  BY <1>1, <1>2, <1>3 DEF ThreadInv, Asking, Answered, Ans
<1>11. p = <<0, 0>> => RootInv'
  BY <1>1, <1>2 DEF RootInv
<1>12. QED
  BY <1>2, <1>4, <1>9, <1>10, <1>11, StepInv

-----------------------------------------------------------------------------
(***************************************************************************)
(* No step breaks the invariant, and neither does a step that changes       *)
(* nothing.                                                                 *)
(***************************************************************************)
LEMMA NextInv == IInv /\ [Next]_vars => IInv'
<1> SUFFICES ASSUME IInv, [Next]_vars PROVE IInv'
  OBVIOUS
<1>1. CASE UNCHANGED vars
  <2> USE <1>1 DEF vars, sharedVars, loopVars
  <2>1. TypeOK'
    BY DEF IInv, TypeOK
  <2>2. \A p \in Proc : ThreadInv(p)'
    BY DEF IInv, ThreadInv, Ans
  <2>3. ASSUME NEW r \in Rank PROVE RankInv(r)'
    <3>1. RankInv(r) /\ Departed(r)' = Departed(r)
      BY DEF IInv, Departed
    <3>2. RankUp(r)' = RankUp(r)
      BY DEF RankUp, Ans
    <3>3. RankDown(r)' = RankDown(r)
      BY <3>1 DEF RankDown, Ans
    <3>4. \A t \in Tid : Over(<<r, t>>)' = Over(<<r, t>>)
      BY DEF Over
    <3>5. QED
      BY <3>1, <3>2, <3>3, <3>4 DEF RankInv
  <2>4. RootInv'
    BY DEF IInv, RootInv
  <2>5. QED
    BY <2>1, <2>2, <2>3, <2>4 DEF IInv
<1>2. CASE \E p \in Proc : Step(p) \/ DownCas(p) \/ DownCasFail(p)
  <2>1. PICK p \in Proc : Step(p) \/ DownCas(p) \/ DownCasFail(p)
    BY <1>2
  <2>2. PICK r \in Rank, t \in Tid : p = <<r, t>>
    BY DEF Proc
  <2>3. TypeOK'
    BY <2>1, <2>2, TypeStep
  <2>4. QED
    BY <2>1, <2>2, <2>3, QuietUpInv, BcastInv, PublishInv, UpInv, UpResetInv,
       QuietDownInv, DownCasInv, DownResetInv, DownSpinInv DEF Step
<1>3. QED
  BY <1>1, <1>2 DEF Next, Done

(***************************************************************************)
(* The invariant holds in every reachable state, however many ranks and     *)
(* threads there are and whatever the clock says.                           *)
(***************************************************************************)
THEOREM Invariance == Spec => []IInv
<1>1. Init => IInv
  BY InitInv
<1>2. IInv /\ [Next]_vars => IInv'
  BY NextInv
<1>3. QED
  BY <1>1, <1>2, PTL DEF Spec

(***************************************************************************)
(* Counters, answers and results have the types the code gives them.        *)
(***************************************************************************)
THEOREM TypeCorrect == Spec => []TypeOK
<1>1. IInv => TypeOK
  BY DEF IInv
<1>2. QED
  BY <1>1, Invariance, PTL

(***************************************************************************)
(* A thread that returns from bcast has the answer to the query it made: no   *)
(* thread reads m_dt before thread 0 has written it, or after thread 0 has    *)
(* written the next.                                                        *)
(***************************************************************************)
THEOREM OwnAnswers == Spec => []ActsOnOwnAnswer
<1>1. IInv => ActsOnOwnAnswer
  BY DEF IInv, ThreadInv, Answered, Ans, ActsOnOwnAnswer
<1>2. QED
  BY <1>1, Invariance, PTL

-----------------------------------------------------------------------------
(***************************************************************************)
(* All threads of all ranks leave the loops after the same iterations.         *)
(* What repeat_for does with the answers is the same for all threads: where a  *)
(* thread is in its loops decides, with the answer to its query, where it goes  *)
(* from there.                                                              *)
(***************************************************************************)
Result == [n : Nat, by : {"count", "time"}]
Local == [loop : 1..3, i : Nat, queries : Nat, iterations : Seq(Result), asking : BOOLEAN]

\* Where p is in its loops.
LocalOf(p) == [loop |-> loop[p], i |-> i[p], queries |-> queries[p],
               iterations |-> iterations[p], asking |-> pc[p] \in Asking \cup {"test"}]

Returned(l, n, by) == [loop |-> l.loop + 1, i |-> 0, queries |-> l.queries,
                       iterations |-> Append(l.iterations, [n |-> n, by |-> by]),
                       asking |-> FALSE]

AfterBody(l) ==
    LET L == Loop(l.loop, nrep)
        n == l.i + L.inc
    IN  IF L.max # Unlimited /\ n >= L.max THEN Returned(l, n, "count")
        ELSE [loop |-> l.loop, i |-> n, iterations |-> l.iterations,
              queries |-> IF n < L.min THEN l.queries ELSE l.queries + 1,
              asking |-> ~(n < L.min)]

AfterTest(l) ==
    IF bcasts[l.queries] THEN Returned(l, l.i, "time")
    ELSE [loop |-> l.loop, i |-> l.i, iterations |-> l.iterations,
          queries |-> l.queries, asking |-> FALSE]

Successor(l) == IF l.asking THEN AfterTest(l) ELSE AfterBody(l)

Begins(s, t) == Len(s) <= Len(t) /\ \A x \in 1..Len(s) : s[x] = t[x]

(***************************************************************************)
(* There is one way through the loops, h, as long as the answers so far lead,  *)
(* and every thread is somewhere on it.                                     *)
(***************************************************************************)
Way(n, h) ==
    /\ \A j \in 1..(n - 1) : /\ h[j].asking => h[j].queries \in 1..Len(bcasts)
                             /\ h[j + 1] = Successor(h[j])
    /\ \A j, k \in 1..n : j <= k => Begins(h[j].iterations, h[k].iterations)
    /\ \A p \in Proc : \E j \in 1..n : LocalOf(p) = h[j]

OneWay == \E n \in Nat \ {0} : \E h \in [1..n -> Local] : Way(n, h)

\* A sequence with something appended begins like it.
LEMMA AppendBegins ==
  ASSUME NEW s \in Seq(Result), NEW x \in Result
  PROVE  Append(s, x) \in Seq(Result) /\ Begins(s, Append(s, x))
BY DEF Begins

\* An earlier part of a beginning is a beginning.
LEMMA BeginsTransitive ==
  ASSUME NEW s \in Seq(Result), NEW t \in Seq(Result), NEW u \in Seq(Result),
         Begins(s, t), Begins(t, u)
  PROVE  Begins(s, u)
BY DEF Begins

\* At first all threads are at the same place.
LEMMA OneWayInit == Init => OneWay
<1> SUFFICES ASSUME Init PROVE OneWay
  OBVIOUS
<1> DEFINE l == [loop |-> 1, i |-> 0, queries |-> 0, iterations |-> <<>>, asking |-> FALSE]
           h == [j \in 1..1 |-> l]
<1>1. ASSUME NEW p \in Proc PROVE LocalOf(p) = l
  <2>1. (pc[p] \in Asking \cup {"test"}) = FALSE
    BY DEF Init, Asking
  <2>2. loop[p] = 1 /\ i[p] = 0 /\ queries[p] = 0 /\ iterations[p] = <<>>
    BY DEF Init
  <2>3. QED
    BY <2>1, <2>2 DEF LocalOf
<1>2. h \in [1..1 -> Local]
  <2>1. l \in Local
    BY DEF Local
  <2>2. QED
    BY <2>1
<1>3. Way(1, h)
  <2>1. \A j, k \in 1..1 : j <= k => Begins(h[j].iterations, h[k].iterations)
    BY DEF Begins
  <2>2. \A p \in Proc : \E j \in 1..1 : LocalOf(p) = h[j]
    BY <1>1
  <2>3. QED
    BY <2>1, <2>2 DEF Way
<1> HIDE DEF h
<1>4. \E g \in [1..1 -> Local] : Way(1, g)
  BY <1>2, <1>3
<1>5. 1 \in Nat \ {0}
  OBVIOUS
<1>6. QED
  BY <1>4, <1>5 DEF OneWay

\* Only Body and Test move a thread in its loops.
Elsewhere(p) == \A q \in Proc : q # p => LocalOf(q)' = LocalOf(q)

\* The arguments of repeat_for are numbers.
LEMMA LoopArguments ==
  ASSUME nrep \in NReps \cup {Absent}, NEW k
  PROVE  /\ Loop(k, nrep).inc \in Nat /\ Loop(k, nrep).min \in Nat
         /\ Loop(k, nrep).max \in Int
BY CountsAssumption DEF Loop, Bigger, NumReps, Unlimited, Absent

LEMMA LocalStep ==
  ASSUME IInv, TypeOK', NEW p \in Proc, Body(p) \/ Test(p)
  PROVE  /\ Elsewhere(p) /\ bcasts' = bcasts /\ nrep' = nrep
         /\ LocalOf(p)' = Successor(LocalOf(p))
         /\ LocalOf(p).asking => LocalOf(p).queries \in 1..Len(bcasts)
         /\ Begins(iterations[p], iterations'[p])
<1>1. TypeOK /\ ThreadInv(p) /\ iterations[p] \in Seq(Result) /\ i[p] \in Nat
      /\ Len(bcasts) \in Nat /\ queries[p] \in Nat
  <2>1. TypeOK /\ ThreadInv(p)
    BY DEF IInv
  <2>2. /\ iterations \in [Proc -> Seq(Result)] /\ i \in [Proc -> Nat]
        /\ queries \in [Proc -> Nat]
    BY <2>1 DEF TypeOK, Result
  <2>3. bcasts \in Seq(BOOLEAN)
    BY <2>1 DEF TypeOK
  <2>4. Len(bcasts) \in Nat
    BY <2>3
  <2>5. QED
    BY <2>1, <2>2, <2>4
<1>2. bcasts' = bcasts /\ nrep' = nrep
  BY DEF Body, Test, sharedVars
<1>3. Begins(iterations[p], iterations[p])
  BY <1>1 DEF Begins
<1>4. ASSUME NEW n \in Nat, NEW by \in {"count", "time"}, NEW from, Return(p, from, n, by),
             queries' = queries
      PROVE  /\ Elsewhere(p)
             /\ LocalOf(p)' = Returned(LocalOf(p), n, by)
             /\ Begins(iterations[p], iterations'[p])
  <2>1. /\ iterations'[p] = Append(iterations[p], [n |-> n, by |-> by])
        /\ loop'[p] = loop[p] + 1 /\ i'[p] = 0 /\ pc'[p] \in {"done", "body"}
        /\ queries'[p] = queries[p]
    BY <1>1, <1>4 DEF Return, Goto, TypeOK
  <2>2. Elsewhere(p)
    BY <1>1, <1>4 DEF Return, Goto, TypeOK, Elsewhere, LocalOf
  <2>3. LocalOf(p)' = Returned(LocalOf(p), n, by)
    <3>1. (pc'[p] \in Asking \cup {"test"}) = FALSE
      BY <2>1 DEF Asking
    <3>2. QED
      BY <2>1, <3>1 DEF LocalOf, Returned
  <2>4. Begins(iterations[p], iterations'[p])
    BY <1>1, <2>1, AppendBegins DEF Result
  <2>5. QED
    BY <2>2, <2>3, <2>4
<1>5. CASE Body(p)
  <2> DEFINE L == Loop(loop[p], nrep)
             n == i[p] + L.inc
  <2>1. n \in Nat /\ L.max \in Int
    <3>1. nrep \in NReps \cup {Absent}
      BY <1>1 DEF TypeOK
    <3>2. L.inc \in Nat /\ L.max \in Int
      BY <3>1, LoopArguments
    <3>3. QED
      BY <1>1, <3>2
  <2>2. ~LocalOf(p).asking /\ pc[p] = "body"
    BY <1>5 DEF Body, LocalOf, Asking, Return, Goto
  <2>3. CASE L.max # Unlimited /\ n >= L.max
    <3>1. Return(p, "body", n, "count") /\ queries' = queries
      <4>1. ~(L.max = Unlimited \/ n < L.max)
        BY <2>1, <2>3
      <4>2. QED
        BY <1>5, <4>1 DEF Body
    <3>2. Successor(LocalOf(p)) = Returned(LocalOf(p), n, "count")
      BY <2>2, <2>3 DEF Successor, AfterBody, LocalOf
    <3>3. QED
      BY <1>2, <1>4, <2>1, <2>2, <3>1, <3>2
  <2>4. CASE ~(L.max # Unlimited /\ n >= L.max)
    <3>1. /\ i' = [i EXCEPT ![p] = n]
          /\ pc' = [pc EXCEPT ![p] = IF n < L.min THEN "body" ELSE "measure"]
          /\ queries' = [queries EXCEPT ![p] = IF n < L.min THEN @ ELSE @ + 1]
          /\ loop' = loop /\ iterations' = iterations
      BY <1>5, <2>4 DEF Body, Goto
    <3>2. Elsewhere(p)
      BY <1>1, <3>1 DEF Elsewhere, LocalOf, TypeOK
    <3>3. LocalOf(p)' = Successor(LocalOf(p))
      <4>1. /\ i'[p] = n /\ pc'[p] = IF n < L.min THEN "body" ELSE "measure"
            /\ queries'[p] = IF n < L.min THEN queries[p] ELSE queries[p] + 1
        BY <1>1, <3>1 DEF TypeOK
      <4>2. Successor(LocalOf(p)) = AfterBody(LocalOf(p))
        BY <2>2 DEF Successor
      <4> HIDE DEF n
      <4>3. AfterBody(LocalOf(p)) =
              [loop |-> loop[p], i |-> n, iterations |-> iterations[p],
               queries |-> IF n < L.min THEN queries[p] ELSE queries[p] + 1,
               asking |-> ~(n < L.min)]
        BY <2>4 DEF AfterBody, LocalOf, n
      <4>4. (pc'[p] \in Asking \cup {"test"}) <=> ~(n < L.min)
        BY <4>1 DEF Asking
      <4>5. QED
        BY <3>1, <4>1, <4>2, <4>3, <4>4 DEF LocalOf
    <3>4. QED
      BY <1>2, <1>3, <2>2, <3>1, <3>2, <3>3
  <2>5. QED
    BY <2>3, <2>4
<1>6. CASE Test(p)
  <2>1. pc[p] = "test" /\ LocalOf(p).asking /\ queries' = queries
    BY <1>6 DEF Test, Return, Goto, LocalOf
  <2>2. queries[p] \in 1..Len(bcasts) /\ dt[p].up = bcasts[queries[p]]
    BY <1>1, <2>1 DEF ThreadInv, Asking, Answered, Ans
  <2>3. Successor(LocalOf(p)) = AfterTest(LocalOf(p)) /\ LocalOf(p).queries = queries[p]
    BY <2>1 DEF Successor, LocalOf
  <2>4. CASE dt[p].up
    <3>1. Return(p, "test", i[p], "time")
      BY <1>6, <2>4 DEF Test
    <3>2. AfterTest(LocalOf(p)) = Returned(LocalOf(p), i[p], "time")
      BY <2>2, <2>4 DEF AfterTest, LocalOf
    <3>3. QED
      BY <1>1, <1>2, <1>4, <2>1, <2>2, <2>3, <3>1, <3>2
  <2>5. CASE ~dt[p].up
    <3>1. pc' = [pc EXCEPT ![p] = "body"] /\ UNCHANGED <<i, loop, iterations>>
      BY <1>6, <2>5 DEF Test, Goto
    <3>2. Elsewhere(p)
      BY <1>1, <2>1, <3>1 DEF Elsewhere, LocalOf, TypeOK
    <3>3. LocalOf(p)' = AfterTest(LocalOf(p))
      <4>1. (pc'[p] \in Asking \cup {"test"}) = FALSE
        BY <1>1, <3>1 DEF TypeOK, Asking
      <4>2. QED
        BY <2>1, <2>2, <2>5, <3>1, <4>1 DEF LocalOf, AfterTest
    <3>4. QED
      BY <1>2, <1>3, <2>2, <2>3, <3>1, <3>2, <3>3
  <2>6. QED
    BY <2>4, <2>5
<1>7. QED
  BY <1>5, <1>6

\* The other steps move nobody, and leave the answers that there are.
LEMMA QuietStep ==
  ASSUME TypeOK, TypeOK', NEW p \in Proc, Step(p) \/ DownCas(p) \/ DownCasFail(p),
         ~Body(p), ~Test(p)
  PROVE  /\ \A q \in Proc : LocalOf(q)' = LocalOf(q)
         /\ nrep' = nrep /\ BcastsKept
<1>1. nrep' = nrep /\ UNCHANGED loopVars
  BY DEF Step, MeasureOnly, BcastRoot, BcastOther, Publish, Up, UpReset, UpSpin, Read,
         DownLoad, DownCas, DownCasFail, DownReset, DownSpin
<1>2. BcastsKept
  <2>1. ASSUME BcastRoot(p) PROVE \E up \in BOOLEAN : bcasts' = Append(bcasts, up)
    BY <2>1 DEF BcastRoot
  <2>2. BcastRoot(p) \/ bcasts' = bcasts
    BY DEF Step, MeasureOnly, BcastOther, Publish, Up, UpReset, UpSpin, Read,
           DownLoad, DownCas, DownCasFail, DownReset, DownSpin, sharedVars
  <2>3. bcasts \in Seq(BOOLEAN)
    BY DEF TypeOK
  <2>4. QED
    BY <2>1, <2>2, <2>3 DEF BcastsKept
<1>3. \E from, to \in Asking \cup {"test"} : Goto(p, from, to)
  BY DEF Step, MeasureOnly, BcastRoot, BcastOther, Publish, Up, UpReset, UpSpin, Read,
         DownLoad, DownCas, DownCasFail, DownReset, DownSpin, Asking
<1>4. \A q \in Proc : (pc'[q] \in Asking \cup {"test"}) <=> (pc[q] \in Asking \cup {"test"})
  BY <1>3 DEF Goto, TypeOK
<1>5. \A q \in Proc : LocalOf(q)' = LocalOf(q)
  BY <1>1, <1>4 DEF LocalOf, loopVars
<1>6. QED
  BY <1>1, <1>2, <1>5

\* A way stays one when more answers come.
LEMMA WayKept ==
  ASSUME TypeOK, TypeOK', nrep' = nrep, BcastsKept,
         NEW n \in Nat \ {0}, NEW h \in [1..n -> Local], Way(n, h),
         \A p \in Proc : \E j \in 1..n : LocalOf(p)' = h[j]
  PROVE  Way(n, h)'
<1>1. Len(bcasts) \in Nat /\ Len(bcasts') \in Nat /\ Len(bcasts) <= Len(bcasts')
      /\ \A k \in 1..Len(bcasts) : bcasts'[k] = bcasts[k]
  BY DEF TypeOK, BcastsKept
<1>2. ASSUME NEW j \in 1..(n - 1)
      PROVE  /\ h[j].asking => h[j].queries \in 1..Len(bcasts')
             /\ h[j + 1] = Successor(h[j])'
  <2>1. /\ h[j].asking => h[j].queries \in 1..Len(bcasts)
        /\ h[j + 1] = Successor(h[j])
    BY DEF Way
  <2>2. h[j].asking => AfterTest(h[j])' = AfterTest(h[j])
    BY <1>1, <2>1 DEF AfterTest, Returned
  <2>3. AfterBody(h[j])' = AfterBody(h[j])
    BY DEF AfterBody, Returned
  <2>4. QED
    BY <1>1, <2>1, <2>2, <2>3 DEF Successor
<1>3. QED
  BY <1>2 DEF Way

\* A thread that moves goes on along the way, or makes it longer.
LEMMA WayGoesOn ==
  ASSUME IInv, TypeOK', NEW p \in Proc, Body(p) \/ Test(p), OneWay
  PROVE  OneWay'
<1>1. /\ Elsewhere(p) /\ bcasts' = bcasts /\ nrep' = nrep
      /\ LocalOf(p)' = Successor(LocalOf(p))
      /\ LocalOf(p).asking => LocalOf(p).queries \in 1..Len(bcasts)
      /\ Begins(iterations[p], iterations'[p])
  BY LocalStep
<1>2. TypeOK /\ bcasts \in Seq(BOOLEAN) /\ Len(bcasts) \in Nat
  <2>1. TypeOK
    BY DEF IInv
  <2>2. bcasts \in Seq(BOOLEAN)
    BY <2>1 DEF TypeOK
  <2>3. QED
    BY <2>1, <2>2
<1>3. PICK n \in Nat \ {0} : \E h \in [1..n -> Local] : Way(n, h)
  BY DEF OneWay
<1>4. PICK h \in [1..n -> Local] : Way(n, h)
  BY <1>3
<1>5. PICK j \in 1..n : LocalOf(p) = h[j]
  BY <1>4 DEF Way
<1>6. \A q \in Proc : q # p => \E k \in 1..n : LocalOf(q)' = h[k]
  BY <1>1, <1>4 DEF Way, Elsewhere
<1>7. BcastsKept
  BY <1>1, <1>2 DEF BcastsKept
<1>8. CASE j < n
  <2>1. LocalOf(p)' = h[j + 1] /\ j + 1 \in 1..n
    BY <1>1, <1>4, <1>5, <1>8 DEF Way
  <2>2. \A q \in Proc : \E k \in 1..n : LocalOf(q)' = h[k]
    BY <1>6, <2>1
  <2>3. Way(n, h)'
    BY <1>1, <1>2, <1>4, <1>7, <2>2, WayKept
  <2>4. QED
    BY <2>3 DEF OneWay
<1>9. CASE j = n
  <2>0. LocalOf(p)' \in Local
    BY DEF TypeOK, LocalOf, Local, Result
  <2>1. PICK l \in Local : l = LocalOf(p)'
    BY <2>0
  <2> DEFINE g == [k \in 1..(n + 1) |-> IF k = n + 1 THEN l ELSE h[k]]
  <2>2. /\ g \in [1..(n + 1) -> Local] /\ g[n + 1] = l
        /\ \A k \in 1..n : k \in 1..(n + 1) /\ g[k] = h[k]
    BY <2>1
  <2> HIDE DEF g
  <2>3. /\ l = Successor(g[n]) /\ n \in 1..n
        /\ g[n].asking => g[n].queries \in 1..Len(bcasts)
    BY <1>1, <1>5, <1>9, <2>1, <2>2
  <2>4. ASSUME NEW k \in 1..n
        PROVE  /\ g[k].asking => g[k].queries \in 1..Len(bcasts)
               /\ g[k + 1] = Successor(g[k])
    <3>1. CASE k = n
      BY <2>2, <2>3, <3>1
    <3>2. CASE k # n
      <4>1. k \in 1..(n - 1) /\ k + 1 \in 1..n
        BY <3>2
      <4>2. QED
        BY <1>4, <2>2, <4>1 DEF Way
    <3>3. QED
      BY <3>1, <3>2
  <2>5. ASSUME NEW k \in 1..(n + 1), NEW m \in 1..(n + 1), k <= m
        PROVE  Begins(g[k].iterations, g[m].iterations)
    <3>1. /\ g[k].iterations \in Seq(Result) /\ l.iterations \in Seq(Result)
          /\ h[n].iterations \in Seq(Result)
      BY <2>1, <2>2, <2>3 DEF Local
    <3>2. l.iterations = iterations'[p] /\ h[n].iterations = iterations[p]
      BY <1>5, <1>9, <2>1 DEF LocalOf
    <3>3. CASE m <= n
      <4>1. k \in 1..n /\ m \in 1..n
        BY <2>5, <3>3
      <4>2. QED
        BY <1>4, <2>2, <2>5, <4>1 DEF Way
    <3>4. CASE k <= n /\ m = n + 1
      <4>1. k \in 1..n
        BY <3>4
      <4>2. Begins(h[k].iterations, h[n].iterations) /\ g[k] = h[k] /\ g[m] = l
        BY <1>4, <2>2, <2>3, <3>4, <4>1 DEF Way
      <4>3. QED
        BY <1>1, <3>1, <3>2, <4>2, BeginsTransitive
    <3>5. CASE k = n + 1 /\ m = n + 1
      BY <2>2, <3>1, <3>5 DEF Begins
    <3>6. QED
      BY <2>5, <3>3, <3>4, <3>5
  <2>6. ASSUME NEW q \in Proc PROVE \E k \in 1..(n + 1) : LocalOf(q)' = g[k]
    <3>1. CASE q = p
      BY <2>1, <2>2, <3>1
    <3>2. CASE q # p
      BY <1>6, <2>2, <3>2
    <3>3. QED
      BY <3>1, <3>2
  <2>7. \A k \in 1..n : Successor(g[k])' = Successor(g[k])
    BY <1>1 DEF Successor, AfterBody, AfterTest, Returned
  <2>8. Way(n + 1, g)'
    <3>1. (n + 1) - 1 = n
      OBVIOUS
    <3>2. QED
      BY <1>1, <2>4, <2>5, <2>6, <2>7, <3>1 DEF Way
  <2>9. n + 1 \in Nat \ {0} /\ \E f \in [1..(n + 1) -> Local] : Way(n + 1, f)'
    BY <2>2, <2>8
  <2>10. QED
    BY <2>9 DEF OneWay
<1>10. QED
  BY <1>8, <1>9

LEMMA OneWayNext == IInv /\ IInv' /\ OneWay /\ [Next]_vars => OneWay'
<1> SUFFICES ASSUME IInv, IInv', OneWay, [Next]_vars PROVE OneWay'
  OBVIOUS
<1>1. TypeOK /\ TypeOK'
  BY DEF IInv
<1>2. ASSUME \A q \in Proc : LocalOf(q)' = LocalOf(q), nrep' = nrep, BcastsKept
      PROVE  OneWay'
  <2>1. PICK n \in Nat \ {0} : \E h \in [1..n -> Local] : Way(n, h)
    BY DEF OneWay
  <2>2. PICK h \in [1..n -> Local] : Way(n, h)
    BY <2>1
  <2>3. \A p \in Proc : \E j \in 1..n : LocalOf(p)' = h[j]
    BY <1>2, <2>2 DEF Way
  <2>4. Way(n, h)'
    BY <1>1, <1>2, <2>2, <2>3, WayKept
  <2>5. QED
    BY <2>4 DEF OneWay
<1>3. CASE UNCHANGED vars
  <2>1. \A q \in Proc : LocalOf(q)' = LocalOf(q)
    BY <1>3 DEF vars, loopVars, LocalOf
  <2>2. nrep' = nrep /\ BcastsKept
    BY <1>1, <1>3 DEF vars, sharedVars, BcastsKept, TypeOK
  <2>3. QED
    BY <1>2, <2>1, <2>2
<1>4. ASSUME NEW p \in Proc, Step(p) \/ DownCas(p) \/ DownCasFail(p)
      PROVE  OneWay'
  BY <1>1, <1>2, <1>4, WayGoesOn, QuietStep
<1>5. QED
  BY <1>3, <1>4 DEF Next, Done

(***************************************************************************)
(* All threads of all ranks leave each loop after the same number of            *)
(* iterations, and for the same reason.                                     *)
(***************************************************************************)
THEOREM Agree == Spec => []Agreement
<1>1. IInv /\ OneWay => Agreement
  <2> SUFFICES ASSUME IInv, OneWay, NEW p \in Proc, NEW q \in Proc,
                      NEW k \in DOMAIN iterations[p] \cap DOMAIN iterations[q]
               PROVE  iterations[p][k] = iterations[q][k]
    BY DEF Agreement
  <2>1. iterations[p] \in Seq(Result) /\ iterations[q] \in Seq(Result)
    BY DEF IInv, TypeOK, Result
  <2>2. Begins(iterations[p], iterations[q]) \/ Begins(iterations[q], iterations[p])
    <3>1. PICK n \in Nat \ {0} : \E h \in [1..n -> Local] : Way(n, h)
      BY DEF OneWay
    <3>2. PICK h \in [1..n -> Local] : Way(n, h)
      BY <3>1
    <3>3. PICK a \in 1..n, b \in 1..n : LocalOf(p) = h[a] /\ LocalOf(q) = h[b]
      BY <3>2 DEF Way
    <3>4. iterations[p] = h[a].iterations /\ iterations[q] = h[b].iterations
      BY <3>3 DEF LocalOf
    <3>5. a <= b \/ b <= a
      OBVIOUS
    <3>6. QED
      BY <3>2, <3>4, <3>5 DEF Way
  <2>3. QED
    BY <2>1, <2>2 DEF Begins
<1>2. Init => OneWay
  BY OneWayInit
<1>3. IInv /\ IInv' /\ OneWay /\ [Next]_vars => OneWay'
  BY OneWayNext
<1>4. QED
  BY <1>1, <1>2, <1>3, Invariance, PTL DEF Spec
=============================================================================
