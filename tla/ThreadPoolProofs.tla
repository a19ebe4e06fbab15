-------------------------- MODULE ThreadPoolProofs --------------------------
(***************************************************************************)
(* Proofs about the two classes of thread_pool.cpp, which know nothing of    *)
(* each other: Barrier for every finite set of threads and every number of   *)
(* calls, and ThreadPool for every number of workers and every number of     *)
(* calls of main.                                                           *)
(***************************************************************************)
EXTENDS Barrier, ThreadPool, FiniteSetTheorems, SequenceTheorems, TLAPS

-----------------------------------------------------------------------------
(***************************************************************************)
(* The barrier.                                                             *)
(***************************************************************************)
BarrierInv == BarrierTypeOK /\ PhaseInv

-----------------------------------------------------------------------------
(***************************************************************************)
(* Counting threads.                                                        *)
(***************************************************************************)
\* A pool has at least one thread.
LEMMA NPositive == N \in Nat /\ N >= 1
BY ThreadAssumption, FS_CardinalityType, FS_EmptySet DEF N

\* A set of threads has at most N members, and N only if it is all of them.
LEMMA SubsetCount ==
  ASSUME NEW S \in SUBSET Thread
  PROVE  /\ IsFiniteSet(S)
         /\ Cardinality(S) \in 0..N
         /\ Cardinality(S) = N => S = Thread
         /\ Cardinality(S) = 0 => S = {}
<1>1. /\ IsFiniteSet(S)
      /\ Cardinality(S) <= N
      /\ N = Cardinality(S) => S = Thread
  BY ThreadAssumption, FS_Subset DEF N
<1>2. Cardinality(S) \in Nat
  BY <1>1, FS_CardinalityType
<1>3. Cardinality(S) = 0 => S = {}
  BY <1>1, FS_EmptySet
<1>4. QED
  BY <1>1, <1>2, <1>3, NPositive

\* One more thread in a set makes it one larger.
LEMMA OneMore ==
  ASSUME NEW S \in SUBSET Thread, NEW t \in Thread, t \notin S
  PROVE  /\ Cardinality(S \cup {t}) = Cardinality(S) + 1
         /\ Cardinality(S) < N
<1>1. Cardinality(S \cup {t}) = Cardinality(S) + 1
  BY SubsetCount, FS_AddElement
<1>2. Cardinality(S) # N
  BY SubsetCount
<1>3. QED
  BY <1>1, <1>2, SubsetCount, NPositive

\* A set with a thread in it has between one and N members.
LEMMA NotEmpty ==
  ASSUME NEW S \in SUBSET Thread, NEW t \in S
  PROVE  Cardinality(S) \in 1..N
BY SubsetCount, NPositive

-----------------------------------------------------------------------------
(***************************************************************************)
(* The invariant holds initially and is preserved by every step.            *)
(***************************************************************************)
\* A new barrier counts up, and nobody has arrived.
LEMMA BarrierInitInv == BarrierInit => BarrierInv
<1> SUFFICES ASSUME BarrierInit PROVE BarrierInv
  OBVIOUS
<1> USE NPositive, RoundsAssumption DEF BarrierInit
<1>1. Arrived = {}
  BY DEF Arrived
<1>2. CountingUp
  BY <1>1, FS_EmptySet DEF CountingUp, OnlyOne
<1>3. BarrierTypeOK
  BY DEF BarrierTypeOK, Location
<1>4. QED
  BY <1>2, <1>3 DEF BarrierInv, PhaseInv, Epoch

\* While counting down, nobody has been released yet.
LEMMA EpochDown ==
  ASSUME BarrierTypeOK, CountingDown, NEW u \in Thread
  PROVE  Epoch(u) = returned[u]
<1>1. CASE pc[u] = "down_spin"
  <2>1. Departed \in SUBSET Thread /\ u \in Departed
    BY <1>1 DEF Departed
  <2>2. m_down # N
    BY <2>1, NotEmpty, NPositive DEF CountingDown
  <2>3. QED
    BY <2>2 DEF Epoch, BarrierTypeOK
<1>2. CASE pc[u] # "down_spin"
  BY <1>2 DEF Epoch, BarrierTypeOK
<1>3. QED
  BY <1>1, <1>2

\* A thread that has been counted shows in the counter.
LEMMA CountedUp ==
  ASSUME CountingUp, NEW t \in Thread, pc[t] \in {"up_spin", "up_reset"}
  PROVE  m_up \in 1..N
<1>1. Arrived \in SUBSET Thread /\ t \in Arrived
  BY DEF Arrived
<1>2. QED
  BY <1>1, NotEmpty DEF CountingUp

\* So does one that has been counted out.
LEMMA CountedDown ==
  ASSUME CountingDown, NEW t \in Thread, pc[t] \in {"down_spin", "down_reset"}
  PROVE  m_down \in 0..(N - 1)
<1>1. Departed \in SUBSET Thread /\ t \in Departed
  BY DEF Departed
<1>2. QED
  BY <1>1, NotEmpty, NPositive DEF CountingDown

(***************************************************************************)
(* Steps that move a thread within its phase and leave the counters alone.  *)
(***************************************************************************)
Quiet(t) == \/ Call(t) \/ UpLoad(t) \/ UpCasFail(t) \/ UpSpin(t) \/ Turn(t)
            \/ DownLoad(t) \/ DownCasFail(t) \/ (N > 1 /\ Enter(t))

\* Such a step keeps the invariant.
LEMMA QuietInv ==
  ASSUME BarrierInv, NEW t \in Thread, Quiet(t)
  PROVE  BarrierInv'
<1> USE DEF BarrierInv, Goto
<1>1. BarrierTypeOK'
  BY NPositive DEF BarrierTypeOK, Quiet, Call, UpLoad, UpCasFail, UpSpin, Turn,
                   DownLoad, DownCasFail, Enter, Location
<1>2. /\ UNCHANGED <<m_up, m_down, returned>>
      /\ \A u \in Thread \ {t} : pc'[u] = pc[u]
  BY DEF BarrierTypeOK, Quiet, Call, UpLoad, UpCasFail, UpSpin, Turn, DownLoad,
         DownCasFail, Enter
<1>3. /\ pc[t] \notin {"down_spin", "down_reset", "up_reset"}
      /\ pc'[t] \notin {"out", "down_spin", "down_reset", "up_reset"}
      /\ pc[t] = "out" => returned[t] < Rounds
  BY DEF BarrierTypeOK, Quiet, Call, UpLoad, UpCasFail, UpSpin, Turn, DownLoad,
         DownCasFail, Enter
<1>4. Departed' = Departed
  BY <1>2, <1>3 DEF Departed
<1>5. ASSUME CountingUp PROVE CountingUp'
  <2>1. /\ pc[t] # "up_spin"
        /\ pc'[t] \notin {"up_spin", "turn", "down_load", "down_cas"}
    BY <1>5, CountedUp
       DEF BarrierTypeOK, Quiet, Call, UpLoad, UpCasFail, UpSpin, Turn, DownLoad,
           DownCasFail, Enter, CountingUp
  <2>2. Arrived' = Arrived
    BY <1>2, <1>3, <2>1 DEF Arrived
  <2>3. QED
    BY <1>2, <1>3, <1>5, <2>1, <2>2 DEF CountingUp, OnlyOne
<1>6. ASSUME CountingDown PROVE CountingDown'
  <2>1. pc'[t] \notin {"enter", "up_load", "up_cas"}
    BY <1>6 DEF BarrierTypeOK, Quiet, Call, UpLoad, UpCasFail, UpSpin, Turn, DownLoad,
                DownCasFail, Enter, CountingDown
  <2>2. QED
    BY <1>2, <1>3, <1>4, <1>6, <2>1 DEF CountingDown, OnlyOne
<1>7. \A u \in Thread : Epoch(u)' = Epoch(u)
  BY <1>2, <1>3 DEF Epoch
<1>8. QED
  BY <1>1, <1>2, <1>3, <1>5, <1>6, <1>7 DEF PhaseInv

(***************************************************************************)
(* A compare-exchange of m_up counts its thread in.                         *)
(***************************************************************************)
LEMMA UpCasInv ==
  ASSUME BarrierInv, NEW t \in Thread, UpCas(t)
  PROVE  BarrierInv'
<1> USE DEF BarrierInv, UpCas, Goto
<1>1. CountingUp
  BY DEF PhaseInv, CountingDown, BarrierTypeOK
<1>2. Arrived \in SUBSET Thread /\ t \notin Arrived
  BY DEF Arrived
<1>3. /\ pc'[t] \in {"up_reset", "up_spin"}
      /\ pc'[t] = "up_reset" <=> m_up = N - 1
      /\ \A u \in Thread \ {t} : pc'[u] = pc[u]
  BY DEF BarrierTypeOK
<1>4. Arrived' = Arrived \cup {t}
  BY <1>3 DEF Arrived
<1>5. m_up' = Cardinality(Arrived') /\ m_up < N
  BY <1>1, <1>2, <1>4, OneMore DEF CountingUp
<1>6. BarrierTypeOK'
  BY <1>3, <1>5, NPositive DEF BarrierTypeOK, Location
<1>7. \A u \in Thread : pc[u] # "up_reset"
  BY <1>1, <1>5, NPositive DEF CountingUp
<1>8. CountingUp'
  BY <1>1, <1>3, <1>5, <1>7, NPositive DEF CountingUp, OnlyOne, BarrierTypeOK
<1>9. \A u \in Thread : Epoch(u)' = Epoch(u)
  BY <1>3 DEF Epoch
<1>10. QED
  BY <1>3, <1>6, <1>8, <1>9 DEF PhaseInv

(***************************************************************************)
(* The last to arrive resets m_up: all the others spin on it, and the count  *)
(* down begins with nobody counted out.                                     *)
(***************************************************************************)
LEMMA UpResetInv ==
  ASSUME BarrierInv, NEW t \in Thread, UpReset(t)
  PROVE  BarrierInv'
<1> USE DEF BarrierInv, UpReset, Goto
<1>1. CountingUp /\ m_up = N
  BY DEF PhaseInv, CountingUp, CountingDown
<1>2. Arrived = Thread
  BY <1>1, SubsetCount DEF CountingUp, Arrived
<1>3. \A u \in Thread \ {t} : pc'[u] = "up_spin" /\ pc[u] = "up_spin"
  BY <1>1, <1>2 DEF CountingUp, OnlyOne, Arrived, BarrierTypeOK
<1>4. pc'[t] = "down_load"
  BY DEF BarrierTypeOK
<1>5. Departed' = {}
  BY <1>3, <1>4 DEF Departed
<1>6. Cardinality(Departed') = 0
  BY <1>5, FS_EmptySet
<1>7. CountingDown'
  BY <1>1, <1>3, <1>4, <1>6, NPositive
     DEF CountingUp, CountingDown, OnlyOne, BarrierTypeOK
<1>8. \A u \in Thread : Epoch(u)' = Epoch(u)
  BY <1>3, <1>4 DEF Epoch
<1>9. BarrierTypeOK'
  BY NPositive DEF BarrierTypeOK, Location
<1>10. QED
  BY <1>3, <1>4, <1>7, <1>8, <1>9 DEF PhaseInv

(***************************************************************************)
(* A compare-exchange of m_down counts its thread out.                      *)
(***************************************************************************)
LEMMA DownCasInv ==
  ASSUME BarrierInv, NEW t \in Thread, DownCas(t)
  PROVE  BarrierInv'
<1> USE DEF BarrierInv, DownCas, Goto
<1>1. CountingDown
  BY DEF PhaseInv, CountingUp, BarrierTypeOK
<1>2. Departed \in SUBSET Thread /\ t \notin Departed
  BY DEF Departed
<1>3. /\ pc'[t] \in {"down_reset", "down_spin"}
      /\ pc'[t] = "down_reset" <=> m_down = 1
      /\ \A u \in Thread \ {t} : pc'[u] = pc[u]
  BY DEF BarrierTypeOK
<1>4. Departed' = Departed \cup {t}
  BY <1>3 DEF Departed
<1>5. Cardinality(Departed') = Cardinality(Departed) + 1 /\ m_down >= 1
  BY <1>1, <1>2, <1>4, OneMore, SubsetCount, NPositive DEF CountingDown
<1>6. m_down' = N - Cardinality(Departed')
  BY <1>1, <1>2, <1>5, SubsetCount, NPositive DEF CountingDown
<1>7. BarrierTypeOK'
  BY <1>3, <1>5, NPositive DEF BarrierTypeOK, Location
<1>8. \A u \in Thread : pc[u] # "down_reset"
  BY <1>1, <1>5 DEF CountingDown
<1>9. CountingDown'
  BY <1>1, <1>3, <1>6, <1>8 DEF CountingDown, OnlyOne, BarrierTypeOK
<1>10. \A u \in Thread : Epoch(u)' = Epoch(u)
  <2>1. \A u \in Thread : Epoch(u) = returned[u]
    BY <1>1, EpochDown
  <2>2. \A u \in Thread : Epoch(u)' = returned'[u]
    BY NPositive DEF Epoch, BarrierTypeOK
  <2>3. QED
    BY <2>1, <2>2
<1>11. QED
  BY <1>3, <1>7, <1>9, <1>10 DEF PhaseInv

(***************************************************************************)
(* The last to depart refills m_down: all the others spin on it, and they    *)
(* belong to the previous call from then on.                                *)
(***************************************************************************)
LEMMA DownResetInv ==
  ASSUME BarrierInv, NEW t \in Thread, DownReset(t)
  PROVE  BarrierInv'
<1> USE DEF BarrierInv, DownReset, Return, Goto
<1>1. CountingDown /\ m_down = 0
  BY DEF PhaseInv, CountingUp, CountingDown
<1>2. Departed \in SUBSET Thread /\ Cardinality(Departed) = N
  BY <1>1, SubsetCount, NPositive DEF CountingDown, Departed
<1>3. Departed = Thread
  BY <1>2, SubsetCount
<1>4. \A u \in Thread \ {t} : pc'[u] = "down_spin" /\ pc[u] = "down_spin"
  BY <1>1, <1>3 DEF CountingDown, OnlyOne, Departed, BarrierTypeOK
<1>5. pc'[t] = "out" /\ returned[t] < Rounds
  BY DEF BarrierTypeOK, PhaseInv
<1>6. Arrived' = {}
  BY <1>4, <1>5 DEF Arrived
<1>7. Cardinality(Arrived') = 0
  BY <1>6, FS_EmptySet
<1>8. CountingUp'
  BY <1>1, <1>4, <1>5, <1>7 DEF CountingUp, CountingDown, OnlyOne, BarrierTypeOK
<1>9. BarrierTypeOK'
  BY <1>5, NPositive, RoundsAssumption DEF BarrierTypeOK, Location
<1>10. \A u \in Thread : Epoch(u)' = Epoch(u) + 1
  <2>1. \A u \in Thread : Epoch(u) = returned[u]
    BY <1>1, EpochDown
  <2>2. \A u \in Thread : Epoch(u)' = returned[u] + 1
    BY <1>4, <1>5 DEF Epoch, BarrierTypeOK
  <2>3. QED
    BY <2>1, <2>2
<1>11. \A u \in Thread : pc'[u] # "out" => returned'[u] < Rounds
  BY <1>4, <1>5 DEF PhaseInv, BarrierTypeOK
<1>12. QED
  BY <1>8, <1>9, <1>10, <1>11 DEF PhaseInv

(***************************************************************************)
(* A thread that has spun on m_down leaves only after it was refilled.      *)
(***************************************************************************)
LEMMA DownSpinInv ==
  ASSUME BarrierInv, NEW t \in Thread, DownSpin(t)
  PROVE  BarrierInv'
<1> USE DEF BarrierInv, DownSpin, Return, Goto
<1>1. CountingUp
  BY CountedDown, NPositive DEF PhaseInv
<1>2. /\ pc'[t] = "out" /\ returned[t] < Rounds
      /\ returned'[t] = returned[t] + 1
      /\ \A u \in Thread \ {t} : pc'[u] = pc[u] /\ returned'[u] = returned[u]
  BY DEF BarrierTypeOK, PhaseInv
<1>3. Arrived' = Arrived
  BY <1>2 DEF Arrived
<1>4. CountingUp'
  BY <1>1, <1>2, <1>3 DEF CountingUp, OnlyOne
<1>5. BarrierTypeOK'
  BY <1>2, RoundsAssumption DEF BarrierTypeOK, Location
<1>6. \A u \in Thread : Epoch(u)' = Epoch(u)
  BY <1>2 DEF Epoch, BarrierTypeOK
<1>7. QED
  BY <1>2, <1>4, <1>5, <1>6 DEF PhaseInv

(***************************************************************************)
(* The barrier of a single thread.                                          *)
(***************************************************************************)
LEMMA SingleInv ==
  ASSUME BarrierInv, NEW t \in Thread, Enter(t), ~(N > 1)
  PROVE  BarrierInv'
<1> USE DEF BarrierInv, Enter, Return, Goto
<1>1. Thread = {t} /\ N = 1
  <2>1. N = 1
    BY NPositive
  <2>2. \E x : Thread = {x}
    BY <2>1, ThreadAssumption, FS_Singleton DEF N
  <2>3. QED
    BY <2>1, <2>2
<1>2. CountingUp
  BY DEF PhaseInv, CountingDown
<1>3. pc'[t] = "out" /\ returned[t] < Rounds
  BY DEF BarrierTypeOK, PhaseInv
<1>4. Arrived' = Arrived
  BY <1>1, <1>3 DEF Arrived
<1>5. CountingUp'
  BY <1>1, <1>2, <1>3, <1>4 DEF CountingUp, OnlyOne
<1>6. BarrierTypeOK'
  BY <1>3, RoundsAssumption DEF BarrierTypeOK, Location
<1>7. QED
  BY <1>1, <1>3, <1>5, <1>6 DEF PhaseInv

\* Every step keeps the invariant: one case for each lemma above.
LEMMA BarrierNextInv == BarrierInv /\ [BarrierNext]_barrierVars => BarrierInv'
<1> SUFFICES ASSUME BarrierInv, [BarrierNext]_barrierVars PROVE BarrierInv'
  OBVIOUS
<1>1. CASE UNCHANGED barrierVars
  BY <1>1 DEF barrierVars, BarrierInv, BarrierTypeOK, PhaseInv, CountingUp, CountingDown, Arrived,
              Departed, OnlyOne, Epoch
<1>2. ASSUME NEW t \in Thread, Call(t) \/ Step(t) \/ UpCas(t) \/ UpCasFail(t)
                               \/ DownCas(t) \/ DownCasFail(t)
      PROVE  BarrierInv'
  <2>1. CASE Quiet(t)
    BY <2>1, QuietInv
  <2>2. CASE UpCas(t)
    BY <2>2, UpCasInv
  <2>3. CASE UpReset(t)
    BY <2>3, UpResetInv
  <2>4. CASE DownCas(t)
    BY <2>4, DownCasInv
  <2>5. CASE DownReset(t)
    BY <2>5, DownResetInv
  <2>6. CASE DownSpin(t)
    BY <2>6, DownSpinInv
  <2>7. CASE Enter(t) /\ ~(N > 1)
    BY <2>7, SingleInv
  <2>8. QED
    BY <1>2, <2>1, <2>2, <2>3, <2>4, <2>5, <2>6, <2>7 DEF Step, Quiet
<1>3. QED
  BY <1>1, <1>2 DEF BarrierNext

\* The barrier is always in one of its two phases, with all threads in the
\* same call: the inductive invariant (thread_pool.cpp:29-70).
THEOREM BarrierInvariance == BarrierSpec => []BarrierInv
BY BarrierInitInv, BarrierNextInv, PTL DEF BarrierSpec

-----------------------------------------------------------------------------
(***************************************************************************)
(* What the invariant gives.                                                *)
(***************************************************************************)

\* The counters stay within 0..N: no compare-exchange or reset, in any
\* interleaving, takes one out of range.
THEOREM BarrierTypeCorrect == BarrierSpec => []BarrierTypeOK
BY BarrierInvariance, PTL DEF BarrierInv

\* The barrier counts up or counts down, with all threads in the same call and
\* one thread at most at a reset (thread_pool.cpp:29-70).
THEOREM Phases == BarrierSpec => []PhaseInv
BY BarrierInvariance, PTL DEF BarrierInv

\* A barrier of any number of threads lets none return early, in any of
\* its uses (thread_pool.cpp:29-70).
LEMMA PhaseNoEarlyReturn == BarrierInv => NoEarlyReturn
<1> SUFFICES ASSUME BarrierInv, NEW t \in Thread, NEW u \in Thread
             PROVE  returned[t] <= Calls(u)
  BY DEF NoEarlyReturn
<1>1. Epoch(t) = Epoch(u)
  BY DEF BarrierInv, PhaseInv
<1>2. returned[t] <= Epoch(t) /\ Epoch(u) <= Calls(u)
  BY DEF BarrierInv, BarrierTypeOK, Epoch, Calls
<1>3. Epoch(t) \in Nat /\ Calls(u) \in Nat /\ returned[t] \in Nat
  BY DEF BarrierInv, BarrierTypeOK, Epoch, Calls
<1>4. QED
  BY <1>1, <1>2, <1>3

\* No thread returns from its k-th call before all have made theirs, for any
\* number of threads and calls (thread_pool.cpp:29-70).
THEOREM Reusable == BarrierSpec => []NoEarlyReturn
BY BarrierInvariance, PhaseNoEarlyReturn, PTL

\* The plain stores that reset a counter never overwrite a count
\* (thread_pool.cpp:49, 65).
LEMMA PhaseResetLosesNothing == BarrierInv => ResetLosesNothing
<1> SUFFICES ASSUME BarrierInv, NEW t \in Thread
             PROVE  /\ pc[t] = "up_reset" =>
                         m_up = N /\ \A u \in Thread :
                                       pc[u] \notin {"up_load", "up_cas"}
                    /\ pc[t] = "down_reset" =>
                         m_down = 0 /\ \A u \in Thread :
                                       pc[u] \notin {"down_load", "down_cas"}
  BY DEF ResetLosesNothing
<1>1. ASSUME pc[t] = "up_reset"
      PROVE  m_up = N /\ \A u \in Thread : pc[u] \notin {"up_load", "up_cas"}
  <2>1. CountingUp /\ m_up = N
    BY <1>1 DEF BarrierInv, PhaseInv, CountingUp, CountingDown
  <2>2. Arrived = Thread
    BY <2>1, SubsetCount DEF CountingUp, Arrived
  <2>3. QED
    BY <2>1, <2>2 DEF Arrived
<1>2. ASSUME pc[t] = "down_reset"
      PROVE  m_down = 0 /\ \A u \in Thread :
                              pc[u] \notin {"down_load", "down_cas"}
  <2>1. CountingDown /\ m_down = 0
    BY <1>2 DEF BarrierInv, PhaseInv, CountingUp, CountingDown
  <2>2. Departed \in SUBSET Thread /\ Cardinality(Departed) = N
    BY <2>1, SubsetCount, NPositive DEF CountingDown, Departed
  <2>3. Departed = Thread
    BY <2>2, SubsetCount
  <2>4. QED
    BY <2>1, <2>3 DEF Departed
<1>3. QED
  BY <1>1, <1>2

\* No reset of a counter overwrites what another thread has counted
\* (thread_pool.cpp:49, 65).
THEOREM ResetsAreSafe == BarrierSpec => []ResetLosesNothing
BY BarrierInvariance, PhaseResetLosesNothing, PTL

-----------------------------------------------------------------------------
(***************************************************************************)
(* The spinning barrier implements the rendezvous: Call is Enter, the return *)
(* of any thread is Leave, and every other step is invisible.               *)
(***************************************************************************)
\* Nobody has called the new barrier.
LEMMA InitRefines == BarrierInit => R!Init
BY DEF BarrierInit, R!Init, Calls

\* A step is one of the rendezvous, or one that it does not see.
LEMMA StepRefines ==
  BarrierInv /\ NoEarlyReturn' /\ [BarrierNext]_barrierVars => [R!Next]_R!rvars
<1> SUFFICES ASSUME BarrierInv, NoEarlyReturn', [BarrierNext]_barrierVars
             PROVE  [R!Next]_R!rvars
  OBVIOUS
<1> USE DEF Goto, Return
<1>1. CASE UNCHANGED barrierVars
  BY <1>1 DEF barrierVars, R!rvars, Calls
<1>2. ASSUME NEW t \in Thread, Call(t)
      PROVE  R!Enter(t)
  <2>1. Calls(t) = returned[t] /\ Calls(t)' = returned[t] + 1
    BY <1>2 DEF Call, Calls, BarrierInv, BarrierTypeOK
  <2>2. \A u \in Thread \ {t} : Calls(u)' = Calls(u)
    BY <1>2 DEF Call, Calls, BarrierInv, BarrierTypeOK
  <2>3. UNCHANGED returned
    BY <1>2 DEF Call
  <2>4. QED
    BY <2>1, <2>2, <2>3 DEF R!Enter
<1>3. ASSUME NEW t \in Thread, Enter(t) \/ DownReset(t) \/ DownSpin(t),
             returned' # returned
      PROVE  R!Leave(t)
  <2>1. /\ pc[t] # "out" /\ pc'[t] = "out"
        /\ returned' = [returned EXCEPT ![t] = @ + 1]
        /\ \A u \in Thread \ {t} : pc'[u] = pc[u]
    BY <1>3 DEF Enter, DownReset, DownSpin, BarrierInv, BarrierTypeOK
  <2>2. returned'[t] = returned[t] + 1
    BY <2>1 DEF BarrierInv, BarrierTypeOK
  <2>3. Calls(t) = returned[t] + 1 /\ returned[t] \in Nat
    BY <2>1 DEF Calls, BarrierInv, BarrierTypeOK
  <2>4. \A u \in Thread : Calls(u) >= Calls(t)
    <3>1. \A u \in Thread : returned'[t] <= Calls(u)'
      BY DEF NoEarlyReturn
    <3>2. \A u \in Thread : Calls(u)' = Calls(u)
      BY <2>1, <2>3 DEF Calls, BarrierInv, BarrierTypeOK
    <3>3. QED
      BY <2>2, <2>3, <3>1, <3>2
  <2>5. \A u \in Thread : Calls(u)' = Calls(u)
    BY <2>1, <2>3 DEF Calls, BarrierInv, BarrierTypeOK
  <2>6. QED
    BY <2>1, <2>3, <2>4, <2>5 DEF R!Leave
<1>4. ASSUME NEW t \in Thread, Step(t) \/ UpCas(t) \/ UpCasFail(t)
                               \/ DownCas(t) \/ DownCasFail(t),
             returned' = returned
      PROVE  UNCHANGED R!rvars
  <2>1. pc[t] # "out" /\ pc'[t] # "out"
    BY <1>4 DEF Step, Enter, UpLoad, UpCas, UpCasFail, UpReset, UpSpin, Turn,
                DownLoad, DownCas, DownCasFail, DownReset, DownSpin, BarrierInv, BarrierTypeOK
  <2>2. \A u \in Thread \ {t} : pc'[u] = pc[u]
    BY <1>4 DEF Step, Enter, UpLoad, UpCas, UpCasFail, UpReset, UpSpin, Turn,
                DownLoad, DownCas, DownCasFail, DownReset, DownSpin, BarrierInv, BarrierTypeOK
  <2>3. QED
    BY <1>4, <2>1, <2>2 DEF R!rvars, Calls
<1>5. ASSUME NEW t \in Thread, Step(t) \/ UpCas(t) \/ UpCasFail(t)
                               \/ DownCas(t) \/ DownCasFail(t),
             returned' # returned
      PROVE  Enter(t) \/ DownReset(t) \/ DownSpin(t)
  BY <1>5 DEF Step, UpLoad, UpCas, UpCasFail, UpReset, UpSpin, Turn,
              DownLoad, DownCas, DownCasFail
<1>6. QED
  BY <1>1, <1>2, <1>3, <1>4, <1>5 DEF BarrierNext, R!Next

\* Every behaviour of the barrier is one of the rendezvous.
THEOREM BarrierRefinement == BarrierSpec => R!Spec
<1>1. BarrierSpec => [][R!Next]_R!rvars
  BY BarrierInvariance, Reusable, StepRefines, PTL DEF BarrierSpec
<1>2. QED
  BY InitRefines, <1>1, PTL DEF BarrierSpec, R!Spec

-----------------------------------------------------------------------------
(***************************************************************************)
(* The pool, and its inductive invariant.                                    *)
(***************************************************************************)
Scheduling == mpc \in {"sched_lock", "sched_push", "sched_notify"}
Stopped == mpc \in {"join_unlock", "join_notify", "join_thread"}
Joining == mpc \in {"join_lock", "join_stop"} \/ Stopped

\* Who holds the mutex of worker t.
MainHolds(t) == \/ mpc = "sched_push" /\ target = t
                \/ mpc = "join_lock" /\ t < target
                \/ mpc = "join_stop"
                \/ mpc = "join_unlock" /\ target <= t

LockInv == \A t \in Worker :
              /\ owner[t] = "main" <=> MainHolds(t)
              /\ owner[t] = "worker" <=> wpc[t] \in {"check", "block"}

\* The pool runs until join stops it, and no call but join sees it stop.
FlagInv == /\ m_running <=> ~(m_joined \/ Stopped)
           /\ m_joined => ~Scheduling /\ ~Joining
           /\ Scheduling => op \in {"schedule", "sync"}
           /\ mpc = "poll" => op = "sync"
           /\ Joining => op = "join"
           /\ mpc = "join_stop" => target = 0

\* The jobs that worker t has taken, and those main still has to give it.
Taken(t) == finished[t] + (IF wpc[t] = "run" THEN 1 ELSE 0)
Owes(t) == \/ mpc \in {"sched_lock", "sched_push"} /\ target = t
           \/ Scheduling /\ op = "sync" /\ target < t

CountInv == \A t \in Worker : accepted[t] + (IF Owes(t) THEN 1 ELSE 0) <= calls

\* The queue of a worker holds the accepted jobs it has not taken, in order.
QueueInv == \A t \in Worker :
              /\ Len(m_queue[t]) + Taken(t) = accepted[t]
              /\ \A i \in 1..Len(m_queue[t]) : m_queue[t][i] = Taken(t) + i
              /\ running[t] = IF wpc[t] = "run" THEN Taken(t) ELSE 0

\* Who is about to sleep has nothing to do, who has left never will.
SleepInv == \A t \in Worker :
              /\ wpc[t] = "block" => m_queue[t] = <<>> /\ m_running
              /\ wpc[t] = "exited" => m_queue[t] = <<>> /\ ~m_running

JoinInv == \A t \in Worker :
             m_joined \/ (mpc \in {"join_notify", "join_thread"} /\ t < target)
               => wpc[t] = "exited"

\* sync has given a worker a job of its own after those promised.
Followed(t) == \/ Scheduling /\ op = "sync" /\ t < target
               \/ mpc = "sched_notify" /\ op = "sync" /\ t = target
               \/ mpc = "poll" /\ ~m_joined

SyncInv == \A t \in Worker :
             /\ promised[t] + (IF Followed(t) THEN 1 ELSE 0) <= accepted[t]
             /\ mpc = "poll" /\ ~busy /\ t < target => m_queue[t] = <<>>

IInv == /\ TypeOK /\ LockInv /\ FlagInv /\ CountInv /\ QueueInv
        /\ SleepInv /\ JoinInv /\ SyncInv /\ NoLostWakeup

-----------------------------------------------------------------------------
(***************************************************************************)
(* The range of what the steps compare and count.                           *)
(***************************************************************************)
\* Workers are numbered from 0 to Last.
LEMMA WorkerFacts ==
  /\ Worker \subseteq Nat
  /\ 0 \in Worker /\ Last \in Worker
  /\ \A t \in Worker : t <= Last /\ (t # Last => t + 1 \in Worker)
BY NumThreadsAssumption DEF Worker, Last

\* Numbers are numbers.
LEMMA Types ==
  ASSUME TypeOK, NEW u \in Worker
  PROVE  /\ u \in Nat /\ target \in Worker /\ target \in Nat
         /\ accepted[u] \in Nat /\ finished[u] \in Nat /\ promised[u] \in Nat
         /\ calls \in Nat /\ Taken(u) \in Nat
<1>1. u \in Nat /\ target \in Worker /\ target \in Nat
  BY WorkerFacts DEF TypeOK
<1>2. /\ accepted[u] \in Nat /\ finished[u] \in Nat /\ promised[u] \in Nat
      /\ calls \in Nat
  BY MaxCallsAssumption DEF TypeOK
<1>3. Taken(u) \in Nat
  BY <1>2 DEF Taken
<1>4. QED
  BY <1>1, <1>2, <1>3

\* A queue is a sequence of job numbers; its length tells whether it is empty.
LEMMA QueueTypes ==
  ASSUME TypeOK, NEW u \in Worker
  PROVE  /\ m_queue[u] \in Seq(1..MaxCalls)
         /\ Len(m_queue[u]) \in Nat
         /\ m_queue[u] = <<>> <=> Len(m_queue[u]) = 0
<1>1. m_queue[u] \in Seq(1..MaxCalls)
  BY DEF TypeOK
<1>2. QED
  BY <1>1, LenProperties, EmptySeq

\* A loop of main goes to the next worker, or ends after the last.
LEMMA Loop ==
  ASSUME TypeOK, NEW again, NEW after, LoopOn(again, after)
  PROVE  /\ target' \in Worker
         /\ \/ target = Last /\ target' = 0 /\ mpc' = after
            \/ target # Last /\ target' = target + 1 /\ mpc' = again
         /\ \A u \in Worker : target = Last => u <= target
BY WorkerFacts DEF LoopOn, TypeOK

-----------------------------------------------------------------------------
(***************************************************************************)
(* Every step preserves every part of the invariant.                        *)
(***************************************************************************)
\* The constructor leaves idle workers and empty queues.
LEMMA InitInv == Init => IInv
<1> SUFFICES ASSUME Init PROVE IInv
  OBVIOUS
<1> USE DEF Init
<1>1. TypeOK
  <2>1. m_queue \in [Worker -> Seq(1..MaxCalls)]
    BY EmptySeq
  <2>2. 0 \in 0..MaxCalls
    BY MaxCallsAssumption
  <2>3. QED
    BY <2>1, <2>2, WorkerFacts DEF TypeOK, WorkerLocation, MainLocation
<1>2. LockInv /\ FlagInv /\ CountInv /\ SleepInv /\ JoinInv /\ SyncInv
  BY DEF LockInv, MainHolds, FlagInv, Scheduling, Stopped, Joining, CountInv, Owes,
         SleepInv, JoinInv, SyncInv, Followed
<1>3. QueueInv
  BY EmptySeq DEF QueueInv, Taken
<1>4. NoLostWakeup
  BY DEF NoLostWakeup
<1>5. QED
  BY <1>1, <1>2, <1>3, <1>4 DEF IInv

\* Numbers stay in range: a job is pushed on behalf of a call.
LEMMA TypeStep == ASSUME IInv, [Next]_vars PROVE TypeOK'
<1> USE DEF IInv
<1>1. CASE UNCHANGED vars
  BY <1>1 DEF TypeOK, vars, queueVars, flagVars, workVars, mainVars
<1>2. ASSUME NEW t \in Worker,
             Acquire(t) \/ GoToSleep(t) \/ Block(t) \/ Exit(t) \/ SpuriousWakeup(t)
      PROVE  TypeOK'
  BY <1>2 DEF TypeOK, WorkerLocation, Acquire, GoToSleep, Block, Exit, SpuriousWakeup,
              Unlock, queueVars, flagVars, workVars, mainVars
<1>3. ASSUME NEW t \in Worker, Pop(t) PROVE TypeOK'
  <2>1. Head(m_queue[t]) \in 1..MaxCalls /\ Tail(m_queue[t]) \in Seq(1..MaxCalls)
    BY <1>3, QueueTypes, HeadTailProperties DEF Pop
  <2>2. /\ running' \in [Worker -> 0..MaxCalls]
        /\ m_queue' \in [Worker -> Seq(1..MaxCalls)]
    BY <1>3, <2>1 DEF TypeOK, Pop
  <2>3. QED
    BY <1>3, <2>2 DEF TypeOK, Pop, Unlock, WorkerLocation, flagVars, mainVars
<1>4. ASSUME NEW t \in Worker, Run(t) PROVE TypeOK'
  BY <1>4, MaxCallsAssumption
  DEF TypeOK, WorkerLocation, Run, queueVars, flagVars, mainVars
<1>5. CASE CallSync \/ CallJoin \/ \E t \in Worker : CallSchedule(t)
  <2>1. calls + 1 \in 0..MaxCalls
    BY <1>5, MaxCallsAssumption DEF TypeOK, CallSchedule, CallSync, CallJoin, Begin
  <2>2. QED
    BY <1>5, <2>1, WorkerFacts DEF TypeOK, CallSchedule, CallSync, CallJoin, Begin,
       MainLocation, queueVars, flagVars, workVars
<1>6. CASE SchedPush
  <2>1. accepted[target] + 1 <= calls
    BY <1>6 DEF CountInv, TypeOK, Owes, SchedPush
  <2>2. accepted[target] + 1 \in 1..MaxCalls
    BY <2>1, MaxCallsAssumption DEF TypeOK
  <2>3. Append(m_queue[target], accepted[target] + 1) \in Seq(1..MaxCalls)
    BY <2>2, QueueTypes, AppendProperties DEF TypeOK
  <2>4. /\ accepted' \in [Worker -> 0..MaxCalls]
        /\ m_queue' \in [Worker -> Seq(1..MaxCalls)]
    BY <1>6, <2>2, <2>3 DEF TypeOK, SchedPush
  <2>5. QED
    BY <1>6, <2>4 DEF TypeOK, SchedPush, MainLocation, flagVars, workVars
<1>7. CASE SchedLock \/ JoinStop \/ JoinNotify
  BY <1>7 DEF TypeOK, MainLocation, WorkerLocation, SchedLock, JoinStop, JoinNotify,
     NotifyOne, queueVars, flagVars, workVars
<1>8. CASE SchedNotify \/ Poll
  BY <1>8, Loop DEF TypeOK, MainLocation, WorkerLocation, SchedNotify, Poll,
     NotifyOne, queueVars, flagVars, workVars
<1>9. CASE JoinLock \/ JoinUnlock \/ JoinThread
  BY <1>9, Loop DEF TypeOK, MainLocation, JoinLock, JoinUnlock, JoinThread,
     queueVars, flagVars, workVars
<1>10. QED
  BY <1>1, <1>2, <1>3, <1>4, <1>5, <1>6, <1>7, <1>8, <1>9
  DEF Next, WorkerStep, MainStep, Done

\* A mutex is held where the code holds it.
LEMMA LockStep == ASSUME IInv, [Next]_vars PROVE LockInv'
<1> SUFFICES ASSUME NEW u \in Worker
             PROVE  /\ owner'[u] = "main" <=> MainHolds(u)'
                    /\ owner'[u] = "worker" <=> wpc'[u] \in {"check", "block"}
  BY DEF LockInv
<1> USE DEF IInv, TypeOK, LockInv, MainHolds
<1>0. u \in Nat /\ target \in Nat /\ target \in Worker
  BY Types
<1>1. CASE UNCHANGED vars
  BY <1>1 DEF vars, mainVars
<1>2. ASSUME NEW t \in Worker, WorkerStep(t) \/ SpuriousWakeup(t)
      PROVE  /\ owner'[u] = "main" <=> MainHolds(u)'
             /\ owner'[u] = "worker" <=> wpc'[u] \in {"check", "block"}
  <2>1. CASE Acquire(t)
    BY <1>2, <2>1 DEF Acquire, mainVars
  <2>2. CASE GoToSleep(t) \/ SpuriousWakeup(t)
    BY <1>2, <2>2 DEF GoToSleep, SpuriousWakeup, mainVars
  <2>3. CASE Block(t)
    BY <1>2, <2>3 DEF Block, Unlock, mainVars
  <2>4. CASE Pop(t)
    BY <1>2, <2>4 DEF Pop, Unlock, mainVars
  <2>5. CASE Exit(t)
    BY <1>2, <2>5 DEF Exit, Unlock, mainVars
  <2>6. CASE Run(t)
    BY <1>2, <2>6 DEF Run, mainVars
  <2>7. QED
    BY <1>2, <2>1, <2>2, <2>3, <2>4, <2>5, <2>6 DEF WorkerStep
<1>3. CASE CallSync \/ CallJoin \/ \E t \in Worker : CallSchedule(t)
  <2>1. ~MainHolds(u) /\ UNCHANGED <<owner, wpc>>
    BY <1>3 DEF CallSchedule, CallSync, CallJoin, Begin
  <2>2. \/ mpc' \in {"idle", "sched_lock", "poll"}
        \/ mpc' = "join_lock" /\ target' = 0
    BY <1>3 DEF CallSchedule, CallSync, CallJoin, Begin
  <2>3. QED
    BY <1>0, <2>1, <2>2
<1>4. CASE SchedLock \/ SchedPush
  BY <1>4 DEF SchedLock, SchedPush
<1>5. CASE SchedNotify \/ Poll
  BY <1>5 DEF SchedNotify, Poll, NotifyOne, LoopOn
<1>6. CASE JoinLock
  <2>1. \/ target' = 0 /\ mpc' = "join_stop" /\ u <= target
        \/ target' = target + 1 /\ mpc' = "join_lock"
    BY <1>6, Loop DEF JoinLock
  <2>2. QED
    BY <1>0, <1>6, <2>1 DEF JoinLock
<1>7. CASE JoinStop
  <2>1. target = 0
    BY <1>7 DEF JoinStop, FlagInv
  <2>2. QED
    BY <1>0, <1>7, <2>1 DEF JoinStop
<1>8. CASE JoinUnlock
  <2>1. \/ target' = 0 /\ mpc' = "join_notify" /\ u <= target
        \/ target' = target + 1 /\ mpc' = "join_unlock"
    BY <1>8, Loop DEF JoinUnlock
  <2>2. QED
    BY <1>0, <1>8, <2>1 DEF JoinUnlock
<1>9. CASE JoinNotify
  BY <1>9 DEF JoinNotify, NotifyOne
<1>10. CASE JoinThread
  BY <1>10 DEF JoinThread, LoopOn
<1>11. QED
  BY <1>1, <1>2, <1>3, <1>4, <1>5, <1>6, <1>7, <1>8, <1>9, <1>10
  DEF Next, MainStep, Done

\* The flags change where join changes them.
LEMMA FlagStep == ASSUME IInv, [Next]_vars PROVE FlagInv'
<1> USE DEF IInv, TypeOK, FlagInv, Scheduling, Joining, Stopped
<1>1. CASE UNCHANGED vars
  BY <1>1 DEF vars, flagVars, mainVars
<1>2. ASSUME NEW t \in Worker, WorkerStep(t) \/ SpuriousWakeup(t) PROVE FlagInv'
  <2>1. UNCHANGED <<flagVars, mainVars>>
    BY <1>2 DEF WorkerStep, Acquire, GoToSleep, Block, Pop, Exit, Run, SpuriousWakeup
  <2>2. QED
    BY <2>1 DEF flagVars, mainVars
<1>3. CASE CallSync
  BY <1>3 DEF CallSync, Begin, flagVars
<1>4. CASE CallJoin
  BY <1>4 DEF CallJoin, Begin, flagVars
<1>5. ASSUME NEW t \in Worker, CallSchedule(t) PROVE FlagInv'
  BY <1>5 DEF CallSchedule, Begin, flagVars
<1>6. CASE SchedLock \/ SchedPush
  BY <1>6 DEF SchedLock, SchedPush, flagVars
<1>7. CASE SchedNotify \/ Poll
  BY <1>7 DEF SchedNotify, Poll, LoopOn, flagVars
<1>8. CASE JoinLock
  BY <1>8 DEF JoinLock, LoopOn, flagVars
<1>9. CASE JoinStop
  BY <1>9 DEF JoinStop
<1>10. CASE JoinUnlock
  BY <1>10 DEF JoinUnlock, LoopOn, flagVars
<1>11. CASE JoinNotify
  BY <1>11 DEF JoinNotify, flagVars
<1>12. CASE JoinThread
  BY <1>12 DEF JoinThread, LoopOn
<1>13. QED
  BY <1>1, <1>2, <1>3, <1>4, <1>5, <1>6, <1>7, <1>8, <1>9, <1>10, <1>11, <1>12
  DEF Next, MainStep, Done

\* No more jobs are pushed for a worker than there are calls.
LEMMA CountStep == ASSUME IInv, [Next]_vars PROVE CountInv'
<1> SUFFICES ASSUME NEW u \in Worker
             PROVE  accepted'[u] + (IF Owes(u)' THEN 1 ELSE 0) <= calls'
  BY DEF CountInv
<1>a. /\ u \in Nat /\ target \in Nat /\ target \in Worker
      /\ accepted[u] \in Nat /\ calls \in Nat
  BY Types DEF IInv
<1>b. accepted[u] + (IF Owes(u) THEN 1 ELSE 0) <= calls
  BY DEF IInv, CountInv
<1>1. ASSUME UNCHANGED <<accepted, calls>>, Owes(u)' => Owes(u)
      PROVE  accepted'[u] + (IF Owes(u)' THEN 1 ELSE 0) <= calls'
  BY <1>a, <1>b, <1>1
<1>2. CASE UNCHANGED vars
  BY <1>1, <1>2 DEF vars, queueVars, mainVars, Owes, Scheduling
<1>3. ASSUME NEW t \in Worker, WorkerStep(t) \/ SpuriousWakeup(t)
      PROVE  accepted'[u] + (IF Owes(u)' THEN 1 ELSE 0) <= calls'
  <2>1. UNCHANGED <<accepted, mainVars>>
    BY <1>3 DEF WorkerStep, Acquire, GoToSleep, Block, Pop, Exit, Run, SpuriousWakeup, queueVars
  <2>2. QED
    BY <1>1, <2>1 DEF mainVars, Owes, Scheduling
<1>4. CASE CallSync \/ CallJoin \/ \E t \in Worker : CallSchedule(t)
  <2>1. accepted'[u] = accepted[u] /\ calls' = calls + 1
    BY <1>4 DEF CallSchedule, CallSync, CallJoin, Begin, queueVars
  <2>2. QED
    BY <1>a, <1>b, <2>1
<1>5. CASE SchedLock
  BY <1>1, <1>5 DEF SchedLock, queueVars, Owes, Scheduling
<1>6. CASE SchedPush
  <2>1. accepted'[u] = IF u = target THEN accepted[u] + 1 ELSE accepted[u]
    BY <1>6 DEF SchedPush, IInv, TypeOK
  <2>2. u = target => Owes(u) /\ ~Owes(u)'
    BY <1>6, <1>a DEF SchedPush, Owes, Scheduling
  <2>3. Owes(u)' => Owes(u)
    BY <1>6 DEF SchedPush, Owes, Scheduling
  <2>4. calls' = calls
    BY <1>6 DEF SchedPush
  <2>5. QED
    BY <1>a, <1>b, <2>1, <2>2, <2>3, <2>4
<1>7. CASE SchedNotify
  <2>1. \/ mpc' \in {"poll", "idle"}
        \/ op = "sync" /\ mpc' = "sched_lock" /\ target' = target + 1
    BY <1>7 DEF SchedNotify, LoopOn
  <2>2. Owes(u)' => Owes(u)
    BY <1>7, <1>a, <2>1 DEF SchedNotify, Owes, Scheduling
  <2>3. QED
    BY <1>1, <1>7, <2>2 DEF SchedNotify, queueVars
<1>8. CASE Poll \/ JoinLock \/ JoinUnlock \/ JoinThread
  <2>1. ~Owes(u)'
    BY <1>8 DEF Poll, JoinLock, JoinUnlock, JoinThread, LoopOn, Owes, Scheduling
  <2>2. QED
    BY <1>1, <1>8, <2>1 DEF Poll, JoinLock, JoinUnlock, JoinThread, queueVars
<1>9. CASE JoinStop \/ JoinNotify
  BY <1>1, <1>9 DEF JoinStop, JoinNotify, queueVars, Owes, Scheduling
<1>10. QED
  BY <1>2, <1>3, <1>4, <1>5, <1>6, <1>7, <1>8, <1>9 DEF Next, MainStep, Done

\* A queue goes on holding the jobs not taken: they come in at the end and
\* are taken from the front.
QueueOf(u) == /\ Len(m_queue[u]) + Taken(u) = accepted[u]
              /\ \A i \in 1..Len(m_queue[u]) : m_queue[u][i] = Taken(u) + i
              /\ running[u] = IF wpc[u] = "run" THEN Taken(u) ELSE 0

LEMMA QueueStep == ASSUME IInv, [Next]_vars PROVE QueueInv'
<1> SUFFICES ASSUME NEW u \in Worker PROVE QueueOf(u)'
  BY DEF QueueInv, QueueOf
<1> USE DEF IInv
<1>a. QueueOf(u)
  BY DEF QueueInv, QueueOf
<1>b. /\ m_queue[u] \in Seq(1..MaxCalls) /\ Len(m_queue[u]) \in Nat
      /\ Taken(u) \in Nat /\ accepted[u] \in Nat
  BY Types, QueueTypes
\* What u shows of a step that neither gives it a job nor takes one from it.
<1>1. ASSUME m_queue'[u] = m_queue[u], accepted'[u] = accepted[u],
             Taken(u)' = Taken(u), running'[u] = running[u],
             wpc'[u] = "run" <=> wpc[u] = "run"
      PROVE  QueueOf(u)'
  BY <1>a, <1>1 DEF QueueOf
<1>2. CASE UNCHANGED vars
  BY <1>1, <1>2 DEF vars, queueVars, workVars, Taken
<1>3. ASSUME NEW t \in Worker,
             Acquire(t) \/ GoToSleep(t) \/ Block(t) \/ Exit(t) \/ SpuriousWakeup(t)
      PROVE  QueueOf(u)'
  <2>1. /\ UNCHANGED <<queueVars, workVars>>
        /\ wpc'[u] = "run" <=> wpc[u] = "run"
    BY <1>3 DEF Acquire, GoToSleep, Block, Exit, SpuriousWakeup, Unlock, TypeOK
  <2>2. QED
    BY <1>1, <2>1 DEF queueVars, workVars, Taken
<1>4. ASSUME NEW t \in Worker, Pop(t) PROVE QueueOf(u)'
  <2>1. CASE u = t
    <3>1. /\ m_queue'[u] = Tail(m_queue[u]) /\ running'[u] = Head(m_queue[u])
          /\ wpc'[u] = "run" /\ accepted' = accepted /\ Taken(u)' = Taken(u) + 1
      BY <1>4, <2>1, Types DEF Pop, Unlock, TypeOK, Taken
    <3>2. m_queue[u] # <<>>
      BY <1>4, <2>1 DEF Pop
    <3>3. /\ Len(m_queue'[u]) = Len(m_queue[u]) - 1
          /\ \A i \in 1..Len(m_queue'[u]) : m_queue'[u][i] = m_queue[u][i + 1]
      BY <1>b, <3>1, <3>2, HeadTailProperties
    <3>4. running'[u] = m_queue[u][1] /\ Len(m_queue[u]) >= 1
      BY <1>b, <3>1, <3>2, EmptySeq
    <3>5. Len(m_queue'[u]) + Taken(u)' = accepted'[u]
      BY <1>a, <1>b, <3>1, <3>3 DEF QueueOf
    <3>6. ASSUME NEW i \in 1..Len(m_queue'[u]) PROVE m_queue'[u][i] = Taken(u)' + i
      <4>1. i + 1 \in 1..Len(m_queue[u])
        BY <1>b, <3>3
      <4>2. m_queue[u][i + 1] = Taken(u) + (i + 1)
        BY <1>a, <4>1 DEF QueueOf
      <4>3. QED
        BY <1>b, <3>1, <3>3, <4>2
    <3>7. running'[u] = Taken(u)'
      BY <1>a, <1>b, <3>1, <3>4 DEF QueueOf
    <3>8. QED
      BY <3>1, <3>5, <3>6, <3>7 DEF QueueOf
  <2>2. CASE u # t
    <3>1. /\ m_queue'[u] = m_queue[u] /\ accepted'[u] = accepted[u]
          /\ Taken(u)' = Taken(u) /\ running'[u] = running[u] /\ wpc'[u] = wpc[u]
      BY <1>4, <2>2 DEF Pop, Unlock, TypeOK, Taken
    <3>2. QED
      BY <1>1, <3>1
  <2>3. QED
    BY <2>1, <2>2
<1>5. ASSUME NEW t \in Worker, Run(t) PROVE QueueOf(u)'
  <2>1. CASE u = t
    <3>1. /\ m_queue'[u] = m_queue[u] /\ accepted'[u] = accepted[u]
          /\ Taken(u)' = Taken(u) /\ running'[u] = 0 /\ wpc'[u] = "acquire"
      BY <1>5, <1>a, <2>1, Types DEF Run, TypeOK, Taken, QueueOf, queueVars
    <3>2. QED
      BY <1>a, <3>1 DEF QueueOf
  <2>2. CASE u # t
    <3>1. /\ m_queue'[u] = m_queue[u] /\ accepted'[u] = accepted[u]
          /\ Taken(u)' = Taken(u) /\ running'[u] = running[u] /\ wpc'[u] = wpc[u]
      BY <1>5, <2>2 DEF Run, TypeOK, Taken, queueVars
    <3>2. QED
      BY <1>1, <3>1
  <2>3. QED
    BY <2>1, <2>2
<1>6. CASE SchedPush
  <2>1. /\ Taken(u)' = Taken(u) /\ running' = running /\ wpc' = wpc
    BY <1>6 DEF SchedPush, Taken, workVars
  <2>2. CASE u = target
    <3>1. /\ m_queue'[u] = Append(m_queue[u], accepted[u] + 1)
          /\ accepted'[u] = accepted[u] + 1
      BY <1>6, <2>2 DEF SchedPush, TypeOK
    <3>2. accepted[u] + 1 \in 1..MaxCalls
      <4>1. accepted[u] + 1 <= calls
        BY <1>6, <2>2 DEF CountInv, Owes, SchedPush
      <4>2. QED
        BY <4>1, MaxCallsAssumption DEF TypeOK
    <3>3. /\ Len(m_queue'[u]) = Len(m_queue[u]) + 1
          /\ \A i \in 1..Len(m_queue[u]) : m_queue'[u][i] = m_queue[u][i]
          /\ m_queue'[u][Len(m_queue[u]) + 1] = accepted[u] + 1
      BY <1>b, <3>1, <3>2, AppendProperties
    <3>4. Len(m_queue'[u]) + Taken(u)' = accepted'[u]
      BY <1>a, <1>b, <2>1, <3>1, <3>3 DEF QueueOf
    <3>5. ASSUME NEW i \in 1..Len(m_queue'[u]) PROVE m_queue'[u][i] = Taken(u) + i
      <4>1. CASE i \in 1..Len(m_queue[u])
        BY <1>a, <3>3, <4>1 DEF QueueOf
      <4>2. CASE i = Len(m_queue[u]) + 1
        BY <1>a, <1>b, <3>3, <4>2 DEF QueueOf
      <4>3. QED
        BY <1>b, <3>3, <4>1, <4>2
    <3>6. QED
      BY <1>a, <2>1, <3>4, <3>5 DEF QueueOf
  <2>3. CASE u # target
    <3>1. m_queue'[u] = m_queue[u] /\ accepted'[u] = accepted[u]
      BY <1>6, <2>3 DEF SchedPush, TypeOK
    <3>2. QED
      BY <1>1, <2>1, <3>1
  <2>4. QED
    BY <2>2, <2>3
<1>7. CASE SchedNotify \/ JoinNotify
  <2>1. /\ UNCHANGED <<queueVars, workVars>>
        /\ wpc'[u] = "run" <=> wpc[u] = "run"
    BY <1>7 DEF SchedNotify, JoinNotify, NotifyOne, TypeOK
  <2>2. QED
    BY <1>1, <2>1 DEF queueVars, workVars, Taken
<1>8. CASE \/ CallSync \/ CallJoin \/ \E t \in Worker : CallSchedule(t)
           \/ SchedLock \/ Poll \/ JoinLock \/ JoinStop \/ JoinUnlock \/ JoinThread
  <2>1. UNCHANGED <<queueVars, workVars, wpc>>
    BY <1>8 DEF CallSync, CallJoin, CallSchedule, Begin, SchedLock, Poll, JoinLock,
       JoinStop, JoinUnlock, JoinThread
  <2>2. QED
    BY <1>1, <2>1 DEF queueVars, workVars, Taken
<1>9. QED
  BY <1>2, <1>3, <1>4, <1>5, <1>6, <1>7, <1>8 DEF Next, WorkerStep, MainStep, Done

\* Nobody goes to sleep, or leaves, with a job in the queue: main cannot push
\* one, nor stop the pool, while the worker holds the mutex.
LEMMA SleepStep == ASSUME IInv, [Next]_vars PROVE SleepInv'
<1> SUFFICES ASSUME NEW u \in Worker
             PROVE  /\ wpc'[u] = "block" => m_queue'[u] = <<>> /\ m_running'
                    /\ wpc'[u] = "exited" => m_queue'[u] = <<>> /\ ~m_running'
  BY DEF SleepInv
<1> USE DEF IInv, TypeOK, SleepInv
<1>1. CASE UNCHANGED vars
  BY <1>1 DEF vars, queueVars, flagVars
<1>2. ASSUME NEW t \in Worker, WorkerStep(t) \/ SpuriousWakeup(t)
      PROVE  /\ wpc'[u] = "block" => m_queue'[u] = <<>> /\ m_running'
             /\ wpc'[u] = "exited" => m_queue'[u] = <<>> /\ ~m_running'
  <2>1. CASE Acquire(t) \/ Run(t) \/ SpuriousWakeup(t)
    BY <2>1 DEF Acquire, Run, SpuriousWakeup, queueVars, flagVars
  <2>2. CASE GoToSleep(t)
    BY <2>2 DEF GoToSleep, queueVars, flagVars
  <2>3. CASE Block(t) \/ Exit(t)
    BY <2>3 DEF Block, Exit, Unlock, queueVars, flagVars
  <2>4. CASE Pop(t)
    BY <2>4 DEF Pop, Unlock, flagVars
  <2>5. QED
    BY <1>2, <2>1, <2>2, <2>3, <2>4 DEF WorkerStep
<1>3. CASE SchedPush
  <2>1. u = target => wpc[u] # "block"
    BY <1>3 DEF SchedPush, LockInv, MainHolds
  <2>2. m_running
    BY <1>3 DEF SchedPush, FlagInv, Scheduling, Stopped
  <2>3. QED
    BY <1>3, <2>1, <2>2 DEF SchedPush, flagVars
<1>4. CASE JoinStop
  <2>1. wpc[u] # "block"
    BY <1>4 DEF JoinStop, LockInv, MainHolds
  <2>2. QED
    BY <1>4, <2>1 DEF JoinStop, queueVars
<1>5. CASE SchedNotify \/ JoinNotify
  BY <1>5 DEF SchedNotify, JoinNotify, NotifyOne, queueVars, flagVars
<1>6. CASE \/ CallSync \/ CallJoin \/ \E t \in Worker : CallSchedule(t)
           \/ SchedLock \/ Poll \/ JoinLock \/ JoinUnlock \/ JoinThread
  <2>1. UNCHANGED <<m_queue, m_running, wpc>>
    BY <1>6 DEF CallSync, CallJoin, CallSchedule, Begin, SchedLock, Poll, JoinLock,
       JoinUnlock, JoinThread, queueVars, flagVars
  <2>2. QED
    BY <2>1
<1>7. QED
  BY <1>1, <1>2, <1>3, <1>4, <1>5, <1>6 DEF Next, MainStep, Done

\* join goes on to the next worker when one has left.
LEMMA JoinStep == ASSUME IInv, [Next]_vars PROVE JoinInv'
<1> SUFFICES ASSUME NEW u \in Worker,
                    \/ m_joined'
                    \/ mpc' \in {"join_notify", "join_thread"} /\ u < target'
             PROVE  wpc'[u] = "exited"
  BY DEF JoinInv
<1> USE DEF IInv, TypeOK, JoinInv
<1>0. u \in Nat /\ target \in Nat /\ target \in Worker
  BY Types
<1>1. CASE UNCHANGED vars
  BY <1>1 DEF vars, flagVars, mainVars
<1>2. ASSUME NEW t \in Worker, WorkerStep(t) \/ SpuriousWakeup(t)
      PROVE  wpc'[u] = "exited"
  <2>1. wpc[u] = "exited"
    BY <1>2 DEF WorkerStep, Acquire, GoToSleep, Block, Pop, Exit, Run, SpuriousWakeup,
       flagVars, mainVars
  <2>2. QED
    BY <1>2, <2>1 DEF WorkerStep, Acquire, GoToSleep, Block, Pop, Exit, Run,
       SpuriousWakeup, Unlock
<1>3. CASE \/ CallSync \/ CallJoin \/ \E t \in Worker : CallSchedule(t)
           \/ SchedLock \/ SchedPush \/ Poll \/ JoinLock \/ JoinStop
  <2>1. /\ UNCHANGED <<m_joined, wpc>>
        /\ mpc' \notin {"join_notify", "join_thread"}
    BY <1>3 DEF CallSync, CallJoin, CallSchedule, Begin, SchedLock, SchedPush, Poll,
       JoinLock, JoinStop, LoopOn, flagVars
  <2>2. QED
    BY <2>1
<1>4. CASE SchedNotify
  BY <1>4 DEF SchedNotify, NotifyOne, LoopOn, FlagInv, Scheduling, flagVars
<1>5. CASE JoinUnlock
  <2>1. mpc' = "join_notify" => target' = 0
    BY <1>5 DEF JoinUnlock, LoopOn
  <2>2. m_joined' => wpc'[u] = "exited"
    BY <1>5 DEF JoinUnlock, flagVars
  <2>3. QED
    BY <1>0, <1>5, <2>1, <2>2 DEF JoinUnlock, LoopOn
<1>6. CASE JoinNotify
  BY <1>6 DEF JoinNotify, NotifyOne, flagVars
<1>7. CASE JoinThread
  <2>1. u <= target
    <3>1. ~m_joined
      BY <1>7 DEF JoinThread, FlagInv, Joining, Stopped
    <3>2. \/ target = Last
          \/ target' = target + 1 /\ ~m_joined'
      BY <1>7, Loop DEF JoinThread
    <3>3. QED
      BY <1>0, <3>2, WorkerFacts
  <2>2. u < target \/ u = target
    BY <1>0, <2>1
  <2>3. QED
    BY <1>7, <2>2 DEF JoinThread
<1>8. QED
  BY <1>1, <1>2, <1>3, <1>4, <1>5, <1>6, <1>7 DEF Next, MainStep, Done

\* A worker that sleeps although there is something to do will be notified.
LEMMA WakeupStep == ASSUME IInv, [Next]_vars PROVE NoLostWakeup'
<1> SUFFICES ASSUME NEW u \in Worker, wpc'[u] \in {"block", "waiting"},
                    m_queue'[u] # <<>> \/ ~m_running'
             PROVE  NotifyPending(u)'
  BY DEF NoLostWakeup
<1> USE DEF IInv, TypeOK
<1>0. u \in Nat /\ target \in Nat /\ target \in Worker
  BY Types
\* If u was asleep or about to sleep, with something to do, before the step.
<1>a. ASSUME wpc[u] \in {"block", "waiting"}, m_queue[u] # <<>> \/ ~m_running
      PROVE  wpc[u] = "waiting" /\ NotifyPending(u)
  BY <1>a DEF NoLostWakeup, SleepInv
<1>1. CASE UNCHANGED vars
  BY <1>1, <1>a DEF vars, queueVars, flagVars, mainVars, NotifyPending
<1>2. ASSUME NEW t \in Worker, WorkerStep(t) \/ SpuriousWakeup(t)
      PROVE  NotifyPending(u)'
  <2>1. UNCHANGED <<m_running, mpc, target>>
    BY <1>2 DEF WorkerStep, Acquire, GoToSleep, Block, Pop, Exit, Run, SpuriousWakeup,
       flagVars, mainVars
  <2>2. CASE u # t
    <3>1. wpc'[u] = wpc[u] /\ m_queue'[u] = m_queue[u]
      BY <1>2, <2>2 DEF WorkerStep, Acquire, GoToSleep, Block, Pop, Exit, Run,
         SpuriousWakeup, Unlock, queueVars
    <3>2. QED
      BY <1>a, <2>1, <3>1 DEF NotifyPending
  <2>3. CASE u = t
    <3>1. (GoToSleep(t) \/ Block(t)) /\ m_queue' = m_queue
      BY <1>2, <2>3 DEF WorkerStep, Acquire, GoToSleep, Block, Pop, Exit, Run,
         SpuriousWakeup, Unlock, queueVars
    <3>2. m_queue[u] = <<>> /\ m_running
      BY <2>3, <3>1 DEF GoToSleep, Block, SleepInv
    <3>3. QED
      BY <2>1, <3>1, <3>2
  <2>4. QED
    BY <2>2, <2>3
<1>3. CASE CallSync \/ CallJoin \/ \E t \in Worker : CallSchedule(t)
  <2>1. UNCHANGED <<m_queue, m_running, wpc>> /\ ~NotifyPending(u)
    BY <1>3 DEF CallSync, CallJoin, CallSchedule, Begin, NotifyPending, queueVars, flagVars
  <2>2. QED
    BY <1>a, <2>1
<1>4. CASE SchedLock \/ Poll \/ JoinLock
  <2>1. UNCHANGED <<m_queue, m_running, wpc>> /\ ~NotifyPending(u)
    BY <1>4 DEF SchedLock, Poll, JoinLock, NotifyPending, queueVars, flagVars
  <2>2. QED
    BY <1>a, <2>1
<1>5. CASE SchedPush
  <2>1. UNCHANGED <<m_running, wpc>> /\ ~NotifyPending(u)
    BY <1>5 DEF SchedPush, NotifyPending, flagVars
  <2>2. u = target
    BY <1>5, <1>a, <2>1 DEF SchedPush
  <2>3. QED
    BY <1>5, <2>2 DEF SchedPush, NotifyPending
<1>6. CASE SchedNotify
  <2>1. UNCHANGED <<m_queue, m_running>>
    BY <1>6 DEF SchedNotify, queueVars, flagVars
  <2>2. wpc[u] \in {"block", "waiting"} /\ (u = target => wpc[u] # "waiting")
    BY <1>6 DEF SchedNotify, NotifyOne
  <2>3. QED
    BY <1>6, <1>a, <2>1, <2>2 DEF SchedNotify, NotifyPending
<1>7. CASE JoinStop
  BY <1>7 DEF JoinStop, NotifyPending
<1>8. CASE JoinUnlock
  <2>1. \/ mpc' = "join_unlock"
        \/ mpc' = "join_notify" /\ target' = 0
    BY <1>8 DEF JoinUnlock, LoopOn
  <2>2. QED
    BY <1>0, <2>1 DEF NotifyPending
<1>9. CASE JoinNotify
  <2>1. UNCHANGED <<m_queue, m_running, target>> /\ mpc' = "join_thread"
    BY <1>9 DEF JoinNotify, queueVars, flagVars
  <2>2. wpc[u] \in {"block", "waiting"} /\ (u = target => wpc[u] # "waiting")
    BY <1>9 DEF JoinNotify, NotifyOne
  <2>3. target <= u /\ u # target
    BY <1>9, <1>a, <2>1, <2>2 DEF JoinNotify, NotifyPending
  <2>4. QED
    BY <1>0, <2>1, <2>3 DEF NotifyPending
<1>10. CASE JoinThread
  <2>1. UNCHANGED <<m_queue, m_running, wpc>>
    BY <1>10 DEF JoinThread, queueVars
  <2>2. target < u
    BY <1>10, <1>a, <2>1 DEF JoinThread, NotifyPending
  <2>3. mpc' = "join_notify" /\ target' = target + 1
    <3>1. \/ target = Last /\ u <= target
          \/ mpc' = "join_notify" /\ target' = target + 1
      BY <1>10, Loop DEF JoinThread
    <3>2. QED
      BY <1>0, <2>2, <3>1
  <2>4. QED
    BY <1>0, <2>2, <2>3 DEF NotifyPending
<1>11. QED
  BY <1>1, <1>2, <1>3, <1>4, <1>5, <1>6, <1>7, <1>8, <1>9, <1>10
  DEF Next, MainStep, Done

\* sync follows the jobs it was promised with jobs of its own, and remembers
\* right which queues it has seen empty: only main fills them again.
SyncOf(u) == /\ promised[u] + (IF Followed(u) THEN 1 ELSE 0) <= accepted[u]
             /\ mpc = "poll" /\ ~busy /\ u < target => m_queue[u] = <<>>

LEMMA SyncStep == ASSUME IInv, [Next]_vars PROVE SyncInv'
<1> SUFFICES ASSUME NEW u \in Worker PROVE SyncOf(u)'
  BY DEF SyncInv, SyncOf
<1> USE DEF IInv, TypeOK
<1>0. /\ u \in Nat /\ target \in Nat /\ target \in Worker
      /\ promised[u] \in Nat /\ accepted[u] \in Nat
  BY Types
<1>a. SyncOf(u)
  BY DEF SyncInv, SyncOf
<1>b. promised[u] <= accepted[u]
  BY <1>0, <1>a DEF SyncOf
\* Steps that leave the counts alone and do not poll.
<1>1. ASSUME promised'[u] = promised[u], accepted'[u] = accepted[u],
             Followed(u)' => Followed(u), ~(mpc' = "poll" /\ u < target')
      PROVE  SyncOf(u)'
  <2>1. promised[u] + (IF Followed(u)' THEN 1 ELSE 0) <= accepted[u]
    BY <1>0, <1>1, <1>a DEF SyncOf
  <2>2. QED
    BY <1>1, <2>1 DEF SyncOf
<1>2. CASE UNCHANGED vars
  BY <1>2, <1>a DEF SyncOf, vars, queueVars, mainVars, flagVars, Followed, Scheduling
<1>3. ASSUME NEW t \in Worker, WorkerStep(t) \/ SpuriousWakeup(t) PROVE SyncOf(u)'
  <2>1. UNCHANGED <<m_joined, accepted, mainVars>>
    BY <1>3 DEF WorkerStep, Acquire, GoToSleep, Block, Pop, Exit, Run, SpuriousWakeup,
       queueVars, flagVars
  <2>2. m_queue[u] = <<>> => m_queue'[u] = <<>>
    BY <1>3 DEF WorkerStep, Acquire, GoToSleep, Block, Pop, Exit, Run, SpuriousWakeup,
       queueVars
  <2>3. Followed(u)' <=> Followed(u)
    BY <2>1 DEF Followed, Scheduling, mainVars
  <2>4. QED
    BY <1>a, <2>1, <2>2, <2>3 DEF SyncOf, mainVars
<1>4. CASE CallSync
  <2>1. /\ promised'[u] = accepted[u] /\ accepted'[u] = accepted[u]
        /\ ~Followed(u)' /\ target' = 0
    BY <1>0, <1>4 DEF CallSync, Begin, queueVars, flagVars, Followed, Scheduling
  <2>2. QED
    BY <1>0, <2>1 DEF SyncOf
<1>5. CASE CallJoin \/ \E t \in Worker : CallSchedule(t)
  <2>1. /\ promised' = promised /\ accepted' = accepted
        /\ ~Followed(u)' /\ mpc' # "poll"
    BY <1>5 DEF CallJoin, CallSchedule, Begin, queueVars, Followed, Scheduling
  <2>2. QED
    BY <1>1, <2>1
<1>6. CASE SchedLock
  BY <1>1, <1>6 DEF SchedLock, queueVars, flagVars, Followed, Scheduling
<1>7. CASE SchedPush
  <2>1. /\ promised' = promised /\ mpc' = "sched_notify" /\ target' = target
        /\ accepted'[u] = IF u = target THEN accepted[u] + 1 ELSE accepted[u]
    BY <1>7 DEF SchedPush, TypeOK
  <2>2. CASE u = target
    <3>1. promised[u] + 1 <= accepted'[u]
      BY <1>0, <1>b, <2>1, <2>2
    <3>2. QED
      BY <1>0, <2>1, <2>2, <3>1 DEF SyncOf
  <2>3. CASE u # target
    <3>1. Followed(u)' => Followed(u)
      BY <1>7, <2>1, <2>3 DEF SchedPush, Followed, Scheduling
    <3>2. QED
      BY <1>1, <2>1, <2>3, <3>1
  <2>4. QED
    BY <2>2, <2>3
<1>8. CASE SchedNotify
  <2>1. /\ promised' = promised /\ accepted' = accepted
        /\ op' = op /\ m_joined' = m_joined
    BY <1>8 DEF SchedNotify, queueVars, flagVars
  <2>2. \/ mpc' = "poll" /\ target' = 0 /\ u <= target /\ op = "sync"
        \/ mpc' = "sched_lock" /\ target' = target + 1 /\ op = "sync"
        \/ mpc' = "idle"
    BY <1>8, Loop DEF SchedNotify
  <2>3. Followed(u)' => Followed(u)
    BY <1>0, <1>8, <2>1, <2>2 DEF SchedNotify, Followed, Scheduling
  <2>4. ~(mpc' = "poll" /\ u < target')
    BY <1>0, <2>2
  <2>5. QED
    BY <1>1, <2>1, <2>3, <2>4
<1>9. CASE Poll
  <2>1. /\ promised' = promised /\ accepted' = accepted /\ m_queue' = m_queue
        /\ m_joined' = m_joined
    BY <1>9 DEF Poll, queueVars, flagVars
  <2>2. Followed(u)' => Followed(u)
    BY <1>9, <2>1 DEF Poll, LoopOn, Followed, Scheduling
  <2>3. \/ target' = 0
        \/ target' = target + 1 /\ busy' = (busy \/ m_queue[target] # <<>>)
    BY <1>0, <1>9, Loop DEF Poll, LoopOn
  <2>4. CASE target' = 0
    BY <1>0, <1>1, <2>1, <2>2, <2>4
  <2>5. CASE target' = target + 1 /\ busy' = (busy \/ m_queue[target] # <<>>)
    <3>1. ~busy' /\ u < target' => m_queue[u] = <<>>
      <4>1. u < target' => u < target \/ u = target
        BY <1>0, <2>5
      <4>2. QED
        BY <1>9, <1>a, <2>5, <4>1 DEF Poll, SyncOf
    <3>2. promised[u] + (IF Followed(u)' THEN 1 ELSE 0) <= accepted[u]
      BY <1>0, <1>a, <2>2 DEF SyncOf
    <3>3. QED
      BY <2>1, <3>1, <3>2 DEF SyncOf
  <2>6. QED
    BY <2>3, <2>4, <2>5
<1>10. CASE JoinLock \/ JoinStop \/ JoinUnlock \/ JoinNotify \/ JoinThread
  <2>1. /\ promised' = promised /\ accepted' = accepted
        /\ ~Followed(u)' /\ mpc' # "poll"
    BY <1>10 DEF JoinLock, JoinStop, JoinUnlock, JoinNotify, JoinThread, LoopOn,
       queueVars, Followed, Scheduling
  <2>2. QED
    BY <1>1, <2>1
<1>11. QED
  BY <1>2, <1>3, <1>4, <1>5, <1>6, <1>7, <1>8, <1>9, <1>10 DEF Next, MainStep, Done

-----------------------------------------------------------------------------
\* When join has returned nothing is left.
LEMMA JoinedIsEmpty == ASSUME IInv PROVE JoinDrains
<1> SUFFICES ASSUME m_joined, NEW t \in Worker
             PROVE  wpc[t] = "exited" /\ m_queue[t] = <<>> /\ finished[t] = accepted[t]
  BY DEF JoinDrains
<1>1. wpc[t] = "exited" /\ m_queue[t] = <<>>
  BY DEF IInv, JoinInv, SleepInv
<1>2. Len(m_queue[t]) = 0 /\ Taken(t) = finished[t]
  BY <1>1, QueueTypes, Types DEF IInv, Taken
<1>3. QED
  BY <1>1, <1>2, Types DEF IInv, QueueInv

\* Only Poll takes main from its polls back to idle.
LEMMA OnlyPoll == ASSUME [Next]_vars, mpc = "poll", mpc' = "idle" PROVE Poll
BY DEF Next, vars, Done, WorkerStep, Acquire, GoToSleep, Block, Pop, Exit, Run,
   SpuriousWakeup, mainVars, CallSchedule, CallSync, CallJoin, Begin, MainStep,
   SchedLock, SchedPush, SchedNotify, JoinLock, JoinStop, JoinUnlock, JoinNotify,
   JoinThread

\* When the last poll has found every queue empty the jobs promised are done.
LEMMA PolledIsDone ==
  ASSUME IInv, Poll, mpc' = "idle", NEW t \in Worker PROVE promised[t] <= finished[t]
<1>2. ~busy /\ m_queue[target] = <<>> /\ t <= target
  BY Loop DEF IInv, Poll, LoopOn
<1>3. t < target \/ t = target
  BY <1>2, Types DEF IInv
<1>a. mpc = "poll"
  BY DEF Poll
<1>4. m_queue[t] = <<>>
  BY <1>a, <1>2, <1>3 DEF IInv, SyncInv
<1>5. Taken(t) = accepted[t]
  BY <1>4, QueueTypes, Types DEF IInv, QueueInv
<1>6. CASE m_joined
  <2>1. Taken(t) = finished[t]
    BY <1>6, Types DEF IInv, JoinInv, Taken
  <2>2. promised[t] <= accepted[t]
    BY Types DEF IInv, SyncInv
  <2>3. QED
    BY <1>5, <2>1, <2>2, Types DEF IInv
<1>7. CASE ~m_joined
  <2>1. promised[t] + 1 <= accepted[t]
    BY <1>a, <1>7 DEF IInv, SyncInv, Followed
  <2>2. Taken(t) <= finished[t] + 1
    BY Types DEF IInv, Taken
  <2>3. QED
    BY <1>5, <2>1, <2>2, Types DEF IInv
<1>8. QED
  BY <1>6, <1>7

\* What a worker takes from its queue is the job after the last it finished.
LEMMA TakesTheNext ==
  ASSUME IInv, NEW t \in Worker, Pop(t)
  PROVE  /\ running[t] = 0 /\ finished[t] < accepted[t]
         /\ running' = [running EXCEPT ![t] = finished[t] + 1]
<1>1. m_queue[t] # <<>> /\ wpc[t] = "check" /\ running' = [running EXCEPT ![t] = Head(m_queue[t])]
  BY DEF Pop
<1>2. Head(m_queue[t]) = m_queue[t][1] /\ 1 \in 1..Len(m_queue[t])
  BY <1>1, QueueTypes DEF IInv
<1>3. Taken(t) = finished[t]
  BY <1>1, Types DEF IInv, Taken
<1>4. Len(m_queue[t]) >= 1 /\ Len(m_queue[t]) \in Nat
  BY <1>1, QueueTypes DEF IInv
<1>5. finished[t] < accepted[t]
  BY <1>3, <1>4, Types DEF IInv, QueueInv
<1>6. QED
  BY <1>1, <1>2, <1>3, <1>5 DEF IInv, QueueInv

-----------------------------------------------------------------------------
(***************************************************************************)
(* Every step is one of WorkPool, or changes nothing there.                  *)
(***************************************************************************)
\* The new pool is the new abstract one.
LEMMA PoolInit == Init => Pool!Init
BY DEF Init, Pool!Init, CallNow

LEMMA PoolStep == ASSUME IInv, [Next]_vars PROVE [Pool!Next]_(Pool!vars)
<1> USE DEF IInv, TypeOK
<1>0. ASSUME UNCHANGED <<accepted, running, finished, promised, m_joined, CallNow>>
      PROVE  UNCHANGED Pool!vars
  BY <1>0 DEF Pool!vars
<1>1. CASE UNCHANGED vars
  BY <1>0, <1>1 DEF vars, queueVars, flagVars, workVars, mainVars, CallNow
<1>2. ASSUME NEW t \in Worker,
             Acquire(t) \/ GoToSleep(t) \/ Block(t) \/ Exit(t) \/ SpuriousWakeup(t)
      PROVE  UNCHANGED Pool!vars
  BY <1>0, <1>2 DEF Acquire, GoToSleep, Block, Exit, SpuriousWakeup, Unlock,
     queueVars, flagVars, workVars, mainVars, CallNow
<1>3. ASSUME NEW t \in Worker, Pop(t) PROVE Pool!Start(t)
  BY <1>3, TakesTheNext DEF Pop, Pool!Start, flagVars, mainVars, CallNow
<1>4. ASSUME NEW t \in Worker, Run(t) PROVE Pool!Finish(t)
  <2>1. running[t] = finished[t] + 1
    BY <1>4 DEF Run, QueueInv, Taken
  <2>2. running[t] # 0
    BY <2>1, Types
  <2>3. QED
    BY <1>4, <2>2 DEF Run, Pool!Finish, queueVars, flagVars, mainVars, CallNow
<1>5. ASSUME NEW t \in Worker, CallSchedule(t) PROVE [Pool!Next]_(Pool!vars)
  <2>1. CASE m_joined
    BY <1>0, <1>5, <2>1 DEF CallSchedule, Begin, queueVars, flagVars, workVars, CallNow
  <2>2. CASE ~m_joined
    <3>1. Pool!Begin("schedule")
      BY <1>5, <2>2 DEF CallSchedule, Begin, Pool!Begin, queueVars, flagVars, workVars, CallNow
    <3>2. QED
      BY <3>1 DEF Pool!Next
  <2>3. QED
    BY <2>1, <2>2
<1>6. CASE CallSync
  <2>1. Pool!Begin("sync")
    BY <1>6 DEF CallSync, Begin, Pool!Begin, queueVars, flagVars, workVars, CallNow
  <2>2. QED
    BY <2>1 DEF Pool!Next
<1>7. CASE CallJoin
  <2>1. CASE m_joined
    BY <1>0, <1>7, <2>1 DEF CallJoin, Begin, queueVars, flagVars, workVars, CallNow
  <2>2. CASE ~m_joined
    <3>1. Pool!Begin("join")
      BY <1>7, <2>2 DEF CallJoin, Begin, Pool!Begin, queueVars, flagVars, workVars, CallNow
    <3>2. QED
      BY <3>1 DEF Pool!Next
  <2>3. QED
    BY <2>1, <2>2
<1>8. CASE SchedLock
  BY <1>0, <1>8 DEF SchedLock, queueVars, flagVars, workVars, CallNow
<1>9. CASE SchedPush
  <2>1. op \in {"schedule", "sync"} /\ ~m_joined
    BY <1>9 DEF SchedPush, FlagInv, Scheduling
  <2>2. Pool!Accept(target)
    BY <1>9, <2>1 DEF SchedPush, Pool!Accept, flagVars, workVars, CallNow
  <2>3. QED
    BY <2>2 DEF Pool!Next
<1>10. CASE SchedNotify
  <2>1. CASE op = "sync"
    BY <1>0, <1>10, <2>1 DEF SchedNotify, LoopOn, queueVars, flagVars, workVars, CallNow
  <2>2. CASE op = "schedule"
    <3>1. Pool!EndSchedule
      BY <1>10, <2>2 DEF SchedNotify, Pool!EndSchedule, queueVars, flagVars, workVars, CallNow
    <3>2. QED
      BY <3>1 DEF Pool!Next
  <2>3. QED
    BY <1>10, <2>1, <2>2 DEF SchedNotify, FlagInv, Scheduling
<1>11. CASE Poll
  <2>1. op = "sync" /\ mpc = "poll"
    BY <1>11 DEF Poll, FlagInv
  <2>2. CASE mpc' = "idle"
    <3>1. \A t \in Worker : promised[t] <= finished[t]
      BY <1>11, <2>2, PolledIsDone
    <3>2. Pool!EndSync
      BY <1>11, <2>1, <2>2, <3>1 DEF Poll, Pool!EndSync, queueVars, flagVars, workVars, CallNow
    <3>3. QED
      BY <3>2 DEF Pool!Next
  <2>3. CASE mpc' # "idle"
    <3>1. mpc' = "poll"
      BY <1>11, <2>3 DEF Poll, LoopOn
    <3>2. QED
      BY <1>0, <1>11, <2>1, <3>1 DEF Poll, queueVars, flagVars, workVars, CallNow
  <2>4. QED
    BY <2>2, <2>3
<1>12. CASE JoinLock \/ JoinStop \/ JoinUnlock \/ JoinNotify
  <2>1. op = "join"
    BY <1>12 DEF JoinLock, JoinStop, JoinUnlock, JoinNotify, FlagInv, Joining, Stopped
  <2>2. QED
    BY <1>0, <1>12, <2>1 DEF JoinLock, JoinStop, JoinUnlock, JoinNotify, LoopOn,
       queueVars, flagVars, workVars, CallNow
<1>13. CASE JoinThread
  <2>1. op = "join" /\ mpc = "join_thread" /\ ~m_joined
    BY <1>13 DEF JoinThread, FlagInv, Joining, Stopped
  <2>2. CASE target = Last
    <3>1. ASSUME NEW t \in Worker PROVE finished[t] = accepted[t]
      <4>1. t < target \/ t = target
        BY <2>2, Types, WorkerFacts
      <4>2. wpc[t] = "exited"
        BY <1>13, <2>1, <4>1 DEF JoinThread, JoinInv
      <4>3. Len(m_queue[t]) = 0 /\ Taken(t) = finished[t]
        BY <4>2, QueueTypes, Types DEF SleepInv, Taken
      <4>4. QED
        BY <4>3, Types DEF QueueInv
    <3>2. m_joined' /\ UNCHANGED <<finished, accepted>>
      BY <1>13, <2>2 DEF JoinThread, queueVars, workVars
    <3>3. Pool!EndJoin
      BY <1>13, <2>1, <2>2, <3>1, <3>2
      DEF JoinThread, LoopOn, Pool!EndJoin, queueVars, workVars, CallNow
    <3>4. QED
      BY <3>3 DEF Pool!Next
  <2>3. CASE target # Last
    BY <1>0, <1>13, <2>1, <2>3 DEF JoinThread, LoopOn, queueVars, workVars, CallNow
  <2>4. QED
    BY <2>2, <2>3
<1>14. QED
  BY <1>1, <1>2, <1>3, <1>4, <1>5, <1>6, <1>7, <1>8, <1>9, <1>10, <1>11, <1>12, <1>13
  DEF Next, WorkerStep, MainStep, Done, Pool!Next

-----------------------------------------------------------------------------
(***************************************************************************)
(* The theorems.                                                            *)
(***************************************************************************)
\* The invariant holds in every reachable state.
THEOREM Invariance == Spec => []IInv
<1>1. IInv /\ [Next]_vars => IInv'
  BY TypeStep, LockStep, FlagStep, CountStep, QueueStep, SleepStep, JoinStep,
     SyncStep, WakeupStep DEF IInv
<1>2. QED
  BY InitInv, <1>1, PTL DEF Spec

\* Queues, owners and counters stay in range (thread_wrapper and main's loops).
THEOREM TypeCorrect == Spec => []TypeOK
<1>1. IInv => TypeOK
  BY DEF IInv
<1>2. QED
  BY Invariance, <1>1, PTL

\* A worker that waits with something to do is about to be notified: join takes
\* all mutexes before it clears m_running, schedule_impl one to push.
THEOREM WakeupsAreKept == Spec => []NoLostWakeup
<1>1. IInv => NoLostWakeup
  BY DEF IInv
<1>2. QED
  BY Invariance, <1>1, PTL

\* When join has returned every accepted job has been finished.
THEOREM JoinIsComplete == Spec => []JoinDrains
<1>1. IInv => JoinDrains
  BY JoinedIsEmpty
<1>2. QED
  BY Invariance, <1>1, PTL

\* When sync returns every job accepted before it was called has been finished.
THEOREM SyncIsComplete == Spec => SyncCompletes
<1>1. ASSUME IInv, [Next]_vars, mpc = "poll", mpc' = "idle", NEW t \in Worker
      PROVE  finished[t] >= promised[t]
  <2>1. promised[t] <= finished[t]
    BY <1>1, OnlyPoll, PolledIsDone
  <2>2. QED
    BY <1>1, <2>1, Types DEF IInv
<1>2. IInv /\ [Next]_vars => [mpc = "poll" /\ mpc' = "idle" =>
                                \A t \in Worker : finished[t] >= promised[t]]_vars
  BY <1>1
<1>3. QED
  BY Invariance, <1>2, PTL DEF Spec, SyncCompletes

\* A worker runs its jobs one by one, in the order they were scheduled.
THEOREM JobsInOrder == Spec => RunInOrder
<1>1. ASSUME IInv, [Next]_vars, NEW t \in Worker, running'[t] \notin {0, running[t]}
      PROVE  running[t] = 0 /\ running'[t] = finished[t] + 1
  <2>1. running' # running
    BY <1>1
  <2>2. PICK w \in Worker : Pop(w) \/ Run(w)
    BY <1>1, <2>1 DEF Next, vars, Done, WorkerStep, Acquire, GoToSleep, Block, Exit,
       SpuriousWakeup, workVars, CallSchedule, CallSync, CallJoin, Begin, MainStep,
       SchedLock, SchedPush, SchedNotify, Poll, JoinLock, JoinStop, JoinUnlock,
       JoinNotify, JoinThread
  <2>3. Pop(t)
    BY <1>1, <2>2 DEF Pop, Run, IInv, TypeOK
  <2>4. QED
    BY <1>1, <2>3, TakesTheNext DEF IInv, TypeOK
<1>2. IInv /\ [Next]_vars =>
        [\A t \in Worker : running'[t] \notin {0, running[t]} =>
                             running[t] = 0 /\ running'[t] = finished[t] + 1]_vars
  BY <1>1
<1>3. QED
  BY Invariance, <1>2, PTL DEF Spec, RunInOrder

\* The thread pool of the code is the one that WorkPool promises.
THEOREM Refinement == Spec => ImplementsPool
<1>1. IInv /\ [Next]_vars => [Pool!Next]_(Pool!vars)
  BY PoolStep
<1>2. QED
  BY PoolInit, Invariance, <1>1, PTL DEF Spec, ImplementsPool, Pool!Spec
=============================================================================
