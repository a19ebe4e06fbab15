----------------------------- MODULE Rendezvous -----------------------------
(***************************************************************************)
(* What a reusable barrier promises, whatever it is made of: a thread       *)
(* leaves its k-th call only when every thread has entered its k-th call.   *)
(* ghexbench::thread_pool::barrier (module Barrier) implements it.          *)
(***************************************************************************)
EXTENDS Naturals

CONSTANT Thread

VARIABLES entered,  \* entered[t]: calls of the barrier that t has begun
          left      \* left[t]: calls of the barrier that t has returned from

rvars == <<entered, left>>

Init == /\ entered = [t \in Thread |-> 0]
        /\ left = [t \in Thread |-> 0]

Enter(t) == /\ entered[t] = left[t]
            /\ entered' = [entered EXCEPT ![t] = @ + 1]
            /\ UNCHANGED left

Leave(t) == /\ left[t] < entered[t]
            /\ \A u \in Thread : entered[u] >= entered[t]
            /\ left' = [left EXCEPT ![t] = @ + 1]
            /\ UNCHANGED entered

Next == \E t \in Thread : Enter(t) \/ Leave(t)

Spec == Init /\ [][Next]_rvars
=============================================================================
