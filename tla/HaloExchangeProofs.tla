------------------------- MODULE HaloExchangeProofs -------------------------
(***************************************************************************)
(* Proofs about HaloExchange for every set of decompositions and every number  *)
(* of steps: the three barriers of main_step keep measured steps apart, a      *)
(* receive gets the message it is for, halos are complete after every step,     *)
(* and nothing is left over.                                                *)
(***************************************************************************)
EXTENDS HaloExchange, GridProofs, SequenceTheorems

\* All decompositions are grids, with at least one field.
LEMMA Grids == \A E \in Setups : IsGrid(E) /\ E.fields \in Nat \ {0}
BY SetupsAssumption DEF IsGrid

Places == {"start", "wait", "b1", "b1in", "mpi", "mpiin", "b2", "b2in", "done"}
InBarriers == {"b1", "b1in", "mpi", "mpiin", "b2", "b2in"}

\* p is past the barriers of a measured step.
Measuring(p) == at[p] \in {"start", "wait"} /\ pos[p].step > FreeSteps

\* The measured steps that p has ended.
Rounds(p) == IF pos[p].step > FreeSteps THEN pos[p].step - FreeSteps - 1 ELSE 0

(***************************************************************************)
(* Where a thread is, and how often it has been at the barriers by then.       *)
(***************************************************************************)
PlaceInv ==
    /\ D \in Setups
    /\ pos \in [Proc -> [step : 1..(LastStep + 1), field : Field, dim : Dim]]
    /\ at \in [Proc -> Places]
    /\ entered \in [Proc -> Nat]
    /\ mpi \in [Rank(D) -> Nat]
    /\ \A p \in Proc :
         /\ at[p] = "done" <=> pos[p].step = LastStep + 1
         /\ at[p] \in InBarriers => pos[p].step > FreeSteps
         /\ at[p] \in {"mpi", "mpiin"} => p[2] = 0

CountInv ==
    /\ \A p \in Proc :
         entered[p] = 2 * Rounds(p)
                        + (IF at[p] \in {"b1in", "mpi", "mpiin", "b2"} THEN 1
                           ELSE IF at[p] = "b2in" \/ Measuring(p) THEN 2 ELSE 0)
    /\ \A r \in Rank(D) :
         mpi[r] = Rounds(<<r, 0>>)
                    + (IF at[<<r, 0>>] \in {"mpiin", "b2", "b2in"} \/ Measuring(<<r, 0>>)
                       THEN 1 ELSE 0)

(***************************************************************************)
(* What it means to be past a barrier: past the first b() that all threads of  *)
(* the rank have come to it, past MPI_Barrier that thread 0 of every rank has, *)
(* and past the second b() that all threads of the rank have come to that.     *)
(***************************************************************************)
SyncInv ==
    /\ \A r \in Rank(D), t \in Tid(D) :
         /\ entered[<<r, t>>] >= 2 * mpi[r] - 1
         /\ at[<<r, 0>>] = "mpi" => entered[<<r, t>>] >= 2 * mpi[r] + 1
    /\ \A r, s \in Rank(D) :
         /\ 2 * mpi[s] >= entered[<<r, 0>>] - 1
         /\ at[<<r, 0>>] = "b2" => mpi[s] >= mpi[r]
    /\ \A r \in Rank(D), t, u \in Tid(D) :
         Measuring(<<r, t>>) => entered[<<r, u>>] >= entered[<<r, t>>]

(***************************************************************************)
(* The inductive invariant.                                                 *)
(***************************************************************************)
IInv == PlaceInv /\ CountInv /\ SyncInv

-----------------------------------------------------------------------------
\* The steps are numbers.
LEMMA StepBounds == FreeSteps \in Nat \ {0} /\ LastStep \in Nat /\ LastStep >= FreeSteps
BY StepsAssumption DEF LastStep

\* A thread is a pair of rank and number, and every rank has a thread 0.
LEMMA Threads ==
  ASSUME D \in Setups
  PROVE  /\ 0 \in Tid(D)
         /\ \A r \in Rank(D), t \in Tid(D) :
              <<r, t>> \in Proc /\ <<r, t>>[1] = r /\ <<r, t>>[2] = t
         /\ \A p \in Proc :
              p[1] \in Rank(D) /\ p[2] \in Tid(D) /\ p = <<p[1], p[2]>>
BY Grids, FirstThread DEF Proc, ProcOf

\* Everybody is in the first step, before any barrier.
LEMMA InitInv == Init => IInv
<1> SUFFICES ASSUME Init PROVE IInv
  OBVIOUS
<1> USE DEF Init
<1>1. D \in Setups /\ D.fields \in Nat \ {0}
  BY Grids
<1>2. Before(1) = "start" /\ LastStep + 1 > 1 /\ FreeSteps >= 1
  BY StepBounds DEF Before
<1>3. \A p \in Proc : pos[p] = [step |-> 1, field |-> 0, dim |-> 1]
                      /\ at[p] = "start" /\ entered[p] = 0
  BY <1>2
<1>4. PlaceInv
  <2>1. [step |-> 1, field |-> 0, dim |-> 1]
          \in [step : 1..(LastStep + 1), field : Field, dim : Dim]
    BY <1>1, <1>2, StepBounds DEF Field, Dim
  <2>2. pos \in [Proc -> [step : 1..(LastStep + 1), field : Field, dim : Dim]]
    BY <2>1
  <2>3. at \in [Proc -> Places]
    BY <1>2 DEF Places
  <2>4. entered \in [Proc -> Nat] /\ mpi \in [Rank(D) -> Nat]
    OBVIOUS
  <2>5. \A p \in Proc :
          /\ at[p] = "done" <=> pos[p].step = LastStep + 1
          /\ at[p] \in InBarriers => pos[p].step > FreeSteps
          /\ at[p] \in {"mpi", "mpiin"} => p[2] = 0
    BY <1>2, <1>3, StepBounds DEF InBarriers
  <2>6. QED
    BY <1>1, <2>2, <2>3, <2>4, <2>5 DEF PlaceInv
<1>5. \A p \in Proc : ~Measuring(p) /\ Rounds(p) = 0
  BY <1>2, <1>3, StepBounds DEF Measuring, Rounds
<1>6. \A r \in Rank(D) : mpi[r] = 0
  OBVIOUS
<1>7. CountInv
  BY <1>1, <1>3, <1>5, <1>6, Threads DEF CountInv
<1>8. SyncInv
  BY <1>1, <1>3, <1>5, <1>6, Threads DEF SyncInv
<1>9. QED
  BY <1>4, <1>7, <1>8 DEF IInv

-----------------------------------------------------------------------------
(***************************************************************************)
(* A step of p: it goes to place a of step n, having been e times at the       *)
(* barrier, and nobody else moves.                                          *)
(***************************************************************************)
Moves(p, a, n, e) ==
    /\ D' = D
    /\ at'[p] = a /\ pos'[p].step = n /\ entered'[p] = e
    /\ \A q \in Proc : q # p => /\ at'[q] = at[q] /\ pos'[q] = pos[q]
                                /\ entered'[q] = entered[q]

\* The sets of ranks and threads stay what they are.
LEMMA SameThreads ==
  ASSUME D' = D
  PROVE  Proc' = Proc /\ Rank(D)' = Rank(D) /\ Tid(D)' = Tid(D) /\ Field' = Field
BY DEF Proc, Field

\* What is the same for every thread that does not move.
LEMMA Others ==
  ASSUME NEW p \in Proc, NEW a, NEW n, NEW e, Moves(p, a, n, e),
         NEW q \in Proc, q # p
  PROVE  /\ Measuring(q)' = Measuring(q) /\ Rounds(q)' = Rounds(q)
         /\ at'[q] = at[q] /\ entered'[q] = entered[q]
BY DEF Moves, Measuring, Rounds

\* Counting goes on as long as the thread that moves counts well.
LEMMA CountMove ==
  ASSUME PlaceInv, CountInv, NEW p \in Proc, NEW a, NEW n, NEW e, Moves(p, a, n, e),
         e = 2 * Rounds(p)' + (IF a \in {"b1in", "mpi", "mpiin", "b2"} THEN 1
                               ELSE IF a = "b2in" \/ Measuring(p)' THEN 2 ELSE 0),
         \A r \in Rank(D) :
           IF p = <<r, 0>>
           THEN mpi'[r] = Rounds(p)' + (IF a \in {"mpiin", "b2", "b2in"} \/ Measuring(p)'
                                        THEN 1 ELSE 0)
           ELSE mpi'[r] = mpi[r]
  PROVE  CountInv'
<1>1. D \in Setups /\ D' = D /\ at'[p] = a /\ entered'[p] = e
  BY DEF PlaceInv, Moves
<1>2. \A q \in Proc : q # p => /\ Measuring(q)' = Measuring(q) /\ Rounds(q)' = Rounds(q)
                               /\ at'[q] = at[q] /\ entered'[q] = entered[q]
  BY Others
<1>3. ASSUME NEW q \in Proc
      PROVE  entered'[q] = 2 * Rounds(q)'
                + (IF at'[q] \in {"b1in", "mpi", "mpiin", "b2"} THEN 1
                   ELSE IF at'[q] = "b2in" \/ Measuring(q)' THEN 2 ELSE 0)
  <2>1. CASE q = p
    BY <1>1, <2>1
  <2>2. CASE q # p
    BY <1>2, <2>2 DEF CountInv
  <2>3. QED
    BY <2>1, <2>2
<1>4. ASSUME NEW r \in Rank(D)
      PROVE  mpi'[r] = Rounds(<<r, 0>>)'
                + (IF at'[<<r, 0>>] \in {"mpiin", "b2", "b2in"} \/ Measuring(<<r, 0>>)'
                   THEN 1 ELSE 0)
  <2>1. CASE p = <<r, 0>>
    BY <1>1, <2>1
  <2>2. CASE p # <<r, 0>>
    <3>1. <<r, 0>> \in Proc
      BY <1>1, Threads
    <3>2. QED
      BY <1>2, <2>2, <3>1 DEF CountInv
  <2>3. QED
    BY <2>1, <2>2
<1>5. QED
  BY <1>1, <1>3, <1>4, SameThreads DEF CountInv

\* Being past a barrier means what it did, as long as it does for the thread
\* that moves, and MPI_Barrier is only entered by thread 0 of a rank.
LEMMA SyncMove ==
  ASSUME PlaceInv, SyncInv, NEW p \in Proc, NEW a, NEW n, NEW e \in Nat,
         Moves(p, a, n, e), e >= entered[p], mpi' \in [Rank(D) -> Nat],
         \A r \in Rank(D) :
           \/ mpi'[r] = mpi[r]
           \/ /\ p = <<r, 0>> /\ a = "mpiin" /\ mpi'[r] >= mpi[r]
              /\ \A t \in Tid(D) : entered[<<r, t>>] >= 2 * mpi'[r] - 1,
         \A r \in Rank(D) : p = <<r, 0>> =>
           /\ a = "mpi" => \A t \in Tid(D) : entered[<<r, t>>] >= 2 * mpi[r] + 1
           /\ a = "b2" => \A s \in Rank(D) : mpi[s] >= mpi[r]
           /\ \A s \in Rank(D) : 2 * mpi[s] >= e - 1,
         Measuring(p)' => \A u \in Tid(D) : entered[<<p[1], u>>] >= e
  PROVE  SyncInv'
<1>1. /\ D \in Setups /\ D' = D /\ at'[p] = a /\ entered'[p] = e
      /\ entered \in [Proc -> Nat] /\ mpi \in [Rank(D) -> Nat]
  BY DEF PlaceInv, Moves
<1>2. \A q \in Proc : q # p => /\ Measuring(q)' = Measuring(q)
                               /\ at'[q] = at[q] /\ entered'[q] = entered[q]
  BY Others
<1>3. \A q \in Proc : entered[q] \in Nat /\ entered'[q] \in Nat /\ entered'[q] >= entered[q]
  BY <1>1, <1>2
<1>4. \A r \in Rank(D) : mpi[r] \in Nat /\ mpi'[r] \in Nat /\ mpi'[r] >= mpi[r]
  BY <1>1
<1>5. /\ 0 \in Tid(D)
      /\ \A r \in Rank(D), t \in Tid(D) :
           <<r, t>> \in Proc /\ <<r, t>>[1] = r /\ <<r, t>>[2] = t
  BY <1>1, Threads
<1>6. ASSUME NEW r \in Rank(D), NEW t \in Tid(D)
      PROVE  /\ entered'[<<r, t>>] >= 2 * mpi'[r] - 1
             /\ at'[<<r, 0>>] = "mpi" => entered'[<<r, t>>] >= 2 * mpi'[r] + 1
  <2>1. entered[<<r, t>>] >= 2 * mpi'[r] - 1
    BY <1>4 DEF SyncInv
  <2>2. entered'[<<r, t>>] >= 2 * mpi'[r] - 1
    BY <2>1, <1>3, <1>4, <1>5
  <2>3. ASSUME at'[<<r, 0>>] = "mpi"
        PROVE  entered[<<r, t>>] >= 2 * mpi[r] + 1
    <3>1. CASE p = <<r, 0>>
      BY <1>1, <2>3, <3>1
    <3>2. CASE p # <<r, 0>>
      BY <1>2, <1>5, <2>3, <3>2 DEF SyncInv
    <3>3. QED
      BY <3>1, <3>2
  <2>4. at'[<<r, 0>>] = "mpi" => mpi'[r] = mpi[r]
    BY <1>1
  <2>5. QED
    BY <2>2, <2>3, <2>4, <1>3, <1>4, <1>5
<1>7. ASSUME NEW r \in Rank(D), NEW s \in Rank(D)
      PROVE  /\ 2 * mpi'[s] >= entered'[<<r, 0>>] - 1
             /\ at'[<<r, 0>>] = "b2" => mpi'[s] >= mpi'[r]
  <2>1. 2 * mpi[s] >= entered'[<<r, 0>>] - 1
    <3>1. CASE p = <<r, 0>>
      BY <1>1, <3>1
    <3>2. CASE p # <<r, 0>>
      BY <1>2, <1>5, <3>2 DEF SyncInv
    <3>3. QED
      BY <3>1, <3>2
  <2>2. 2 * mpi'[s] >= entered'[<<r, 0>>] - 1
    BY <2>1, <1>3, <1>4, <1>5
  <2>3. ASSUME at'[<<r, 0>>] = "b2"
        PROVE  mpi[s] >= mpi[r]
    <3>1. CASE p = <<r, 0>>
      BY <1>1, <2>3, <3>1
    <3>2. CASE p # <<r, 0>>
      BY <1>2, <1>5, <2>3, <3>2 DEF SyncInv
    <3>3. QED
      BY <3>1, <3>2
  <2>4. at'[<<r, 0>>] = "b2" => mpi'[r] = mpi[r]
    BY <1>1
  <2>5. QED
    BY <2>2, <2>3, <2>4, <1>4
<1>8. ASSUME NEW r \in Rank(D), NEW t \in Tid(D), NEW u \in Tid(D), Measuring(<<r, t>>)'
      PROVE  entered'[<<r, u>>] >= entered'[<<r, t>>]
  <2>1. CASE p = <<r, t>>
    BY <1>1, <1>3, <1>5, <1>8, <2>1
  <2>2. CASE p # <<r, t>>
    <3>1. entered[<<r, u>>] >= entered[<<r, t>>]
      BY <1>2, <1>5, <1>8, <2>2 DEF SyncInv
    <3>2. QED
      BY <1>2, <1>3, <1>5, <2>2, <3>1
  <2>3. QED
    BY <2>1, <2>2
<1>9. QED
  BY <1>1, <1>6, <1>7, <1>8, SameThreads DEF SyncInv

\* The place of every thread is a place, as long as that of the one that moves is.
LEMMA PlaceMove ==
  ASSUME PlaceInv, NEW p \in Proc, NEW a \in Places, NEW e \in Nat,
         NEW x \in [step : 1..(LastStep + 1), field : Field, dim : Dim],
         D' = D, at' = [at EXCEPT ![p] = a], pos' = [pos EXCEPT ![p] = x],
         entered' = [entered EXCEPT ![p] = e], mpi' \in [Rank(D) -> Nat],
         a = "done" <=> x.step = LastStep + 1,
         a \in InBarriers => x.step > FreeSteps,
         a \in {"mpi", "mpiin"} => p[2] = 0
  PROVE  PlaceInv' /\ Moves(p, a, x.step, e)
<1>1. Moves(p, a, x.step, e)
  BY DEF PlaceInv, Moves
<1>2. Proc' = Proc /\ Rank(D)' = Rank(D) /\ Field' = Field
  BY SameThreads
<1>3. /\ D' \in Setups
      /\ pos' \in [Proc -> [step : 1..(LastStep + 1), field : Field, dim : Dim]]
      /\ at' \in [Proc -> Places] /\ entered' \in [Proc -> Nat]
  BY DEF PlaceInv
<1>4. ASSUME NEW q \in Proc
      PROVE  /\ at'[q] = "done" <=> pos'[q].step = LastStep + 1
             /\ at'[q] \in InBarriers => pos'[q].step > FreeSteps
             /\ at'[q] \in {"mpi", "mpiin"} => q[2] = 0
  BY DEF PlaceInv
<1>5. QED
  BY <1>1, <1>2, <1>3, <1>4 DEF PlaceInv

\* What the invariant says of one thread.
LEMMA PlaceOf ==
  ASSUME PlaceInv, NEW p \in Proc
  PROVE  /\ pos[p] \in [step : 1..(LastStep + 1), field : Field, dim : Dim]
         /\ pos[p].step \in Nat /\ at[p] \in Places /\ entered[p] \in Nat
         /\ Rounds(p) \in Nat /\ pos[p].step >= 1
         /\ \A r \in Rank(D) : mpi[r] \in Nat
         /\ at = [at EXCEPT ![p] = at[p]] /\ pos = [pos EXCEPT ![p] = pos[p]]
         /\ entered = [entered EXCEPT ![p] = entered[p]]
<1>1. /\ pos \in [Proc -> [step : 1..(LastStep + 1), field : Field, dim : Dim]]
      /\ at \in [Proc -> Places] /\ entered \in [Proc -> Nat] /\ mpi \in [Rank(D) -> Nat]
  BY DEF PlaceInv
<1>2. pos[p] \in [step : 1..(LastStep + 1), field : Field, dim : Dim]
  BY <1>1
<1>3. pos[p].step \in 1..(LastStep + 1)
  BY <1>2
<1>4. pos[p].step \in Nat /\ pos[p].step >= 1 /\ Rounds(p) \in Nat
  BY <1>3, StepBounds DEF Rounds
<1>5. QED
  BY <1>1, <1>2, <1>4

-----------------------------------------------------------------------------
LEMMA StartInv ==
  ASSUME IInv, NEW p \in Proc, Start(p)
  PROVE  IInv'
<1> DEFINE x == pos[p]
           e == entered[p]
<1>1. PlaceInv /\ CountInv /\ SyncInv
  BY DEF IInv
<1>2. PlaceInv' /\ Moves(p, "wait", x.step, e)
  <2>1. /\ D' = D /\ mpi' = mpi /\ at' = [at EXCEPT ![p] = "wait"]
        /\ pos' = [pos EXCEPT ![p] = x] /\ entered' = [entered EXCEPT ![p] = e]
    BY <1>1, PlaceOf DEF Start
  <2>2. x.step # LastStep + 1 /\ mpi' \in [Rank(D) -> Nat]
    BY <1>1, <2>1 DEF Start, PlaceInv
  <2>3. QED
    BY <1>1, <2>1, <2>2, PlaceOf, PlaceMove DEF Places, InBarriers
<1>3. at[p] = "start" /\ at'[p] = "wait" /\ pos'[p] = pos[p] /\ mpi' = mpi
  BY <1>1, PlaceOf DEF Start, PlaceInv
<1>4. Rounds(p)' = Rounds(p) /\ Measuring(p)' = Measuring(p)
  BY <1>3 DEF Rounds, Measuring
<1>5. /\ e = 2 * Rounds(p) + (IF Measuring(p) THEN 2 ELSE 0)
      /\ \A r \in Rank(D) : p = <<r, 0>> =>
           mpi[r] = Rounds(p) + (IF Measuring(p) THEN 1 ELSE 0)
  BY <1>1, <1>3 DEF CountInv
<1>6. CountInv'
  BY <1>1, <1>2, <1>3, <1>4, <1>5, CountMove
<1>7. /\ \A s \in Rank(D), r \in Rank(D) : p = <<r, 0>> => 2 * mpi[s] >= e - 1
      /\ Measuring(p)' => \A u \in Tid(D) : entered[<<p[1], u>>] >= e
  BY <1>1, <1>4, Threads DEF SyncInv, PlaceInv
<1>8. SyncInv'
  <2>1. mpi' \in [Rank(D) -> Nat] /\ e \in Nat /\ e >= entered[p]
    BY <1>1, <1>3, PlaceOf DEF PlaceInv
  <2>2. QED
    BY <1>1, <1>2, <1>3, <1>7, <2>1, SyncMove
<1>9. QED
  BY <1>2, <1>6, <1>8 DEF IInv

\* A thread goes on in its step, or to the next.
LEMMA AdvanceStep ==
  ASSUME PlaceInv, NEW x \in [step : 1..(LastStep + 1), field : Field, dim : Dim],
         x.step # LastStep + 1
  PROVE  /\ Advance(x) \in [step : 1..(LastStep + 1), field : Field, dim : Dim]
         /\ Advance(x).step \in {x.step, x.step + 1}
<1>1. D.fields \in Nat \ {0}
  BY Grids DEF PlaceInv
<1>2. /\ x.step \in 1..(LastStep + 1) /\ x.field \in Field /\ x.dim \in Dim
      /\ x = [step |-> x.step, field |-> x.field, dim |-> x.dim]
  OBVIOUS
<1>3. CASE x.dim < 3
  <2>1. Advance(x) = [x EXCEPT !.dim = @ + 1]
    BY <1>3 DEF Advance
  <2>2. x.dim + 1 \in Dim
    BY <1>2, <1>3 DEF Dim
  <2>3. QED
    BY <2>1, <2>2
<1>4. CASE ~(x.dim < 3) /\ x.field < D.fields - 1
  <2>1. Advance(x) = [x EXCEPT !.dim = 1, !.field = @ + 1]
    BY <1>4 DEF Advance
  <2>2. x.field + 1 \in Field /\ 1 \in Dim
    BY <1>1, <1>2, <1>4 DEF Field, Dim
  <2>3. QED
    BY <2>1, <2>2
<1>5. CASE ~(x.dim < 3) /\ ~(x.field < D.fields - 1)
  <2>1. Advance(x) = [step |-> x.step + 1, field |-> 0, dim |-> 1]
    BY <1>5 DEF Advance
  <2>2. x.step + 1 \in 1..(LastStep + 1) /\ 0 \in Field /\ 1 \in Dim
    BY <1>1, <1>2, StepBounds DEF Field, Dim
  <2>3. QED
    BY <2>1, <2>2
<1>6. QED
  BY <1>3, <1>4, <1>5

LEMMA FinishInv ==
  ASSUME IInv, NEW p \in Proc, Finish(p)
  PROVE  IInv'
<1> DEFINE x == pos[p]
           y == Advance(x)
           a == IF y.step = x.step THEN "start" ELSE Before(y.step)
           e == entered[p]
<1>1. PlaceInv /\ CountInv /\ SyncInv
  BY DEF IInv
<1>2. /\ x \in [step : 1..(LastStep + 1), field : Field, dim : Dim]
      /\ x.step \in Nat /\ x.step >= 1 /\ e \in Nat
  BY <1>1, PlaceOf
<1>3. /\ at[p] = "wait" /\ D' = D /\ mpi' = mpi /\ x.step # LastStep + 1
      /\ pos' = [pos EXCEPT ![p] = y] /\ pos'[p] = y
  BY <1>1 DEF Finish, PlaceInv
<1>4. /\ at' = [at EXCEPT ![p] = a]
      /\ entered' = [entered EXCEPT ![p] = e] /\ mpi' \in [Rank(D) -> Nat]
  BY <1>1, <1>3, PlaceOf DEF Finish, PlaceInv
<1>5. /\ y \in [step : 1..(LastStep + 1), field : Field, dim : Dim]
      /\ y.step \in {x.step, x.step + 1}
  BY <1>1, <1>2, <1>3, AdvanceStep
<1> HIDE DEF y
<1>6. x.step \in 1..LastStep /\ y.step \in 1..(LastStep + 1)
  BY <1>2, <1>3, <1>5, StepBounds
<1>7. /\ y.step = x.step => a = "start"
      /\ y.step = x.step + 1 =>
           a = IF y.step > LastStep THEN "done"
               ELSE IF y.step > FreeSteps THEN "b1" ELSE "start"
  BY <1>6 DEF Before
<1> HIDE DEF a
<1>8. PlaceInv' /\ Moves(p, a, y.step, e)
  <2>1. a \in Places /\ (a = "done" <=> y.step = LastStep + 1)
    BY <1>5, <1>6, <1>7, StepBounds DEF Places
  <2>2. (a \in InBarriers => y.step > FreeSteps) /\ a \notin {"mpi", "mpiin"}
    BY <1>5, <1>6, <1>7, StepBounds DEF InBarriers
  <2>3. QED
    BY <1>1, <1>2, <1>3, <1>4, <1>5, <2>1, <2>2, PlaceMove
<1>9. /\ e = 2 * Rounds(p) + (IF Measuring(p) THEN 2 ELSE 0)
      /\ \A r \in Rank(D) : p = <<r, 0>> =>
           mpi[r] = Rounds(p) + (IF Measuring(p) THEN 1 ELSE 0)
  BY <1>1, <1>3 DEF CountInv
<1>10. /\ Measuring(p) <=> x.step > FreeSteps
       /\ Rounds(p) = IF x.step > FreeSteps THEN x.step - FreeSteps - 1 ELSE 0
       /\ Measuring(p)' <=> (a \in {"start", "wait"} /\ y.step > FreeSteps)
       /\ Rounds(p)' = IF y.step > FreeSteps THEN y.step - FreeSteps - 1 ELSE 0
  BY <1>3, <1>8 DEF Measuring, Rounds, Moves
<1>11. /\ a \notin InBarriers \ {"b1"}
       /\ Rounds(p)' + (IF Measuring(p)' THEN 1 ELSE 0)
            = Rounds(p) + (IF Measuring(p) THEN 1 ELSE 0)
       /\ Measuring(p)' => Measuring(p)
  <2>1. CASE y.step = x.step
    BY <1>7, <1>10, <2>1 DEF InBarriers
  <2>2. CASE y.step = x.step + 1
    <3>1. CASE x.step > FreeSteps
      BY <1>6, <1>7, <1>10, <2>2, <3>1, StepBounds DEF InBarriers
    <3>2. CASE ~(x.step > FreeSteps)
      BY <1>6, <1>7, <1>10, <2>2, <3>2, StepBounds DEF InBarriers
    <3>3. QED
      BY <3>1, <3>2
  <2>3. QED
    BY <1>5, <2>1, <2>2
<1>12. Rounds(p) \in Nat /\ Rounds(p)' \in Nat
  BY <1>6, <1>10, StepBounds
<1>13. CountInv'
  <2>1. e = 2 * Rounds(p)' + (IF a \in {"b1in", "mpi", "mpiin", "b2"} THEN 1
                              ELSE IF a = "b2in" \/ Measuring(p)' THEN 2 ELSE 0)
    BY <1>9, <1>11, <1>12 DEF InBarriers
  <2>2. \A r \in Rank(D) :
          IF p = <<r, 0>>
          THEN mpi'[r] = Rounds(p)' + (IF a \in {"mpiin", "b2", "b2in"} \/ Measuring(p)'
                                       THEN 1 ELSE 0)
          ELSE mpi'[r] = mpi[r]
    BY <1>3, <1>9, <1>11, <1>12 DEF InBarriers
  <2>3. QED
    BY <1>1, <1>8, <2>1, <2>2, CountMove
<1>14. /\ \A s \in Rank(D), r \in Rank(D) : p = <<r, 0>> => 2 * mpi[s] >= e - 1
       /\ Measuring(p)' => \A u \in Tid(D) : entered[<<p[1], u>>] >= e
  BY <1>1, <1>11, Threads DEF SyncInv, PlaceInv
<1>15. SyncInv'
  <2>1. a # "mpi" /\ a # "b2" /\ e >= entered[p]
    BY <1>2, <1>11 DEF InBarriers
  <2>2. QED
    BY <1>1, <1>2, <1>3, <1>4, <1>8, <1>14, <2>1, SyncMove
<1>16. QED
  BY <1>8, <1>13, <1>15 DEF IInv

-----------------------------------------------------------------------------
\* A step within the barriers, or out of them.
LEMMA AtBarrier ==
  ASSUME PlaceInv, CountInv, NEW p \in Proc, at[p] \in InBarriers,
         NEW a \in Places \ {"wait", "done"}, NEW e \in Nat,
         D' = D, pos' = pos, at' = [at EXCEPT ![p] = a],
         entered' = [entered EXCEPT ![p] = e], mpi' \in [Rank(D) -> Nat],
         a \in {"mpi", "mpiin"} => p[2] = 0
  PROVE  /\ PlaceInv' /\ Moves(p, a, pos[p].step, e)
         /\ Rounds(p)' = Rounds(p) /\ (Measuring(p)' <=> a = "start")
         /\ entered[p] = 2 * Rounds(p)
              + (IF at[p] \in {"b1in", "mpi", "mpiin", "b2"} THEN 1
                 ELSE IF at[p] = "b2in" THEN 2 ELSE 0)
         /\ \A r \in Rank(D) : p = <<r, 0>> =>
              mpi[r] = Rounds(p) + (IF at[p] \in {"mpiin", "b2", "b2in"} THEN 1 ELSE 0)
<1>1. pos[p].step > FreeSteps /\ pos[p].step # LastStep + 1
  BY DEF PlaceInv, InBarriers
<1>2. /\ pos[p] \in [step : 1..(LastStep + 1), field : Field, dim : Dim]
      /\ pos' = [pos EXCEPT ![p] = pos[p]]
  BY PlaceOf
<1>3. PlaceInv' /\ Moves(p, a, pos[p].step, e)
  BY <1>1, <1>2, PlaceMove
<1>4. ~Measuring(p)
  BY DEF Measuring, InBarriers
<1>5. at'[p] = a
  BY DEF PlaceInv
<1>6. Rounds(p)' = Rounds(p) /\ (Measuring(p)' <=> a = "start")
  BY <1>1, <1>5 DEF Rounds, Measuring
<1>7. QED
  BY <1>3, <1>4, <1>6 DEF CountInv

LEMMA BarrierEnterInv ==
  ASSUME IInv, NEW p \in Proc, BarrierEnter(p)
  PROVE  IInv'
<1> DEFINE a == IF at[p] = "b1" THEN "b1in" ELSE "b2in"
           e == entered[p] + 1
<1>1. PlaceInv /\ CountInv /\ SyncInv
  BY DEF IInv
<1>2. /\ at[p] \in {"b1", "b2"} /\ D' = D /\ pos' = pos /\ mpi' = mpi
      /\ at' = [at EXCEPT ![p] = a] /\ entered' = [entered EXCEPT ![p] = e]
  BY <1>1 DEF BarrierEnter, PlaceInv
<1>3. /\ Rounds(p) \in Nat /\ entered[p] \in Nat /\ e \in Nat
      /\ \A r \in Rank(D) : mpi[r] \in Nat
  BY <1>1, PlaceOf
<1>4. mpi' \in [Rank(D) -> Nat]
  BY <1>1, <1>2 DEF PlaceInv
<1>5. /\ PlaceInv' /\ Moves(p, a, pos[p].step, e)
      /\ Rounds(p)' = Rounds(p) /\ ~Measuring(p)'
      /\ entered[p] = 2 * Rounds(p) + (IF at[p] = "b2" THEN 1 ELSE 0)
      /\ \A r \in Rank(D) : p = <<r, 0>> =>
           mpi[r] = Rounds(p) + (IF at[p] = "b2" THEN 1 ELSE 0)
  <2>1. at[p] \in InBarriers /\ a \in Places \ {"wait", "done"} /\ a \notin {"mpi", "mpiin"}
    BY <1>2 DEF InBarriers, Places
  <2>2. QED
    BY <1>1, <1>2, <1>3, <1>4, <2>1, AtBarrier
<1>6. CountInv'
  <2>1. e = 2 * Rounds(p)' + (IF a = "b1in" THEN 1 ELSE 2)
    BY <1>2, <1>3, <1>5
  <2>2. /\ a \in {"b1in", "b2in"} /\ a = "b2in" <=> at[p] = "b2"
        /\ \A r \in Rank(D) : mpi'[r] = mpi[r]
    BY <1>2
  <2>3. QED
    BY <1>1, <1>3, <1>5, <2>1, <2>2, CountMove
<1>7. ASSUME NEW r \in Rank(D), NEW s \in Rank(D), p = <<r, 0>>
      PROVE  2 * mpi[s] >= e - 1
  <2>1. CASE at[p] = "b1"
    BY <1>1, <1>3, <1>5, <1>7, <2>1 DEF SyncInv
  <2>2. CASE at[p] = "b2"
    <3>1. mpi[s] >= mpi[r]
      BY <1>1, <1>7, <2>2 DEF SyncInv
    <3>2. QED
      BY <1>3, <1>5, <1>7, <2>2, <3>1
  <2>3. QED
    BY <1>2, <2>1, <2>2
<1>8. SyncInv'
  BY <1>1, <1>2, <1>3, <1>4, <1>5, <1>7, SyncMove
<1>9. QED
  BY <1>5, <1>6, <1>8 DEF IInv

LEMMA BarrierLeaveInv ==
  ASSUME IInv, NEW p \in Proc, BarrierLeave(p)
  PROVE  IInv'
<1> DEFINE a == IF at[p] = "b2in" THEN "start" ELSE IF p[2] = 0 THEN "mpi" ELSE "b2"
           e == entered[p]
<1>1. PlaceInv /\ CountInv /\ SyncInv
  BY DEF IInv
<1>2. /\ at[p] \in {"b1in", "b2in"} /\ D' = D /\ pos' = pos /\ mpi' = mpi
      /\ at' = [at EXCEPT ![p] = a] /\ entered' = [entered EXCEPT ![p] = e]
      /\ \A t \in Tid(D) : entered[<<p[1], t>>] >= e
  BY <1>1, PlaceOf DEF BarrierLeave, PlaceInv
<1>3. /\ Rounds(p) \in Nat /\ e \in Nat /\ \A r \in Rank(D) : mpi[r] \in Nat
  BY <1>1, PlaceOf
<1>4. mpi' \in [Rank(D) -> Nat]
  BY <1>1, <1>2 DEF PlaceInv
<1>5. /\ PlaceInv' /\ Moves(p, a, pos[p].step, e)
      /\ Rounds(p)' = Rounds(p) /\ (Measuring(p)' <=> a = "start")
      /\ e = 2 * Rounds(p) + (IF at[p] = "b1in" THEN 1 ELSE 2)
      /\ \A r \in Rank(D) : p = <<r, 0>> =>
           mpi[r] = Rounds(p) + (IF at[p] = "b2in" THEN 1 ELSE 0)
  <2>1. at[p] \in InBarriers /\ a \in Places \ {"wait", "done"}
    BY <1>2 DEF InBarriers, Places
  <2>2. QED
    BY <1>1, <1>2, <1>3, <1>4, <2>1, AtBarrier
<1>6. /\ at[p] = "b2in" <=> a = "start"
      /\ at[p] = "b1in" => a \in {"mpi", "b2"}
      /\ \A r \in Rank(D) : p = <<r, 0>> => a # "b2"
  BY <1>2
<1> HIDE DEF a
<1>7. CountInv'
  BY <1>1, <1>2, <1>3, <1>5, <1>6, CountMove
<1>8. ASSUME NEW r \in Rank(D), p = <<r, 0>>
      PROVE  /\ a = "mpi" => \A t \in Tid(D) : entered[<<r, t>>] >= 2 * mpi[r] + 1
             /\ \A s \in Rank(D) : 2 * mpi[s] >= e - 1
  BY <1>1, <1>2, <1>3, <1>5, <1>6, <1>8 DEF SyncInv
<1>9. SyncInv'
  BY <1>1, <1>2, <1>3, <1>4, <1>5, <1>6, <1>8, SyncMove
<1>10. QED
  BY <1>5, <1>7, <1>9 DEF IInv

LEMMA MpiBarrierEnterInv ==
  ASSUME IInv, NEW p \in Proc, MpiBarrierEnter(p)
  PROVE  IInv'
<1> DEFINE a == "mpiin"
           e == entered[p]
<1>1. PlaceInv /\ CountInv /\ SyncInv
  BY DEF IInv
<1>2. p[1] \in Rank(D) /\ p = <<p[1], 0>>
  BY <1>1, Threads DEF MpiBarrierEnter, PlaceInv
<1>3. /\ at[p] = "mpi" /\ D' = D /\ pos' = pos
      /\ at' = [at EXCEPT ![p] = a] /\ entered' = [entered EXCEPT ![p] = e]
      /\ mpi' = [mpi EXCEPT ![p[1]] = mpi[p[1]] + 1]
  BY <1>1, PlaceOf DEF MpiBarrierEnter, PlaceInv
<1>4. /\ Rounds(p) \in Nat /\ e \in Nat /\ mpi \in [Rank(D) -> Nat]
      /\ \A r \in Rank(D) : mpi[r] \in Nat
  BY <1>1, PlaceOf DEF PlaceInv
<1>5. /\ mpi' \in [Rank(D) -> Nat] /\ mpi'[p[1]] = mpi[p[1]] + 1
      /\ \A r \in Rank(D) : r # p[1] => mpi'[r] = mpi[r]
  BY <1>2, <1>3, <1>4
<1>6. /\ PlaceInv' /\ Moves(p, a, pos[p].step, e)
      /\ Rounds(p)' = Rounds(p) /\ ~Measuring(p)'
      /\ e = 2 * Rounds(p) + 1 /\ mpi[p[1]] = Rounds(p)
  <2>1. at[p] \in InBarriers /\ a \in Places \ {"wait", "done"} /\ p[2] = 0
    BY <1>2, <1>3 DEF InBarriers, Places
  <2>2. /\ PlaceInv' /\ Moves(p, a, pos[p].step, e)
        /\ Rounds(p)' = Rounds(p) /\ (Measuring(p)' <=> a = "start")
        /\ entered[p] = 2 * Rounds(p) + 1
        /\ \A r \in Rank(D) : p = <<r, 0>> => mpi[r] = Rounds(p) + 0
    BY <1>1, <1>3, <1>4, <1>5, <2>1, AtBarrier
  <2>3. QED
    BY <1>2, <1>4, <2>2
<1>7. \A r \in Rank(D) : p = <<r, 0>> => r = p[1]
  OBVIOUS
<1>8. CountInv'
  <2>1. \A r \in Rank(D) : IF p = <<r, 0>> THEN mpi'[r] = Rounds(p)' + 1
                                           ELSE mpi'[r] = mpi[r]
    BY <1>2, <1>5, <1>6, <1>7
  <2>2. QED
    BY <1>1, <1>6, <2>1, CountMove
<1>9. \A t \in Tid(D) : entered[<<p[1], t>>] >= 2 * mpi[p[1]] + 1
  BY <1>1, <1>2, <1>3 DEF SyncInv
<1>10. SyncInv'
  <2>1. \A r \in Rank(D) :
          \/ mpi'[r] = mpi[r]
          \/ /\ p = <<r, 0>> /\ a = "mpiin" /\ mpi'[r] >= mpi[r]
             /\ \A t \in Tid(D) : entered[<<r, t>>] >= 2 * mpi'[r] - 1
    <3>1. 2 * mpi'[p[1]] - 1 = 2 * mpi[p[1]] + 1 /\ mpi'[p[1]] >= mpi[p[1]]
      BY <1>2, <1>4, <1>5
    <3>2. QED
      BY <1>2, <1>5, <1>9, <3>1
  <2>2. \A s \in Rank(D) : 2 * mpi[s] >= e - 1
    BY <1>1, <1>2 DEF SyncInv
  <2>3. e >= entered[p]
    BY <1>4
  <2>4. QED
    BY <1>1, <1>4, <1>5, <1>6, <2>1, <2>2, <2>3, SyncMove
<1>11. QED
  BY <1>6, <1>8, <1>10 DEF IInv

LEMMA MpiBarrierLeaveInv ==
  ASSUME IInv, NEW p \in Proc, MpiBarrierLeave(p)
  PROVE  IInv'
<1> DEFINE a == "b2"
           e == entered[p]
<1>1. PlaceInv /\ CountInv /\ SyncInv
  BY DEF IInv
<1>2. p[1] \in Rank(D) /\ p = <<p[1], 0>>
  BY <1>1, Threads DEF MpiBarrierLeave, PlaceInv
<1>3. /\ at[p] = "mpiin" /\ D' = D /\ pos' = pos /\ mpi' = mpi
      /\ at' = [at EXCEPT ![p] = a] /\ entered' = [entered EXCEPT ![p] = e]
      /\ \A s \in Rank(D) : mpi[s] >= mpi[p[1]]
  BY <1>1, PlaceOf DEF MpiBarrierLeave, PlaceInv
<1>4. /\ Rounds(p) \in Nat /\ e \in Nat /\ mpi' \in [Rank(D) -> Nat]
  BY <1>1, <1>3, PlaceOf DEF PlaceInv
<1>5. /\ PlaceInv' /\ Moves(p, a, pos[p].step, e)
      /\ Rounds(p)' = Rounds(p) /\ ~Measuring(p)'
      /\ e = 2 * Rounds(p) + 1 /\ mpi[p[1]] = Rounds(p) + 1
  <2>1. at[p] \in InBarriers /\ a \in Places \ {"wait", "done"}
    BY <1>3 DEF InBarriers, Places
  <2>2. QED
    BY <1>1, <1>2, <1>3, <1>4, <2>1, AtBarrier
<1>6. \A r \in Rank(D) : p = <<r, 0>> => r = p[1]
  OBVIOUS
<1>7. CountInv'
  <2>1. \A r \in Rank(D) : IF p = <<r, 0>> THEN mpi'[r] = Rounds(p)' + 1
                                           ELSE mpi'[r] = mpi[r]
    BY <1>3, <1>5, <1>6
  <2>2. QED
    BY <1>1, <1>5, <2>1, CountMove
<1>8. SyncInv'
  <2>1. \A r \in Rank(D) : p = <<r, 0>> =>
          /\ \A s \in Rank(D) : mpi[s] >= mpi[r]
          /\ \A s \in Rank(D) : 2 * mpi[s] >= e - 1
    BY <1>1, <1>3, <1>6 DEF SyncInv
  <2>2. e >= entered[p]
    BY <1>4
  <2>3. QED
    BY <1>1, <1>3, <1>4, <1>5, <2>1, <2>2, SyncMove
<1>9. QED
  BY <1>5, <1>7, <1>8 DEF IInv

-----------------------------------------------------------------------------
\* Every step keeps the invariant; messages move without any thread.
LEMMA NextInv == IInv /\ [Next]_vars => IInv'
<1> SUFFICES ASSUME IInv, [Next]_vars PROVE IInv'
  OBVIOUS
<1>1. ASSUME NEW p \in Proc, Step(p) PROVE IInv'
  BY <1>1, StartInv, FinishInv, BarrierEnterInv, BarrierLeaveInv,
     MpiBarrierEnterInv, MpiBarrierLeaveInv DEF Step
<1>2. ASSUME UNCHANGED <<D, pos, at, entered, mpi>> PROVE IInv'
  <2>1. Proc' = Proc /\ Rank(D)' = Rank(D) /\ Tid(D)' = Tid(D) /\ Field' = Field
    BY <1>2, SameThreads
  <2>2. \A p : Measuring(p)' = Measuring(p) /\ Rounds(p)' = Rounds(p)
    BY <1>2 DEF Measuring, Rounds
  <2>3. PlaceInv'
    BY <1>2, <2>1 DEF IInv, PlaceInv
  <2>4. CountInv'
    BY <1>2, <2>1, <2>2 DEF IInv, CountInv
  <2>5. SyncInv'
    BY <1>2, <2>1, <2>2 DEF IInv, SyncInv
  <2>6. QED
    BY <2>3, <2>4, <2>5 DEF IInv
<1>3. ASSUME NEW p \in Proc, NEW q \in Proc, Match(p, q) PROVE IInv'
  BY <1>2, <1>3 DEF Match
<1>4. CASE Done \/ UNCHANGED vars
  BY <1>2, <1>4 DEF Done, vars
<1>5. QED
  BY <1>1, <1>3, <1>4 DEF Next

\* The invariant holds in all states.
THEOREM Invariance == Spec => []IInv
<1>1. Init => IInv
  BY InitInv
<1>2. IInv /\ [Next]_vars => IInv'
  BY NextInv
<1>3. QED
  BY <1>1, <1>2, PTL DEF Spec

(***************************************************************************)
(* A thread that works on a measured step has been at the barrier twice since  *)
(* it ended the one before, so its rank's thread 0 has been at MPI_Barrier     *)
(* between, so that of every other rank has, and so all threads of that rank    *)
(* have come to the first of the two calls: they have ended the step before.   *)
(***************************************************************************)
LEMMA Together == IInv => MeasuredTogether
<1> SUFFICES ASSUME IInv, NEW p \in Proc, NEW q \in Proc,
                    pos[p].step > FreeSteps, at[p] \in {"start", "wait"}
             PROVE  pos[q].step >= pos[p].step
  BY DEF MeasuredTogether
<1> DEFINE k == pos[p].step - FreeSteps
           first == <<p[1], 0>>
<1>1. PlaceInv /\ CountInv /\ SyncInv /\ Measuring(p)
  BY DEF IInv, Measuring
<1>2. /\ p[1] \in Rank(D) /\ p[2] \in Tid(D) /\ p = <<p[1], p[2]>>
      /\ q[1] \in Rank(D) /\ q[2] \in Tid(D) /\ q = <<q[1], q[2]>>
      /\ 0 \in Tid(D) /\ first \in Proc
  BY <1>1, Threads DEF PlaceInv
<1>3. /\ pos[p].step \in Nat /\ pos[q].step \in Nat /\ mpi[q[1]] \in Nat
      /\ entered[p] \in Nat /\ entered[q] \in Nat /\ entered[first] \in Nat
  BY <1>1, <1>2, PlaceOf
<1>4. entered[p] = 2 * k
  BY <1>1, <1>3, StepBounds DEF CountInv, Measuring, Rounds
<1>5. entered[first] >= 2 * k
  BY <1>1, <1>2, <1>4 DEF SyncInv
<1>6. mpi[q[1]] >= k
  <2>1. 2 * mpi[q[1]] >= entered[first] - 1
    BY <1>1, <1>2 DEF SyncInv
  <2>2. QED
    BY <1>3, <1>5, <2>1, StepBounds
<1>7. entered[q] >= 2 * k - 1
  <2>1. entered[q] >= 2 * mpi[q[1]] - 1
    BY <1>1, <1>2 DEF SyncInv
  <2>2. QED
    BY <1>3, <1>6, <2>1, StepBounds
<1>8. k >= 1 /\ k \in Nat
  BY <1>3, StepBounds
<1>9. QED
  <2>1. entered[q] = 2 * Rounds(q)
          + (IF at[q] \in {"b1in", "mpi", "mpiin", "b2"} THEN 1
             ELSE IF at[q] = "b2in" \/ Measuring(q) THEN 2 ELSE 0)
    BY <1>1 DEF CountInv
  <2>2. at[q] \in InBarriers \/ Measuring(q) => pos[q].step > FreeSteps
    BY <1>1 DEF PlaceInv, Measuring
  <2>3. CASE pos[q].step > FreeSteps
    BY <1>3, <1>7, <1>8, <2>1, <2>3, StepBounds DEF Rounds
  <2>4. CASE ~(pos[q].step > FreeSteps)
    BY <1>3, <1>7, <1>8, <2>1, <2>2, <2>4, StepBounds DEF Rounds, InBarriers
  <2>5. QED
    BY <2>3, <2>4

\* In a measured step no rank works on another step, whatever the
\* decomposition and the numbers of steps.
THEOREM StepsTogether == Spec => []MeasuredTogether
BY Invariance, Together, PTL

-----------------------------------------------------------------------------
(***************************************************************************)
(* The messages.  The base of the tags is the number of threads of a rank     *)
(* (mpi_comm/runtime.cpp:40), so tags tell fields apart only if there are no   *)
(* more of them; with one thread per rank the order of messages does.         *)
(***************************************************************************)
TagsSuffice ==
    \A E \in Setups : E.fields <= ThreadsPerRank(E) \/ ThreadsPerRank(E) = 1

-----------------------------------------------------------------------------
\* The exchanges a thread makes, and their order.
Exchange == [step : 1..LastStep, field : Field, dim : Dim]

Earlier(x, y) ==
    \/ x.step < y.step
    \/ x.step = y.step /\ x.field < y.field
    \/ x.step = y.step /\ x.field = y.field /\ x.dim < y.dim

\* The block of a thread, and the thread of a block.
BlockOf(p) == Coord(D, p[1], p[2])
Owner(c) == <<RankOf(D, c), ThreadOf(D, c)>>

\* Who gets what p sends in dimension d and this direction, and whose p gets.
Way(left) == IF left THEN -1 ELSE 1
To(p, d, left) == Owner(Shift(D, BlockOf(p), d, Way(left)))
From(p, d, left) == Owner(Shift(D, BlockOf(p), d, -Way(left)))

\* p has sent what it sends in exchange x; q has what it receives in it.
Began(p, x) == Earlier(x, pos[p]) \/ (x = pos[p] /\ at[p] = "wait")

Got(q, x, left) ==
    \/ Earlier(x, pos[q])
    \/ x = pos[q] /\ at[q] = "wait" /\ \A r \in posted[q] : r.left # left

\* The block at o of the one at c.
Side(c, o) == <<Wrap(D, 1, c[1] + o[1]), Wrap(D, 2, c[2] + o[2]), Wrap(D, 3, c[3] + o[3])>>

\* What p sends in exchange x, and what a thread asks for.
CellsOf(p, x) == [o \in Slab(x.dim) |-> <<Side(BlockOf(p), o), x.field, x.step>>]

MessageOf(p, x, left) ==
    [to |-> To(p, x.dim, left)[1],
     tag |-> Tag(m_neighbors(p), x.field, x.dim, left, p[2]),
     left |-> left, at |-> x, cells |-> CellsOf(p, x)]

MessagesOf(p) == {MessageOf(p, x, left) : x \in Exchange, left \in BOOLEAN}

ReceiveOf(q, left) ==
    LET n == From(q, pos[q].dim, left)
    IN  [left |-> left, from |-> n[1],
         tag |-> Tag(m_neighbors(q), pos[q].field, pos[q].dim, left, n[2])]

\* Message n was sent after m.
Follows(n, m) == Earlier(m.at, n.at) \/ (m.at = n.at /\ m.left # n.left)

\* The dimension in which a region is filled, and the step a region of field f
\* is of when the thread is at x.
LastDim(o) == IF o[3] # 0 THEN 3 ELSE IF o[2] # 0 THEN 2 ELSE 1

StepOf(x, f, o) ==
    IF f < x.field \/ (f = x.field /\ LastDim(o) < x.dim) THEN x.step ELSE x.step - 1

\* What is in a region of p when p is at x.
Filled(p, x, f, o) ==
    IF StepOf(x, f, o) = 0 THEN Empty ELSE <<Side(BlockOf(p), o), f, StepOf(x, f, o)>>

-----------------------------------------------------------------------------
(***************************************************************************)
(* Messages of a thread are in the order in which they were sent.            *)
(***************************************************************************)
SentInv ==
    /\ sent = [p \in Proc |-> sent[p]]
    /\ \A p \in Proc :
         /\ sent[p] \in Seq(MessagesOf(p))
         /\ \A i, j \in DOMAIN sent[p] : i < j => Follows(sent[p][j], sent[p][i])

(***************************************************************************)
(* Under way is what has been sent and not been received, and nobody has        *)
(* received what has not been sent.                                         *)
(***************************************************************************)
FlightInv ==
    \A p \in Proc, x \in Exchange, left \in BOOLEAN :
      /\ (\E i \in DOMAIN sent[p] : sent[p][i] = MessageOf(p, x, left))
           <=> (Began(p, x) /\ ~Got(To(p, x.dim, left), x, left))
      /\ Got(p, x, left) => Began(From(p, x.dim, left), x)

(***************************************************************************)
(* A thread that waits has asked for its two messages, and has in its inbox    *)
(* what it no longer asks for.                                               *)
(***************************************************************************)
Waits(q) ==
    /\ posted[q] \subseteq {ReceiveOf(q, TRUE), ReceiveOf(q, FALSE)}
    /\ at[q] # "wait" => posted[q] = {}
    /\ \A left \in BOOLEAN :
         Got(q, pos[q], left)
           => inbox[q][left] = CellsOf(From(q, pos[q].dim, left), pos[q])

ReceiveInv ==
    /\ posted = [q \in Proc |-> posted[q]]
    /\ inbox = [q \in Proc |-> [left \in BOOLEAN |-> inbox[q][left]]]
    /\ \A q \in Proc : Waits(q)

(***************************************************************************)
(* The halos are those of the last step in which they were filled.           *)
(***************************************************************************)
HaloInv ==
    halo = [p \in Proc |-> [f \in Field |-> [o \in Offset \ {Here} |-> Filled(p, pos[p], f, o)]]]

(***************************************************************************)
(* The inductive invariant, together with IInv.                             *)
(***************************************************************************)
FlowInv == SentInv /\ FlightInv /\ ReceiveInv /\ HaloInv

-----------------------------------------------------------------------------
(***************************************************************************)
(* Who talks to whom.                                                       *)
(***************************************************************************)
\* Threads and blocks are one to one.
LEMMA Owners ==
  ASSUME D \in Setups
  PROVE  /\ \A p \in Proc : BlockOf(p) \in GlobalCoord(D) /\ Owner(BlockOf(p)) = p
         /\ \A c \in GlobalCoord(D) : Owner(c) \in Proc /\ BlockOf(Owner(c)) = c
<1>1. IsGrid(D)
  BY Grids
<1>2. ASSUME NEW p \in Proc
      PROVE  BlockOf(p) \in GlobalCoord(D) /\ Owner(BlockOf(p)) = p
  <2>1. p[1] \in Rank(D) /\ p[2] \in Tid(D) /\ p = <<p[1], p[2]>>
    BY Threads
  <2>2. QED
    BY <1>1, <2>1, BlockOfOwner DEF BlockOf, Owner
<1>3. ASSUME NEW c \in GlobalCoord(D)
      PROVE  Owner(c) \in Proc /\ BlockOf(Owner(c)) = c
  <2>1. /\ RankOf(D, c) \in Rank(D) /\ ThreadOf(D, c) \in Tid(D)
        /\ Coord(D, RankOf(D, c), ThreadOf(D, c)) = c
    BY <1>1, BlockOwner
  <2>2. QED
    BY <2>1 DEF Owner, BlockOf, Proc, ProcOf
<1>4. QED
  BY <1>2, <1>3

\* A step to the left and one to the right.
LEMMA Ways ==
  ASSUME NEW left \in BOOLEAN
  PROVE  Way(left) \in {-1, 1} /\ -Way(left) \in {-1, 1} /\ -(-Way(left)) = Way(left)
<1>1. Way(left) = -1 \/ Way(left) = 1
  BY DEF Way
<1>2. QED
  BY <1>1

\* Who sends to whom, and who receives from whom, is the same.
LEMMA Partners ==
  ASSUME D \in Setups, NEW p \in Proc, NEW d \in Dim, NEW left \in BOOLEAN
  PROVE  /\ To(p, d, left) \in Proc /\ From(To(p, d, left), d, left) = p
         /\ From(p, d, left) \in Proc /\ To(From(p, d, left), d, left) = p
         /\ BlockOf(From(p, d, left)) = Shift(D, BlockOf(p), d, -Way(left))
<1> DEFINE c == BlockOf(p)
           w == Way(left)
<1>1. IsGrid(D) /\ c \in GlobalCoord(D) /\ Owner(c) = p
  BY Grids, Owners
<1>2. w \in {-1, 1} /\ -w \in {-1, 1} /\ -(-w) = w
  BY Ways
<1> HIDE DEF c, w
<1>3. /\ Shift(D, c, d, w) \in GlobalCoord(D)
      /\ Shift(D, Shift(D, c, d, w), d, -w) = c
  BY <1>1, <1>2, StepAndBack
<1>4. /\ Shift(D, c, d, -w) \in GlobalCoord(D)
      /\ Shift(D, Shift(D, c, d, -w), d, w) = c
  <2>1. Shift(D, Shift(D, c, d, -w), d, -(-w)) = c
    BY <1>1, <1>2, StepAndBack
  <2>2. QED
    BY <1>1, <1>2, <2>1, StepAndBack
<1>5. /\ Owner(Shift(D, c, d, w)) \in Proc
      /\ BlockOf(Owner(Shift(D, c, d, w))) = Shift(D, c, d, w)
      /\ Owner(Shift(D, c, d, -w)) \in Proc
      /\ BlockOf(Owner(Shift(D, c, d, -w))) = Shift(D, c, d, -w)
  BY <1>3, <1>4, Owners
<1>6. /\ To(p, d, left) = Owner(Shift(D, c, d, w))
      /\ From(p, d, left) = Owner(Shift(D, c, d, -w))
  BY DEF To, From, c, w
<1>7. From(To(p, d, left), d, left) = Owner(Shift(D, Shift(D, c, d, w), d, -w))
  BY <1>5, <1>6 DEF From, w
<1>8. To(From(p, d, left), d, left) = Owner(Shift(D, Shift(D, c, d, -w), d, w))
  BY <1>5, <1>6 DEF To, w
<1>9. QED
  BY <1>1, <1>3, <1>4, <1>5, <1>6, <1>7, <1>8 DEF c, w

\* What the neighborhood of a thread says of them.
LEMMA NeighborsOf ==
  ASSUME D \in Setups, NEW p \in Proc
  PROVE  /\ m_neighbors(p).num_fields = ThreadsPerRank(D)
         /\ m_neighbors(p).d.coord = BlockOf(p)
         /\ m_neighbors(p).d.thread = p[2]
         /\ \A d \in Dim, left \in BOOLEAN :
              /\ Target(m_neighbors(p), d, left).rank = To(p, d, left)[1]
              /\ Target(m_neighbors(p), d, left).thread = To(p, d, left)[2]
              /\ Source(m_neighbors(p), d, left).rank = From(p, d, left)[1]
              /\ Source(m_neighbors(p), d, left).thread = From(p, d, left)[2]
<1> DEFINE nb == Neighborhood(D, p[1], p[2])
<1>1. m_neighbors(p) = nb
  BY DEF m_neighbors, Neighbors, Proc
<1>2. nb.num_fields = ThreadsPerRank(D) /\ nb.d = Domain(D, p[1], p[2])
  BY DEF Neighborhood
<1>3. nb.d.coord = BlockOf(p) /\ nb.d.thread = p[2]
  BY <1>2 DEF Domain, DomainAt, BlockOf
<1>4. ASSUME NEW d \in Dim
      PROVE  /\ nb.l[d] = Neighbor(D, p[1], p[2], d, -1)
             /\ nb.r[d] = Neighbor(D, p[1], p[2], d, 1)
  BY DEF Neighborhood, Triple, Dim
<1>5. ASSUME NEW d \in Dim, NEW way \in {-1, 1}
      PROVE  /\ Neighbor(D, p[1], p[2], d, way).rank = Owner(Shift(D, BlockOf(p), d, way))[1]
             /\ Neighbor(D, p[1], p[2], d, way).thread = Owner(Shift(D, BlockOf(p), d, way))[2]
  <2>1. Neighbor(D, p[1], p[2], d, way) = BlockAt(D, Shift(D, BlockOf(p), d, way))
    BY DEF Neighbor, NeighborAt, Shift, BlockAt, BlockOf
  <2>2. QED
    BY <2>1 DEF BlockAt, DomainAt, Owner
<1> HIDE DEF nb
<1>6. ASSUME NEW d \in Dim, NEW left \in BOOLEAN
      PROVE  /\ Target(nb, d, left) = Neighbor(D, p[1], p[2], d, Way(left))
             /\ Source(nb, d, left) = Neighbor(D, p[1], p[2], d, -Way(left))
  BY <1>4 DEF Target, Source, Way
<1>7. QED
  BY <1>1, <1>2, <1>3, <1>5, <1>6, Ways DEF To, From

\* Asking and sending as the model does it, in terms of these.
LEMMA Asking ==
  ASSUME PlaceInv, NEW p \in Proc, NEW left \in BOOLEAN
  PROVE  /\ Receive(p, left) = ReceiveOf(p, left)
         /\ Message(p, left).to = To(p, pos[p].dim, left)[1]
         /\ Message(p, left).tag
              = Tag(m_neighbors(p), pos[p].field, pos[p].dim, left, p[2])
<1>1. pos[p].dim \in Dim /\ D \in Setups
  BY PlaceOf DEF PlaceInv
<1>2. /\ Source(m_neighbors(p), pos[p].dim, left).rank = From(p, pos[p].dim, left)[1]
      /\ Source(m_neighbors(p), pos[p].dim, left).thread = From(p, pos[p].dim, left)[2]
      /\ Target(m_neighbors(p), pos[p].dim, left).rank = To(p, pos[p].dim, left)[1]
      /\ m_neighbors(p).d.thread = p[2]
  BY <1>1, NeighborsOf
<1>3. Receive(p, left) = ReceiveOf(p, left)
  BY <1>2 DEF Receive, ReceiveOf, recvtag
<1>4. QED
  BY <1>2, <1>3 DEF Message, sendtag

-----------------------------------------------------------------------------
(***************************************************************************)
(* The order of exchanges.                                                  *)
(***************************************************************************)
Place == [step : 1..(LastStep + 1), field : Field, dim : Dim]

\* Places are triples of numbers.
LEMMA PlaceTriple ==
  ASSUME D \in Setups, NEW x \in Place
  PROVE  /\ x.step \in Nat /\ x.field \in Int /\ x.dim \in 1..3
         /\ x = [step |-> x.step, field |-> x.field, dim |-> x.dim]
         /\ 0 <= x.field /\ x.field <= D.fields - 1 /\ D.fields \in Nat \ {0}
         /\ 1 <= x.step /\ x.step <= LastStep + 1
         /\ x.step # LastStep + 1 <=> x \in Exchange
<1>1. D.fields \in Nat \ {0} /\ LastStep \in Nat
  BY Grids, StepBounds
<1>2. /\ x.step \in 1..(LastStep + 1) /\ x.field \in 0..(D.fields - 1) /\ x.dim \in 1..3
      /\ x = [step |-> x.step, field |-> x.field, dim |-> x.dim]
  BY DEF Place, Field, Dim
<1>3. x.step # LastStep + 1 <=> x \in Exchange
  <2>1. x.step # LastStep + 1 => x.step \in 1..LastStep
    BY <1>1, <1>2
  <2>2. x.step # LastStep + 1 => x \in Exchange
    BY <1>2, <2>1 DEF Exchange, Field, Dim
  <2>3. x \in Exchange => x.step \in 1..LastStep
    BY DEF Exchange
  <2>4. QED
    BY <1>1, <2>2, <2>3
<1>4. QED
  BY <1>1, <1>2, <1>3

LEMMA ExchangePlace == \A x \in Exchange : x \in Place
BY StepBounds DEF Exchange, Place

\* The order is total.
LEMMA Order ==
  ASSUME D \in Setups, NEW x \in Place, NEW y \in Place
  PROVE  /\ ~Earlier(x, x)
         /\ ~(Earlier(x, y) /\ Earlier(y, x))
         /\ Earlier(x, y) \/ x = y \/ Earlier(y, x)
         /\ \A z \in Place : Earlier(x, y) /\ Earlier(y, z) => Earlier(x, z)
<1>1. /\ x.step \in Nat /\ x.field \in Int /\ x.dim \in 1..3
      /\ y.step \in Nat /\ y.field \in Int /\ y.dim \in 1..3
      /\ \A z \in Place : z.step \in Nat /\ z.field \in Int /\ z.dim \in 1..3
  BY PlaceTriple
<1>2. /\ x = [step |-> x.step, field |-> x.field, dim |-> x.dim]
      /\ y = [step |-> y.step, field |-> y.field, dim |-> y.dim]
  BY PlaceTriple
<1>3. Earlier(x, y) \/ x = y \/ Earlier(y, x)
  BY <1>1, <1>2 DEF Earlier
<1>4. QED
  BY <1>1, <1>3 DEF Earlier

\* The next exchange is the next in this order.
LEMMA AdvanceOrder ==
  ASSUME D \in Setups, NEW x \in Place, NEW y \in Exchange
  PROVE  Earlier(x, Advance(y)) <=> Earlier(x, y) \/ x = y
<1>1. /\ y \in Place
      /\ x.step \in Nat /\ x.field \in Int /\ x.dim \in 1..3
      /\ y.step \in Nat /\ y.field \in Int /\ y.dim \in 1..3
      /\ x.field <= D.fields - 1 /\ y.field <= D.fields - 1 /\ D.fields \in Nat \ {0}
      /\ x.field >= 0 /\ y.field >= 0
      /\ x = [step |-> x.step, field |-> x.field, dim |-> x.dim]
      /\ y = [step |-> y.step, field |-> y.field, dim |-> y.dim]
  BY PlaceTriple, ExchangePlace
<1> DEFINE z == Advance(y)
<1>2. /\ z.step = IF y.dim < 3 \/ y.field < D.fields - 1 THEN y.step ELSE y.step + 1
      /\ z.field = IF y.dim < 3 THEN y.field
                   ELSE IF y.field < D.fields - 1 THEN y.field + 1 ELSE 0
      /\ z.dim = IF y.dim < 3 THEN y.dim + 1 ELSE 1
  BY <1>1 DEF Advance
<1> HIDE DEF z
<1>3. x = y <=> x.step = y.step /\ x.field = y.field /\ x.dim = y.dim
  BY <1>1
<1>4. Earlier(x, z) <=> Earlier(x, y) \/ (x.step = y.step /\ x.field = y.field /\ x.dim = y.dim)
  BY <1>1, <1>2 DEF Earlier
<1>5. QED
  BY <1>3, <1>4 DEF z

\* Where the threads are.
LEMMA PosPlace ==
  ASSUME PlaceInv, NEW p \in Proc
  PROVE  /\ D \in Setups /\ pos[p] \in Place
         /\ at[p] # "done" <=> pos[p] \in Exchange
<1>1. D \in Setups /\ pos[p] \in Place
  BY PlaceOf DEF PlaceInv, Place
<1>2. QED
  BY <1>1, PlaceTriple DEF PlaceInv

-----------------------------------------------------------------------------
(***************************************************************************)
(* Removing an element of a sequence.                                       *)
(***************************************************************************)
LEMMA Removed ==
  ASSUME NEW S, NEW s \in Seq(S), NEW j \in DOMAIN s
  PROVE  /\ RemoveAt(s, j) \in Seq(S)
         /\ Len(RemoveAt(s, j)) = Len(s) - 1
         /\ \A i \in 1..(Len(s) - 1) :
              RemoveAt(s, j)[i] = s[IF i < j THEN i ELSE i + 1]
<1> DEFINE a == SubSeq(s, 1, j - 1)
           b == SubSeq(s, j + 1, Len(s))
<1>1. Len(s) \in Nat /\ DOMAIN s = 1..Len(s) /\ j \in 1..Len(s)
  BY LenProperties
<1>2. \A i \in 1..Len(s) : s[i] \in S
  BY <1>1, ElementOfSeq
<1>3. /\ a \in Seq(S) /\ Len(a) = j - 1
      /\ \A i \in 1..(j - 1) : a[i] = s[i]
  <2>1. \A i \in 1..(j - 1) : s[i] \in S
    BY <1>1, <1>2
  <2>2. /\ a \in Seq(S) /\ Len(a) = IF 1 <= j - 1 THEN j - 1 - 1 + 1 ELSE 0
        /\ \A i \in 1..(j - 1 - 1 + 1) : a[i] = s[1 + i - 1]
    BY <1>1, <2>1, SubSeqProperties
  <2>3. QED
    BY <1>1, <2>2
<1>4. /\ b \in Seq(S) /\ Len(b) = Len(s) - j
      /\ \A i \in 1..(Len(s) - j) : b[i] = s[j + i]
  <2>1. \A i \in (j + 1)..Len(s) : s[i] \in S
    BY <1>1, <1>2
  <2>2. /\ b \in Seq(S)
        /\ Len(b) = IF j + 1 <= Len(s) THEN Len(s) - (j + 1) + 1 ELSE 0
        /\ \A i \in 1..(Len(s) - (j + 1) + 1) : b[i] = s[j + 1 + i - 1]
    BY <1>1, <2>1, SubSeqProperties
  <2>3. QED
    BY <1>1, <2>2
<1> HIDE DEF a, b
<1>5. /\ a \o b \in Seq(S) /\ Len(a \o b) = Len(s) - 1
      /\ \A i \in 1..(Len(s) - 1) :
           (a \o b)[i] = IF i <= j - 1 THEN a[i] ELSE b[i - (j - 1)]
  <2>1. /\ a \o b \in Seq(S) /\ Len(a \o b) = Len(a) + Len(b)
        /\ \A i \in 1..(Len(a) + Len(b)) :
             (a \o b)[i] = IF i <= Len(a) THEN a[i] ELSE b[i - Len(a)]
    BY <1>3, <1>4, ConcatProperties
  <2>2. Len(a) + Len(b) = Len(s) - 1 /\ Len(a) = j - 1
    BY <1>1, <1>3, <1>4
  <2>3. QED
    BY <2>1, <2>2
<1>6. ASSUME NEW i \in 1..(Len(s) - 1)
      PROVE  (a \o b)[i] = s[IF i < j THEN i ELSE i + 1]
  <2>1. CASE i < j
    BY <1>1, <1>3, <1>5, <2>1
  <2>2. CASE ~(i < j)
    <3>1. i - (j - 1) \in 1..(Len(s) - j) /\ j + (i - (j - 1)) = i + 1
      BY <1>1, <2>2
    <3>2. (a \o b)[i] = b[i - (j - 1)]
      <4>1. ~(i <= j - 1)
        BY <1>1, <2>2
      <4>2. QED
        BY <1>5, <4>1
    <3>3. b[i - (j - 1)] = s[i + 1]
      <4>1. b[i - (j - 1)] = s[j + (i - (j - 1))]
        BY <1>4, <3>1
      <4>2. QED
        BY <3>1, <4>1
    <3>4. QED
      BY <2>2, <3>2, <3>3
  <2>3. QED
    BY <2>1, <2>2
<1>7. QED
  BY <1>5, <1>6 DEF RemoveAt, a, b

\* And appending two.
LEMMA Appended ==
  ASSUME NEW S, NEW s \in Seq(S), NEW a \in S, NEW b \in S, NEW n, n = Len(s),
         NEW u, u = s \o <<a, b>>
  PROVE  /\ n \in Nat /\ DOMAIN s = 1..n
         /\ u \in Seq(S) /\ DOMAIN u = 1..(n + 2)
         /\ \A i \in 1..n : u[i] = s[i]
         /\ u[n + 1] = a /\ u[n + 2] = b
<1> DEFINE t == <<a, b>>
<1>1. t \in Seq(S) /\ Len(t) = 2 /\ t[1] = a /\ t[2] = b
  OBVIOUS
<1>2. n \in Nat /\ DOMAIN s = 1..n
  BY LenProperties
<1>3. u = s \o t
  OBVIOUS
<1> HIDE DEF t
<1>4. /\ u \in Seq(S) /\ Len(u) = n + Len(t)
      /\ \A i \in 1..(n + Len(t)) : u[i] = IF i <= n THEN s[i] ELSE t[i - n]
  BY <1>1, <1>3, ConcatProperties
<1>5. DOMAIN u = 1..(n + 2)
  BY <1>1, <1>4, LenProperties
<1>6. \A i \in 1..n : u[i] = s[i]
  BY <1>1, <1>2, <1>4
<1>7. ASSUME NEW i, NEW k, k \in {1, 2}, i = n + k PROVE u[i] = t[k]
  <2>1. i \in 1..(n + Len(t)) /\ ~(i <= n) /\ i - n = k
    BY <1>1, <1>2, <1>7
  <2>2. QED
    BY <1>4, <2>1
<1>8. u[n + 1] = t[1] /\ u[n + 2] = t[2]
  BY <1>7
<1>9. QED
  BY <1>1, <1>2, <1>4, <1>5, <1>6, <1>8

-----------------------------------------------------------------------------
(***************************************************************************)
(* A receive gets the message it is for.                                     *)
(***************************************************************************)
\* What is said of a message says which it is.
LEMMA MessageFields ==
  ASSUME NEW p, NEW x, NEW left
  PROVE  /\ MessageOf(p, x, left).to = To(p, x.dim, left)[1]
         /\ MessageOf(p, x, left).tag = Tag(m_neighbors(p), x.field, x.dim, left, p[2])
         /\ MessageOf(p, x, left).left = left /\ MessageOf(p, x, left).at = x
         /\ MessageOf(p, x, left).cells = CellsOf(p, x)
BY DEF MessageOf

\* The messages of a thread that are under way.
LEMMA UnderWay ==
  ASSUME SentInv, FlightInv, NEW p \in Proc, NEW i \in DOMAIN sent[p]
  PROVE  \E x \in Exchange, left \in BOOLEAN :
           /\ sent[p][i] = MessageOf(p, x, left)
           /\ Began(p, x) /\ ~Got(To(p, x.dim, left), x, left)
<1>1. sent[p] \in Seq(MessagesOf(p))
  BY DEF SentInv
<1>2. sent[p][i] \in MessagesOf(p)
  BY <1>1, LenProperties, ElementOfSeq
<1>3. PICK x \in Exchange, left \in BOOLEAN : sent[p][i] = MessageOf(p, x, left)
  BY <1>2 DEF MessagesOf
<1>4. QED
  BY <1>3 DEF FlightInv

\* A receive that is posted is one of the two of its thread.
LEMMA Asked ==
  ASSUME PlaceInv, ReceiveInv, NEW q \in Proc, NEW r \in posted[q]
  PROVE  /\ r.left \in BOOLEAN /\ r = ReceiveOf(q, r.left)
         /\ at[q] = "wait" /\ pos[q] \in Exchange
         /\ ~Got(q, pos[q], r.left)
<1>1. at[q] = "wait" /\ r \in {ReceiveOf(q, TRUE), ReceiveOf(q, FALSE)}
  BY DEF ReceiveInv, Waits
<1>2. PICK l \in BOOLEAN : r = ReceiveOf(q, l)
  BY <1>1
<1>3. r.left = l
  BY <1>2 DEF ReceiveOf
<1>4. r.left \in BOOLEAN /\ r = ReceiveOf(q, r.left)
  BY <1>2, <1>3
<1>5. pos[q] \in Exchange /\ ~Earlier(pos[q], pos[q])
  BY <1>1, PosPlace, Order
<1>6. QED
  BY <1>1, <1>4, <1>5 DEF Got

\* A message that fits a receive is from the thread the receive is for, of the
\* same exchange and direction or of a later exchange.
LEMMA FitsOrLater ==
  ASSUME TagsSuffice, PlaceInv, SentInv, FlightInv, ReceiveInv,
         NEW p \in Proc, NEW q \in Proc, NEW r \in posted[q], NEW k \in Fits(p, q, r)
  PROVE  /\ p = From(q, pos[q].dim, r.left)
         /\ \E y \in Exchange, m \in BOOLEAN :
              /\ sent[p][k] = MessageOf(p, y, m) /\ Began(p, y)
              /\ (y = pos[q] /\ m = r.left) \/ Earlier(pos[q], y)
<1> DEFINE x == pos[q]
           left == r.left
           n == From(q, x.dim, left)
           nb == m_neighbors(p)
<1>1. D \in Setups /\ x \in Exchange /\ x \in Place /\ left \in BOOLEAN
  BY Asked, PosPlace
<1>2. r.from = n[1] /\ r.tag = Tag(m_neighbors(q), x.field, x.dim, left, n[2])
  BY Asked DEF ReceiveOf
<1>3. k \in DOMAIN sent[p] /\ p[1] = n[1] /\ sent[p][k].to = q[1]
      /\ sent[p][k].tag = Tag(m_neighbors(q), x.field, x.dim, left, n[2])
  BY <1>2 DEF Fits
<1>4. PICK y \in Exchange, m \in BOOLEAN :
        /\ sent[p][k] = MessageOf(p, y, m)
        /\ Began(p, y) /\ ~Got(To(p, y.dim, m), y, m)
  BY <1>3, UnderWay
<1>5. /\ To(p, y.dim, m)[1] = q[1]
      /\ Tag(nb, y.field, y.dim, m, p[2]) = Tag(m_neighbors(q), x.field, x.dim, left, n[2])
  BY <1>3, <1>4, MessageFields
<1>6. /\ nb.num_fields = ThreadsPerRank(D)
      /\ Tag(m_neighbors(q), x.field, x.dim, left, n[2]) = Tag(nb, x.field, x.dim, left, n[2])
  BY <1>1, NeighborsOf DEF Tag
<1>7. /\ y \in Place /\ x.dim \in Dim /\ y.dim \in Dim
      /\ x.field \in Int /\ y.field \in Int /\ x.field >= 0 /\ y.field >= 0
      /\ x.field <= D.fields - 1 /\ y.field <= D.fields - 1 /\ D.fields \in Nat \ {0}
  BY <1>1, ExchangePlace, PlaceTriple DEF Dim
<1>8. n \in Proc /\ To(n, x.dim, left) = q /\ To(p, y.dim, m) \in Proc
  BY <1>1, <1>7, Partners
<1>9. \A z \in Proc : z[2] \in Tid(D) /\ z = <<z[1], z[2]>>
  BY <1>1, Threads
<1>10. IsGrid(D) /\ Tid(D) \subseteq Nat /\ 0 \in Tid(D)
  BY <1>1, Grids, FirstThread
<1>11. ThreadsPerRank(D) \in Nat \ {0}
  <2>1. ThreadsPerRank(D) \in Int
    <3>1. /\ D.threads[1] \in Nat /\ D.threads[2] \in Nat /\ D.threads[3] \in Nat
      BY <1>10 DEF IsGrid, Dim
    <3>2. QED
      BY <3>1 DEF ThreadsPerRank
  <2>2. QED
    BY <1>10, <2>1 DEF Tid
<1>12. p = n /\ To(p, y.dim, m) = q /\ (y = x => m = left)
  <2>1. CASE D.fields <= ThreadsPerRank(D)
    <3>1. /\ x.field \in 0..(nb.num_fields - 1) /\ y.field \in 0..(nb.num_fields - 1)
          /\ p[2] \in Nat /\ n[2] \in Nat
      BY <1>6, <1>7, <1>8, <1>9, <1>10, <1>11, <2>1
    <3>2. y.dim = x.dim /\ m = left /\ p[2] = n[2]
      BY <1>1, <1>5, <1>6, <1>7, <1>11, <3>1, TagsTellApart
    <3>3. QED
      BY <1>3, <1>8, <1>9, <3>2
  <2>2. CASE ThreadsPerRank(D) = 1
    <3>1. \A z \in Proc : z[2] = 0
      BY <1>9, <2>2 DEF Tid
    <3>2. p = n /\ To(p, y.dim, m) = q
      BY <1>3, <1>5, <1>8, <1>9, <3>1
    <3>3. ASSUME y = x PROVE m = left
      <4>1. nb.num_fields = 1 /\ p[2] = 0 /\ n[2] = 0
        BY <1>6, <1>8, <2>2, <3>1
      <4>2. Tag(nb, x.field, x.dim, m, 0) = Tag(nb, x.field, x.dim, left, 0)
        BY <1>5, <1>6, <3>3, <4>1
      <4>3. x.dim \in 1..3
        BY <1>7 DEF Dim
      <4>4. (IF m THEN 0 ELSE 1) = (IF left THEN 0 ELSE 1)
        BY <1>7, <4>1, <4>2, <4>3 DEF Tag
      <4>5. m <=> left
        BY <4>4
      <4>6. QED
        BY <1>1, <4>5, Zenon
    <3>4. QED
      BY <3>2, <3>3
  <2>3. QED
    BY <1>1, <2>1, <2>2 DEF TagsSuffice
<1>13. ~Earlier(y, x)
  BY <1>4, <1>12 DEF Got
<1>14. y = x \/ Earlier(x, y)
  BY <1>1, <1>7, <1>13, Order
<1>15. QED
  BY <1>4, <1>12, <1>14

\* What the thread it is for has sent fits a receive.
LEMMA OwnFits ==
  ASSUME PlaceInv, SentInv, FlightInv, ReceiveInv, NEW p \in Proc, NEW q \in Proc,
         NEW r \in posted[q], p = From(q, pos[q].dim, r.left), Began(p, pos[q])
  PROVE  \E j \in Fits(p, q, r) : sent[p][j] = MessageOf(p, pos[q], r.left)
<1> DEFINE x == pos[q]
           left == r.left
<1>1. /\ D \in Setups /\ x \in Exchange /\ x.dim \in Dim /\ left \in BOOLEAN
      /\ r = ReceiveOf(q, left) /\ ~Got(q, x, left)
  BY Asked, PosPlace DEF Exchange
<1>2. To(p, x.dim, left) = q
  BY <1>1, Partners
<1>3. PICK j \in DOMAIN sent[p] : sent[p][j] = MessageOf(p, x, left)
  BY <1>1, <1>2 DEF FlightInv
<1>4. /\ sent[p][j].to = q[1]
      /\ sent[p][j].tag = Tag(m_neighbors(p), x.field, x.dim, left, p[2])
  BY <1>2, <1>3, MessageFields
<1>5. r.from = p[1] /\ r.tag = Tag(m_neighbors(q), x.field, x.dim, left, p[2])
  BY <1>1 DEF ReceiveOf
<1>6. m_neighbors(p).num_fields = m_neighbors(q).num_fields
  BY <1>1, NeighborsOf
<1>7. Tag(m_neighbors(p), x.field, x.dim, left, p[2])
        = Tag(m_neighbors(q), x.field, x.dim, left, p[2])
  BY <1>6 DEF Tag
<1>8. QED
  BY <1>3, <1>4, <1>5, <1>7 DEF Fits

\* So the first that fits is the right one.
LEMMA FirstIsOwn ==
  ASSUME TagsSuffice, PlaceInv, SentInv, FlightInv, ReceiveInv,
         NEW p \in Proc, NEW q \in Proc, NEW r \in posted[q], Fits(p, q, r) # {}
  PROVE  /\ p = From(q, pos[q].dim, r.left) /\ Began(p, pos[q])
         /\ First(Fits(p, q, r)) \in DOMAIN sent[p]
         /\ sent[p][First(Fits(p, q, r))] = MessageOf(p, pos[q], r.left)
<1> DEFINE x == pos[q]
           left == r.left
<1>1. /\ D \in Setups /\ x \in Exchange /\ x \in Place /\ left \in BOOLEAN
      /\ r = ReceiveOf(q, left) /\ ~Got(q, x, left) /\ x.dim \in Dim
  BY Asked, PosPlace DEF Exchange
<1>2. PICK k \in Fits(p, q, r) : TRUE
  OBVIOUS
<1>3. p = From(q, x.dim, left) /\ Began(p, x)
  <2>1. p = From(q, x.dim, left)
    BY <1>2, FitsOrLater
  <2>2. PICK y \in Exchange : Began(p, y) /\ (y = x \/ Earlier(x, y))
    BY <1>2, FitsOrLater
  <2>3. pos[p] \in Place /\ y \in Place
    BY PosPlace, ExchangePlace
  <2>4. Earlier(y, pos[p]) /\ Earlier(x, y) => Earlier(x, pos[p])
    BY <1>1, <2>3, Order
  <2>5. Began(p, x)
    BY <2>2, <2>4 DEF Began
  <2>6. QED
    BY <2>1, <2>5
<1>4. PICK j \in Fits(p, q, r) : sent[p][j] = MessageOf(p, x, left)
  BY <1>3, OwnFits
<1>5. j \in DOMAIN sent[p]
  BY DEF Fits
<1>6. DOMAIN sent[p] = 1..Len(sent[p]) /\ Len(sent[p]) \in Nat
  BY LenProperties DEF SentInv
<1>7. ASSUME NEW i \in Fits(p, q, r) PROVE j <= i
  <2>1. SUFFICES ASSUME i < j PROVE FALSE
    BY <1>4, <1>5, <1>6 DEF Fits
  <2>2. i \in DOMAIN sent[p]
    BY DEF Fits
  <2>3. PICK y \in Exchange, m \in BOOLEAN :
          /\ sent[p][i] = MessageOf(p, y, m)
          /\ (y = x /\ m = left) \/ Earlier(x, y)
    BY FitsOrLater
  <2>4. Follows(sent[p][j], sent[p][i])
    BY <1>4, <1>5, <2>1, <2>2 DEF SentInv
  <2>5. Earlier(y, x) \/ (y = x /\ m # left)
    BY <1>4, <2>3, <2>4, MessageFields DEF Follows
  <2>6. y \in Place /\ ~(Earlier(x, y) /\ Earlier(y, x)) /\ ~Earlier(x, x)
    BY <1>1, ExchangePlace, Order
  <2>7. QED
    BY <2>3, <2>5, <2>6
<1>8. First(Fits(p, q, r)) = j
  <2>1. \A i \in Fits(p, q, r) : i \in Nat
    BY <1>6 DEF Fits
  <2>2. ASSUME NEW i \in Fits(p, q, r), \A h \in Fits(p, q, r) : i <= h PROVE i = j
    BY <1>4, <1>7, <2>1, <2>2
  <2>3. QED
    BY <1>4, <1>7, <2>2 DEF First
<1>9. QED
  BY <1>3, <1>4, <1>5, <1>8

-----------------------------------------------------------------------------
(***************************************************************************)
(* Regions and what is in them.                                             *)
(***************************************************************************)
LEMMA Offsets ==
  ASSUME NEW o \in Offset
  PROVE  /\ o = <<o[1], o[2], o[3]>> /\ \A e \in Dim : o[e] \in {-1, 0, 1}
         /\ LastDim(o) \in Dim
         /\ o # Here => o[LastDim(o)] # 0
         /\ \A d \in Dim : d > LastDim(o) => o[d] = 0
BY DEF Offset, LastDim, Here, Dim

\* What is sent in a dimension has been filled in those before.
LEMMA SlabBefore ==
  ASSUME NEW d \in Dim, NEW o \in Offset
  PROVE  o \in Slab(d) <=> (o = Here \/ LastDim(o) < d)
<1>1. /\ o = <<o[1], o[2], o[3]>> /\ d \in {1, 2, 3}
      /\ o \in Slab(d) <=> /\ 1 >= d => o[1] = 0
                           /\ 2 >= d => o[2] = 0
                           /\ 3 >= d => o[3] = 0
  BY Offsets DEF Slab, Dim
<1>2. o = Here <=> o[1] = 0 /\ o[2] = 0 /\ o[3] = 0
  BY <1>1 DEF Here
<1>3. QED
  BY <1>1, <1>2 DEF LastDim

\* A block is at no offset of itself.
LEMMA SideHere ==
  ASSUME D \in Setups, NEW c \in GlobalCoord(D)
  PROVE  /\ Side(c, Here) = c
         /\ \A d \in Dim : c[d] \in 0..(Blocks(D, d) - 1) /\ Blocks(D, d) \in Nat \ {0}
<1>1. c = <<c[1], c[2], c[3]>> /\ \A d \in Dim : c[d] \in 0..(Blocks(D, d) - 1)
  BY DEF GlobalCoord, Dim
<1>2. \A d \in Dim : Blocks(D, d) \in Nat \ {0}
  BY Grids, Sizes
<1>3. ASSUME NEW d \in Dim PROVE Wrap(D, d, c[d] + 0) = c[d]
  <2>1. c[d] \in 0..(Blocks(D, d) - 1) /\ Blocks(D, d) \in Nat \ {0}
    BY <1>1, <1>2
  <2>2. QED
    BY <2>1 DEF Wrap
<1>4. Side(c, Here) = <<Wrap(D, 1, c[1] + 0), Wrap(D, 2, c[2] + 0), Wrap(D, 3, c[3] + 0)>>
  BY DEF Side, Here
<1>5. QED
  BY <1>1, <1>2, <1>3, <1>4 DEF Dim

\* The block at o is at the rest of o of the neighbour in dimension d.
LEMMA SideOfNeighbor ==
  ASSUME D \in Setups, NEW c \in GlobalCoord(D), NEW d \in Dim, NEW o \in Offset, o[d] # 0
  PROVE  Side(Shift(D, c, d, o[d]), [o EXCEPT ![d] = 0]) = Side(c, o)
<1> DEFINE n == Shift(D, c, d, o[d])
           i == [o EXCEPT ![d] = 0]
<1>1. /\ \A e \in Dim : c[e] \in 0..(Blocks(D, e) - 1) /\ Blocks(D, e) \in Nat \ {0}
      /\ 1 \in Dim /\ 2 \in Dim /\ 3 \in Dim
  BY SideHere DEF Dim
<1>2. o = <<o[1], o[2], o[3]>> /\ \A e \in Dim : o[e] \in {-1, 0, 1}
  BY Offsets
<1>3. \A e \in Dim : i[e] = IF e = d THEN 0 ELSE o[e]
  BY <1>2 DEF Dim
<1>4. \A e \in Dim : n[e] = Wrap(D, e, c[e] + (IF e = d THEN o[d] ELSE 0))
  BY DEF Shift, OneStep, Triple, Dim
<1> HIDE DEF n, i
<1>5. ASSUME NEW e \in Dim
      PROVE  Wrap(D, e, n[e] + i[e]) = Wrap(D, e, c[e] + o[e])
  <2>1. /\ c[e] \in 0..(Blocks(D, e) - 1) /\ Blocks(D, e) \in Nat \ {0}
        /\ o[e] \in {-1, 0, 1}
    BY <1>1, <1>2
  <2>2. CASE e = d
    <3>1. n[e] = Wrap(D, e, c[e] + o[e]) /\ i[e] = 0
      BY <1>3, <1>4, <2>2
    <3>2. Wrap(D, e, c[e] + o[e]) \in 0..(Blocks(D, e) - 1)
      BY <2>1 DEF Wrap
    <3>3. QED
      BY <2>1, <3>1, <3>2 DEF Wrap
  <2>3. CASE e # d
    <3>1. n[e] = Wrap(D, e, c[e] + 0) /\ i[e] = o[e]
      BY <1>3, <1>4, <2>3
    <3>2. n[e] = c[e]
      BY <2>1, <3>1 DEF Wrap
    <3>3. QED
      BY <3>1, <3>2
  <2>4. QED
    BY <2>2, <2>3
<1>6. QED
  BY <1>1, <1>5 DEF Side, n, i

\* What a thread sends is what it should: halos of earlier dimensions are of
\* this step.
LEMMA SendsRight ==
  ASSUME PlaceInv, HaloInv, NEW p \in Proc, at[p] = "start", NEW left \in BOOLEAN
  PROVE  Message(p, left) = MessageOf(p, pos[p], left)
<1> DEFINE x == pos[p]
<1>1. D \in Setups /\ x \in Exchange /\ x \in Place
  BY PosPlace
<1>2. x.dim \in Dim /\ x.field \in Field /\ x.step \in Nat /\ x.step >= 1
  BY <1>1, PlaceTriple DEF Exchange
<1>3. BlockOf(p) \in GlobalCoord(D) /\ m_neighbors(p).d.coord = BlockOf(p)
  BY <1>1, Owners, NeighborsOf
<1>4. ASSUME NEW o \in Slab(x.dim)
      PROVE  Content(p, o) = <<Side(BlockOf(p), o), x.field, x.step>>
  <2>1. o \in Offset
    BY DEF Slab
  <2>2. CASE o = Here
    BY <1>1, <1>3, <2>2, SideHere DEF Content, Region
  <2>3. CASE o # Here
    <3>1. LastDim(o) < x.dim
      BY <1>2, <2>1, <2>3, SlabBefore
    <3>2. StepOf(x, x.field, o) = x.step
      BY <3>1 DEF StepOf
    <3>3. halo[p][x.field][o] = <<Side(BlockOf(p), o), x.field, x.step>>
      BY <1>2, <2>1, <2>3, <3>2 DEF HaloInv, Filled
    <3>4. QED
      BY <2>3, <3>3 DEF Content, Region
  <2>4. QED
    BY <2>2, <2>3
<1>5. [o \in Slab(x.dim) |-> Content(p, o)] = CellsOf(p, x)
  BY <1>4 DEF CellsOf
<1>6. Message(p, left) = [to |-> Message(p, left).to, tag |-> Message(p, left).tag,
                          left |-> left, at |-> x,
                          cells |-> [o \in Slab(x.dim) |-> Content(p, o)]]
  BY DEF Message
<1>7. QED
  BY <1>5, <1>6, Asking DEF MessageOf

\* Going on fills the regions of this field and this dimension.
LEMMA AdvanceFills ==
  ASSUME D \in Setups, NEW x \in Exchange, NEW f \in Field, NEW o \in Offset
  PROVE  StepOf(Advance(x), f, o)
           = IF f = x.field /\ LastDim(o) = x.dim THEN x.step ELSE StepOf(x, f, o)
<1>1. /\ x.step \in Nat /\ x.field \in Int /\ x.dim \in 1..3 /\ x.field >= 0
      /\ x.field <= D.fields - 1 /\ D.fields \in Nat
      /\ f \in Int /\ 0 <= f /\ f <= D.fields - 1 /\ LastDim(o) \in 1..3
  BY ExchangePlace, PlaceTriple, Offsets DEF Field, Dim
<1>2. CASE x.dim < 3
  <2>1. /\ Advance(x).step = x.step /\ Advance(x).field = x.field
        /\ Advance(x).dim = x.dim + 1
    BY <1>2 DEF Advance, Exchange
  <2>2. QED
    BY <1>1, <2>1 DEF StepOf
<1>3. CASE x.dim = 3 /\ x.field < D.fields - 1
  <2>1. /\ Advance(x).step = x.step /\ Advance(x).field = x.field + 1
        /\ Advance(x).dim = 1
    BY <1>3 DEF Advance, Exchange
  <2>2. QED
    BY <1>1, <1>3, <2>1 DEF StepOf
<1>4. CASE x.dim = 3 /\ ~(x.field < D.fields - 1)
  <2>1. Advance(x).step = x.step + 1 /\ Advance(x).field = 0 /\ Advance(x).dim = 1
    BY <1>4 DEF Advance
  <2>2. QED
    BY <1>1, <1>4, <2>1 DEF StepOf
<1>5. QED
  BY <1>1, <1>2, <1>3, <1>4

\* After unpacking, the regions of this dimension are of this step.
LEMMA UnpacksRight ==
  ASSUME PlaceInv, FlowInv, NEW p \in Proc, at[p] = "wait", posted[p] = {}
  PROVE  Unpacked(p) = [o \in Offset \ {Here} |-> Filled(p, Advance(pos[p]), pos[p].field, o)]
<1> DEFINE x == pos[p]
           d == x.dim
           f == x.field
           inner(o) == [o EXCEPT ![d] = 0]
           new(o) == IF o[d] # 0 /\ inner(o) \in Slab(d)
                     THEN IF inner(o) \in DOMAIN inbox[p][o[d] = 1]
                          THEN inbox[p][o[d] = 1][inner(o)] ELSE Empty
                     ELSE halo[p][f][o]
           want(o) == Filled(p, Advance(x), f, o)
<1>1. D \in Setups /\ x \in Exchange /\ x \in Place
  BY PosPlace
<1>2. d \in Dim /\ f \in Field /\ x.step \in Nat /\ x.step >= 1 /\ f \in Int
      /\ f <= D.fields - 1 /\ D.fields \in Nat
  BY <1>1, PlaceTriple DEF Exchange
<1>3. BlockOf(p) \in GlobalCoord(D)
  BY <1>1, Owners
<1>4. ASSUME NEW left \in BOOLEAN
      PROVE  inbox[p][left] = CellsOf(From(p, d, left), x)
  BY DEF FlowInv, ReceiveInv, Waits, Got
<1>5. ASSUME NEW o \in Offset \ {Here}
      PROVE  StepOf(Advance(x), f, o)
               = IF LastDim(o) = d THEN x.step ELSE StepOf(x, f, o)
  BY <1>1, <1>2, AdvanceFills
<1>6. ASSUME NEW o \in Offset \ {Here}
      PROVE  o[d] # 0 /\ inner(o) \in Slab(d) <=> LastDim(o) = d
  <2>1. /\ o = <<o[1], o[2], o[3]>> /\ d \in {1, 2, 3}
        /\ o[1] \in {-1, 0, 1} /\ o[2] \in {-1, 0, 1} /\ o[3] \in {-1, 0, 1}
    BY <1>2, Offsets DEF Dim
  <2>2. inner(o) \in Offset
    BY <2>1 DEF Offset
  <2>3. /\ inner(o)[1] = IF d = 1 THEN 0 ELSE o[1]
        /\ inner(o)[2] = IF d = 2 THEN 0 ELSE o[2]
        /\ inner(o)[3] = IF d = 3 THEN 0 ELSE o[3]
    BY <2>1
  <2>4. ASSUME NEW i \in Offset
        PROVE  i \in Slab(d) <=> /\ 1 >= d => i[1] = 0
                                 /\ 2 >= d => i[2] = 0
                                 /\ 3 >= d => i[3] = 0
    BY DEF Slab, Dim
  <2>5. o[1] # 0 \/ o[2] # 0 \/ o[3] # 0
    BY <2>1 DEF Here
  <2> HIDE DEF inner
  <2>6. CASE d = 1
    BY <2>1, <2>2, <2>3, <2>4, <2>5, <2>6 DEF LastDim
  <2>7. CASE d = 2
    BY <2>1, <2>2, <2>3, <2>4, <2>5, <2>7 DEF LastDim
  <2>8. CASE d = 3
    BY <2>1, <2>2, <2>3, <2>4, <2>5, <2>8 DEF LastDim
  <2>9. QED
    BY <2>1, <2>6, <2>7, <2>8
<1>7. ASSUME NEW o \in Offset \ {Here}
      PROVE  new(o) = want(o)
  <2>1. CASE LastDim(o) = d
    <3>1. o[d] # 0 /\ inner(o) \in Slab(d) /\ o[d] \in {-1, 1}
      BY <1>2, <1>6, <2>1, Offsets
    <3>2. PICK left \in BOOLEAN : left = (o[d] = 1)
      OBVIOUS
    <3>3. -Way(left) = o[d]
      <4>1. CASE left
        <5>1. o[d] = 1 /\ Way(left) = -1
          BY <3>2, <4>1 DEF Way
        <5>2. -Way(left) \in {-1, 1} /\ -(-Way(left)) = Way(left)
          BY Ways
        <5>3. QED
          BY <5>1, <5>2
      <4>2. CASE ~left
        <5>1. o[d] # 1 /\ Way(left) = 1
          BY <3>2, <4>2 DEF Way
        <5>2. QED
          BY <3>1, <5>1
      <4>3. QED
        BY <4>1, <4>2
    <3>4. inbox[p][left] = CellsOf(From(p, d, left), x)
      BY <1>4
    <3>5. BlockOf(From(p, d, left)) = Shift(D, BlockOf(p), d, o[d])
      BY <1>1, <1>2, <3>3, Partners
    <3>6. Side(BlockOf(From(p, d, left)), inner(o)) = Side(BlockOf(p), o)
      BY <1>1, <1>2, <1>3, <3>1, <3>5, SideOfNeighbor
    <3>7. /\ inner(o) \in DOMAIN inbox[p][left]
          /\ inbox[p][left][inner(o)] = <<Side(BlockOf(p), o), f, x.step>>
      BY <3>1, <3>4, <3>6 DEF CellsOf
    <3>8. new(o) = inbox[p][left][inner(o)]
      BY <3>1, <3>2, <3>7
    <3>9. want(o) = <<Side(BlockOf(p), o), f, x.step>>
      BY <1>2, <1>5, <2>1 DEF Filled
    <3>10. QED
      BY <3>7, <3>8, <3>9
  <2>2. CASE LastDim(o) # d
    <3>1. new(o) = halo[p][f][o]
      BY <1>6, <2>2
    <3>2. StepOf(Advance(x), f, o) = StepOf(x, f, o)
      BY <1>5, <2>2
    <3>3. halo[p][f][o] = IF StepOf(x, f, o) = 0 THEN Empty
                          ELSE <<Side(BlockOf(p), o), f, StepOf(x, f, o)>>
      BY <1>2 DEF FlowInv, HaloInv, Filled
    <3>4. QED
      BY <3>1, <3>2, <3>3 DEF Filled
  <2>3. QED
    BY <2>1, <2>2
<1>8. Unpacked(p) = [o \in Offset \ {Here} |-> new(o)]
  BY DEF Unpacked
<1> HIDE DEF new, want
<1>9. Unpacked(p) = [o \in Offset \ {Here} |-> want(o)]
  BY <1>7, <1>8
<1>10. QED
  BY <1>9 DEF want

-----------------------------------------------------------------------------
(***************************************************************************)
(* Every step keeps the invariant.                                          *)
(***************************************************************************)
\* The names of threads, blocks and messages stay what they are.
LEMMA SameNames ==
  ASSUME D' = D
  PROVE  /\ Proc' = Proc /\ Field' = Field /\ Exchange' = Exchange
         /\ \A p : BlockOf(p)' = BlockOf(p) /\ m_neighbors(p)' = m_neighbors(p)
         /\ \A p, d, left : To(p, d, left)' = To(p, d, left)
                            /\ From(p, d, left)' = From(p, d, left)
         /\ \A c, o : Side(c, o)' = Side(c, o)
         /\ \A p, x : CellsOf(p, x)' = CellsOf(p, x)
         /\ \A p, x, left : MessageOf(p, x, left)' = MessageOf(p, x, left)
         /\ \A p : MessagesOf(p)' = MessagesOf(p)
         /\ \A p, x, f, o : Filled(p, x, f, o)' = Filled(p, x, f, o)
<1>1. Proc' = Proc /\ Field' = Field
  BY SameThreads
<1>2. Exchange' = Exchange
  BY <1>1 DEF Exchange
<1>3. ASSUME NEW p PROVE BlockOf(p)' = BlockOf(p) /\ m_neighbors(p)' = m_neighbors(p)
  BY DEF BlockOf, m_neighbors
<1>4. ASSUME NEW p, NEW d, NEW left
      PROVE  To(p, d, left)' = To(p, d, left) /\ From(p, d, left)' = From(p, d, left)
  BY <1>3 DEF To, From, Owner
<1>5. ASSUME NEW c, NEW o PROVE Side(c, o)' = Side(c, o)
  BY DEF Side
<1>6. ASSUME NEW p, NEW x PROVE CellsOf(p, x)' = CellsOf(p, x)
  BY <1>3, <1>5 DEF CellsOf
<1>7. ASSUME NEW p, NEW x, NEW left PROVE MessageOf(p, x, left)' = MessageOf(p, x, left)
  BY <1>3, <1>4, <1>6 DEF MessageOf
<1>8. ASSUME NEW p PROVE MessagesOf(p)' = MessagesOf(p)
  BY <1>2, <1>7 DEF MessagesOf
<1>9. ASSUME NEW p, NEW x, NEW f, NEW o PROVE Filled(p, x, f, o)' = Filled(p, x, f, o)
  BY <1>3, <1>5 DEF Filled, StepOf
<1>10. QED
  BY <1>1, <1>2, <1>3, <1>4, <1>5, <1>6, <1>7, <1>8, <1>9

\* What has begun and what has been got is the same where nothing changes.
LEMMA SameProgress ==
  ASSUME NEW p, pos'[p] = pos[p], (at'[p] = "wait") <=> (at[p] = "wait")
  PROVE  /\ \A x : Began(p, x)' <=> Began(p, x)
         /\ posted'[p] = posted[p] =>
              \A x, left : Got(p, x, left)' <=> Got(p, x, left)
BY DEF Began, Got, Earlier

\* So does what a thread asks for, as long as it stays where it is.
LEMMA SameReceive ==
  ASSUME D' = D, NEW q, pos'[q] = pos[q]
  PROVE  \A left : ReceiveOf(q, left)' = ReceiveOf(q, left)
BY SameNames DEF ReceiveOf

LEMMA SameWaits ==
  ASSUME D' = D, NEW q, pos'[q] = pos[q], (at'[q] = "wait") <=> (at[q] = "wait"),
         posted'[q] = posted[q], inbox'[q] = inbox[q], Waits(q)
  PROVE  Waits(q)'
<1> PICK x : x = pos[q]
  OBVIOUS
<1>1. /\ ReceiveOf(q, TRUE)' = ReceiveOf(q, TRUE)
      /\ ReceiveOf(q, FALSE)' = ReceiveOf(q, FALSE)
  BY SameReceive
<1>2. posted'[q] \subseteq {ReceiveOf(q, TRUE)', ReceiveOf(q, FALSE)'}
  BY <1>1 DEF Waits
<1>3. at'[q] # "wait" => posted'[q] = {}
  BY DEF Waits
<1>4. ASSUME NEW left \in BOOLEAN, Got(q, x, left)'
      PROVE  inbox'[q][left] = CellsOf(From(q, x.dim, left), x)'
  <2>1. Got(q, x, left)
    BY <1>4, SameProgress
  <2>2. inbox[q][left] = CellsOf(From(q, x.dim, left), x)
    BY <2>1 DEF Waits
  <2>3. From(q, x.dim, left)' = From(q, x.dim, left)
    BY SameNames
  <2>4. QED
    BY <2>2, <2>3, SameNames
<1>5. QED
  BY <1>2, <1>3, <1>4 DEF Waits

\* What is under way stays under way if no message is sent or received.
LEMMA SameFlight ==
  ASSUME D \in Setups, D' = D, FlightInv, sent' = sent,
         \A p \in Proc, x \in Exchange : Began(p, x)' <=> Began(p, x),
         \A p \in Proc, x \in Exchange, left \in BOOLEAN : Got(p, x, left)' <=> Got(p, x, left)
  PROVE  FlightInv'
<1> USE SameNames
<1>1. ASSUME NEW p \in Proc, NEW x \in Exchange, NEW left \in BOOLEAN
      PROVE  To(p, x.dim, left) \in Proc /\ From(p, x.dim, left) \in Proc
  BY Partners DEF Exchange
<1>2. ASSUME NEW p \in Proc, NEW x \in Exchange, NEW left \in BOOLEAN
      PROVE  /\ (\E i \in DOMAIN sent'[p] : sent'[p][i] = MessageOf(p, x, left)')
                  <=> (Began(p, x)' /\ ~Got(To(p, x.dim, left), x, left)')
             /\ Got(p, x, left)' => Began(From(p, x.dim, left), x)'
  BY <1>1 DEF FlightInv
<1>3. Proc' = Proc /\ Exchange' = Exchange
  OBVIOUS
<1>4. QED
  BY <1>2, <1>3 DEF FlightInv

\* Nothing happens to messages and halos.
LEMMA QuietFlow ==
  ASSUME PlaceInv, FlowInv, D' = D, pos' = pos, halo' = halo, sent' = sent,
         posted' = posted, inbox' = inbox,
         \A p \in Proc : (at'[p] = "wait") <=> (at[p] = "wait")
  PROVE  FlowInv'
<1> USE SameNames
<1>1. ASSUME NEW p \in Proc
      PROVE  /\ \A x : Began(p, x)' <=> Began(p, x)
             /\ \A x, left : Got(p, x, left)' <=> Got(p, x, left)
             /\ \A left : ReceiveOf(p, left)' = ReceiveOf(p, left)
  BY SameProgress, SameReceive
<1>2. D \in Setups /\ Proc' = Proc /\ Exchange' = Exchange
  BY DEF PlaceInv
<1>3. SentInv'
  BY <1>2 DEF FlowInv, SentInv, Follows, Earlier
<1>4. FlightInv'
  BY <1>1, <1>2, SameFlight DEF FlowInv
<1>5. ReceiveInv'
  <2>1. posted' = [q \in Proc |-> posted'[q]]
        /\ inbox' = [q \in Proc |-> [left \in BOOLEAN |-> inbox'[q][left]]]
    BY DEF FlowInv, ReceiveInv
  <2>2. \A q \in Proc : Waits(q)'
    BY SameWaits DEF FlowInv, ReceiveInv
  <2>3. QED
    BY <1>2, <2>1, <2>2 DEF ReceiveInv
<1>6. HaloInv'
  <2>1. halo' = [p \in Proc |-> [f \in Field |-> [o \in Offset \ {Here} |->
                   Filled(p, pos'[p], f, o)]]]
    BY DEF FlowInv, HaloInv
  <2>2. QED
    BY <1>2, <2>1 DEF HaloInv
<1>7. QED
  BY <1>3, <1>4, <1>5, <1>6 DEF FlowInv

\* Sending and asking.
LEMMA StartFlow ==
  ASSUME PlaceInv, FlowInv, NEW p \in Proc, Start(p)
  PROVE  FlowInv'
<1>n. PICK n : n = Len(sent[p])
  OBVIOUS
<1>0. ASSUME NEW a \in MessagesOf(p), NEW b \in MessagesOf(p), sent'[p] = sent[p] \o <<a, b>>
      PROVE  /\ n \in Nat /\ DOMAIN sent[p] = 1..n
             /\ sent'[p] \in Seq(MessagesOf(p)) /\ DOMAIN sent'[p] = 1..(n + 2)
             /\ \A i \in 1..n : sent'[p][i] = sent[p][i]
             /\ sent'[p][n + 1] = a /\ sent'[p][n + 2] = b
  <2>1. sent[p] \in Seq(MessagesOf(p))
    BY DEF FlowInv, SentInv
  <2>2. QED
    BY <1>0, <1>n, <2>1, Appended
<1> PICK x : x = pos[p]
  OBVIOUS
<1> PICK a : a = MessageOf(p, x, TRUE)
  OBVIOUS
<1> PICK b : b = MessageOf(p, x, FALSE)
  OBVIOUS
<1>1. /\ D \in Setups /\ D' = D /\ x \in Exchange /\ x \in Place /\ x.dim \in Dim
      /\ Proc' = Proc /\ Exchange' = Exchange
  BY PosPlace, SameNames DEF Start, Exchange
<1>2. /\ at[p] = "start" /\ at'[p] = "wait" /\ pos' = pos /\ halo' = halo /\ inbox' = inbox
      /\ \A q \in Proc : q # p => at'[q] = at[q] /\ posted'[q] = posted[q] /\ sent'[q] = sent[q]
  BY DEF Start, PlaceInv, FlowInv, SentInv, ReceiveInv
<1>3. sent' = [q \in Proc |-> sent'[q]] /\ posted' = [q \in Proc |-> posted'[q]]
  BY DEF Start, FlowInv, SentInv, ReceiveInv
<1>4. sent'[p] = sent[p] \o <<a, b>>
  <2>1. Message(p, TRUE) = a /\ Message(p, FALSE) = b
    BY <1>2, SendsRight DEF FlowInv
  <2>2. QED
    BY <2>1 DEF Start, FlowInv, SentInv
<1>5. posted'[p] = {ReceiveOf(p, TRUE), ReceiveOf(p, FALSE)}
  <2>1. Receive(p, TRUE) = ReceiveOf(p, TRUE) /\ Receive(p, FALSE) = ReceiveOf(p, FALSE)
    BY Asking
  <2>2. QED
    BY <2>1 DEF Start, FlowInv, ReceiveInv
<1>6. ASSUME NEW q \in Proc, NEW y
      PROVE  Began(q, y)' <=> Began(q, y) \/ (q = p /\ y = x)
  <2>1. CASE q = p
    <3>1. Earlier(y, pos[q])' <=> Earlier(y, pos[q])
      BY <1>2 DEF Earlier
    <3>2. QED
      BY <1>2, <2>1, <3>1 DEF Began
  <2>2. CASE q # p
    BY <1>2, <2>2, SameProgress
  <2>3. QED
    BY <2>1, <2>2
<1>7. ASSUME NEW left \in BOOLEAN, NEW y
      PROVE  (Got(p, y, left)' <=> Earlier(y, x)) /\ (Got(p, y, left) <=> Earlier(y, x))
  <2>1. ReceiveOf(p, left) \in posted'[p] /\ ReceiveOf(p, left).left = left
    BY <1>5 DEF ReceiveOf
  <2>2. Earlier(y, pos[p])' <=> Earlier(y, x)
    BY <1>2 DEF Earlier
  <2>3. QED
    BY <1>2, <2>1, <2>2 DEF Got
<1>8. ASSUME NEW q \in Proc, NEW left \in BOOLEAN, NEW y
      PROVE  Got(q, y, left)' <=> Got(q, y, left)
  <2>1. CASE q = p
    BY <1>7, <2>1
  <2>2. CASE q # p
    BY <1>2, <2>2, SameProgress
  <2>3. QED
    BY <2>1, <2>2
<1>9. \A y : Began(p, y) <=> Earlier(y, x)
  BY <1>2 DEF Began
<1>10. sent[p] \in Seq(MessagesOf(p)) /\ a \in MessagesOf(p) /\ b \in MessagesOf(p)
  <2>1. sent[p] \in Seq(MessagesOf(p))
    BY DEF FlowInv, SentInv
  <2>2. \A left \in BOOLEAN : MessageOf(p, x, left) \in MessagesOf(p)
    BY <1>1 DEF MessagesOf
  <2>3. MessageOf(p, x, TRUE) \in MessagesOf(p) /\ MessageOf(p, x, FALSE) \in MessagesOf(p)
    BY <2>2, Zenon
  <2>4. QED
    BY <2>1, <2>3
<1>11. /\ n \in Nat /\ DOMAIN sent[p] = 1..n
       /\ sent'[p] \in Seq(MessagesOf(p)) /\ DOMAIN sent'[p] = 1..(n + 2)
       /\ \A i \in 1..n : sent'[p][i] = sent[p][i]
       /\ sent'[p][n + 1] = a /\ sent'[p][n + 2] = b
  BY <1>0, <1>4, <1>10
<1>12. a.at = x /\ b.at = x /\ a.left = TRUE /\ b.left = FALSE
  <2>1. /\ MessageOf(p, x, TRUE).at = x /\ MessageOf(p, x, TRUE).left = TRUE
        /\ MessageOf(p, x, FALSE).at = x /\ MessageOf(p, x, FALSE).left = FALSE
    BY DEF MessageOf
  <2>2. QED
    BY <2>1, Zenon
<1>13. SentInv'
  <2>1. ASSUME NEW i \in 1..n
        PROVE  Earlier(sent[p][i].at, x)
    <3>1. PICK y \in Exchange, m \in BOOLEAN : sent[p][i] = MessageOf(p, y, m) /\ Began(p, y)
      BY <1>11, UnderWay DEF FlowInv
    <3>2. QED
      BY <1>9, <3>1, MessageFields
  <2>2. ASSUME NEW i \in 1..(n + 2), NEW j \in 1..(n + 2), i < j
        PROVE  Follows(sent'[p][j], sent'[p][i])
    <3>1. CASE j <= n
      <4>1. i \in 1..n /\ j \in 1..n
        BY <1>11, <2>2, <3>1
      <4>2. QED
        BY <1>11, <2>2, <4>1 DEF FlowInv, SentInv
    <3>2. CASE j > n /\ i <= n
      <4>1. (j = n + 1 \/ j = n + 2) /\ i \in 1..n
        BY <1>11, <3>2
      <4>2. sent'[p][j].at = x /\ sent'[p][i] = sent[p][i]
        BY <1>11, <1>12, <4>1
      <4>3. QED
        BY <2>1, <4>1, <4>2 DEF Follows
    <3>3. CASE j > n /\ ~(i <= n)
      <4>1. i = n + 1 /\ j = n + 2
        BY <1>11, <2>2, <3>3
      <4>2. QED
        BY <1>11, <1>12, <4>1 DEF Follows
    <3>4. QED
      BY <1>11, <3>1, <3>2, <3>3
  <2>3. ASSUME NEW q \in Proc
        PROVE  /\ sent'[q] \in Seq(MessagesOf(q))
               /\ \A i, j \in DOMAIN sent'[q] : i < j => Follows(sent'[q][j], sent'[q][i])
    <3>1. CASE q = p
      BY <1>11, <2>2, <3>1
    <3>2. CASE q # p
      BY <1>2, <3>2 DEF FlowInv, SentInv
    <3>3. QED
      BY <3>1, <3>2
  <2>4. QED
    BY <1>1, <1>3, <2>3, SameNames DEF SentInv, Follows, Earlier
<1>14. FlightInv'
  <2>1. ASSUME NEW y, NEW left \in BOOLEAN
        PROVE  (\E i \in DOMAIN sent'[p] : sent'[p][i] = MessageOf(p, y, left))
                  <=> \/ \E i \in DOMAIN sent[p] : sent[p][i] = MessageOf(p, y, left)
                      \/ y = x
    <3>1. ASSUME NEW i \in 1..(n + 2), sent'[p][i] = MessageOf(p, y, left)
          PROVE  (\E k \in 1..n : sent[p][k] = MessageOf(p, y, left)) \/ y = x
      <4>1. i \in 1..n \/ i = n + 1 \/ i = n + 2
        BY <1>11
      <4>2. CASE i \in 1..n
        BY <1>11, <3>1, <4>2
      <4>3. CASE i = n + 1 \/ i = n + 2
        <5>1. sent'[p][i].at = x
          BY <1>11, <1>12, <4>3
        <5>2. QED
          BY <3>1, <5>1, MessageFields
      <4>4. QED
        BY <4>1, <4>2, <4>3
    <3>2. ASSUME NEW i \in 1..n, sent[p][i] = MessageOf(p, y, left)
          PROVE  \E k \in 1..(n + 2) : sent'[p][k] = MessageOf(p, y, left)
      <4>1. i \in 1..(n + 2)
        BY <1>11
      <4>2. QED
        BY <1>11, <3>2, <4>1
    <3>3. ASSUME y = x
          PROVE  \E k \in 1..(n + 2) : sent'[p][k] = MessageOf(p, y, left)
      <4>1. n + 1 \in 1..(n + 2) /\ n + 2 \in 1..(n + 2)
        BY <1>11
      <4>2. CASE left = TRUE
        BY <1>11, <3>3, <4>1, <4>2
      <4>3. CASE left = FALSE
        BY <1>11, <3>3, <4>1, <4>3
      <4>4. QED
        BY <4>2, <4>3
    <3>4. QED
      BY <1>11, <3>1, <3>2, <3>3
  <2>2. ASSUME NEW q \in Proc, NEW y \in Exchange, NEW left \in BOOLEAN,
               NEW z \in Proc, z = To(q, y.dim, left), NEW u \in Proc, u = From(q, y.dim, left)
        PROVE  /\ (\E i \in DOMAIN sent'[q] : sent'[q][i] = MessageOf(q, y, left))
                    <=> (Began(q, y)' /\ ~Got(z, y, left)')
               /\ Got(q, y, left)' => Began(u, y)'
    <3>1. /\ (\E i \in DOMAIN sent[q] : sent[q][i] = MessageOf(q, y, left))
               <=> (Began(q, y) /\ ~Got(z, y, left))
          /\ Got(q, y, left) => Began(u, y)
      BY <2>2 DEF FlowInv, FlightInv
    <3>2. Got(q, y, left)' => Began(u, y)'
      BY <1>6, <1>8, <3>1
    <3>3. CASE q # p
      BY <1>2, <1>6, <1>8, <3>1, <3>2, <3>3
    <3>4. CASE q = p
      <4>1. y = x => ~Got(z, y, left)
        <5>1. SUFFICES ASSUME y = x PROVE ~Got(z, x, left)
          OBVIOUS
        <5>2. From(z, x.dim, left) = p
          BY <1>1, <2>2, <3>4, <5>1, Partners
        <5>3. Got(z, x, left) => Began(p, x)
          BY <1>1, <5>2 DEF FlowInv, FlightInv
        <5>4. QED
          BY <1>1, <1>9, <5>3, Order
      <4>2. Began(q, y)' <=> Began(q, y) \/ y = x
        BY <1>6, <3>4
      <4>3. Got(z, y, left)' <=> Got(z, y, left)
        BY <1>8
      <4>4. QED
        BY <2>1, <3>1, <3>2, <3>4, <4>1, <4>2, <4>3
    <3>5. QED
      BY <3>3, <3>4
  <2>3. ASSUME NEW q \in Proc, NEW y \in Exchange, NEW left \in BOOLEAN
        PROVE  To(q, y.dim, left) \in Proc /\ From(q, y.dim, left) \in Proc
    BY <1>1, Partners DEF Exchange
  <2>4. QED
    BY <1>1, <2>2, <2>3, SameNames DEF FlightInv
<1>15. ReceiveInv'
  <2>1. Waits(p)'
    <3>1. ReceiveOf(p, TRUE)' = ReceiveOf(p, TRUE) /\ ReceiveOf(p, FALSE)' = ReceiveOf(p, FALSE)
      BY <1>1, <1>2, SameReceive
    <3>2. \A left \in BOOLEAN : ~Got(p, x, left)'
      BY <1>1, <1>7, Order
    <3>3. pos'[p] = x
      BY <1>2
    <3>4. QED
      BY <1>2, <1>5, <3>1, <3>2, <3>3 DEF Waits
  <2>2. ASSUME NEW q \in Proc, q # p PROVE Waits(q)'
    BY <1>1, <1>2, <2>2, SameWaits DEF FlowInv, ReceiveInv
  <2>3. inbox' = [q \in Proc |-> [left \in BOOLEAN |-> inbox'[q][left]]]
    BY <1>2 DEF FlowInv, ReceiveInv
  <2>4. QED
    BY <1>1, <1>3, <2>1, <2>2, <2>3 DEF ReceiveInv
<1>16. HaloInv'
  <2>1. halo' = [q \in Proc |-> [f \in Field |-> [o \in Offset \ {Here} |->
                   Filled(q, pos'[q], f, o)]]]
    BY <1>2 DEF FlowInv, HaloInv
  <2>2. QED
    BY <1>1, <2>1, SameNames DEF HaloInv
<1>17. QED
  BY <1>13, <1>14, <1>15, <1>16 DEF FlowInv

\* Receiving.
LEMMA MatchFlow ==
  ASSUME TagsSuffice, PlaceInv, FlowInv, NEW p \in Proc, NEW q \in Proc, Match(p, q)
  PROVE  FlowInv'
<1>1. PICK r \in posted[q] :
        /\ Fits(p, q, r) # {}
        /\ inbox' = [inbox EXCEPT ![q][r.left] = sent[p][First(Fits(p, q, r))].cells]
        /\ sent' = [sent EXCEPT ![p] = RemoveAt(@, First(Fits(p, q, r)))]
        /\ posted' = [posted EXCEPT ![q] = @ \ {r}]
        /\ UNCHANGED <<D, pos, at, halo, entered, mpi>>
  BY DEF Match
<1>n. PICK n : n = Len(sent[p])
  OBVIOUS
<1>2. ASSUME NEW j \in DOMAIN sent[p], NEW u, u = RemoveAt(sent[p], j)
      PROVE  /\ n \in Nat /\ DOMAIN sent[p] = 1..n /\ j \in 1..n
             /\ u \in Seq(MessagesOf(p)) /\ DOMAIN u = 1..(n - 1)
             /\ \A i \in 1..(n - 1) : u[i] = sent[p][IF i < j THEN i ELSE i + 1]
  <2>1. sent[p] \in Seq(MessagesOf(p))
    BY DEF FlowInv, SentInv
  <2>2. n \in Nat /\ DOMAIN sent[p] = 1..n
    BY <1>n, <2>1, LenProperties
  <2>3. /\ u \in Seq(MessagesOf(p)) /\ Len(u) = n - 1
        /\ \A i \in 1..(n - 1) : u[i] = sent[p][IF i < j THEN i ELSE i + 1]
    BY <1>2, <1>n, <2>1, Removed
  <2>4. DOMAIN u = 1..(n - 1)
    BY <2>3, LenProperties
  <2>5. QED
    BY <2>2, <2>3, <2>4
<1> PICK x : x = pos[q]
  OBVIOUS
<1> PICK left : left = r.left
  OBVIOUS
<1> PICK j : j = First(Fits(p, q, r))
  OBVIOUS
<1>3. /\ D \in Setups /\ D' = D /\ x \in Exchange /\ x \in Place /\ x.dim \in Dim
      /\ left \in BOOLEAN /\ r = ReceiveOf(q, left) /\ at[q] = "wait" /\ ~Got(q, x, left)
      /\ Proc' = Proc /\ Exchange' = Exchange
  BY <1>1, Asked, PosPlace, SameNames DEF FlowInv, Exchange
<1>4. /\ p = From(q, x.dim, left) /\ Began(p, x) /\ j \in DOMAIN sent[p]
      /\ sent[p][j] = MessageOf(p, x, left)
  BY <1>1, FirstIsOwn DEF FlowInv
<1>5. /\ pos' = pos /\ at' = at /\ halo' = halo
      /\ sent' = [u \in Proc |-> sent'[u]] /\ posted' = [u \in Proc |-> posted'[u]]
      /\ \A u \in Proc : u # p => sent'[u] = sent[u]
      /\ \A u \in Proc : u # q => posted'[u] = posted[u] /\ inbox'[u] = inbox[u]
      /\ sent'[p] = RemoveAt(sent[p], j) /\ posted'[q] = posted[q] \ {r}
  BY <1>1 DEF FlowInv, SentInv, ReceiveInv
<1>6. /\ inbox' = [u \in Proc |-> [m \in BOOLEAN |-> inbox'[u][m]]]
      /\ inbox'[q][left] = CellsOf(p, x)
      /\ \A m \in BOOLEAN : m # left => inbox'[q][m] = inbox[q][m]
  <2>1. sent[p][j].cells = CellsOf(p, x)
    BY <1>4, MessageFields
  <2>2. inbox' = [inbox EXCEPT ![q][left] = CellsOf(p, x)]
    BY <1>1, <2>1
  <2>3. inbox = [u \in Proc |-> [m \in BOOLEAN |-> inbox[u][m]]]
    BY DEF FlowInv, ReceiveInv
  <2>4. QED
    BY <1>3, <2>2, <2>3
<1>7. /\ n \in Nat /\ DOMAIN sent[p] = 1..n /\ j \in 1..n
      /\ sent'[p] \in Seq(MessagesOf(p)) /\ DOMAIN sent'[p] = 1..(n - 1)
      /\ \A i \in 1..(n - 1) : sent'[p][i] = sent[p][IF i < j THEN i ELSE i + 1]
  BY <1>2, <1>4, <1>5
<1>8. \A u \in Proc : \A y : Began(u, y)' <=> Began(u, y)
  BY <1>5, SameProgress
<1>9. ASSUME NEW u \in Proc, NEW y, NEW m \in BOOLEAN
      PROVE  Got(u, y, m)' <=> Got(u, y, m) \/ (u = q /\ y = x /\ m = left)
  <2>1. CASE u # q
    BY <1>5, <2>1, SameProgress
  <2>2. CASE u = q
    <3>1. Earlier(y, pos[q])' <=> Earlier(y, x)
      BY <1>5 DEF Earlier
    <3>2. Got(q, y, m)' <=> Earlier(y, x) \/ (y = x /\ \A h \in posted'[q] : h.left # m)
      BY <1>3, <1>5, <3>1 DEF Got
    <3>3. Got(q, y, m) <=> Earlier(y, x) \/ (y = x /\ \A h \in posted[q] : h.left # m)
      BY <1>3 DEF Got
    <3>4. CASE m = left
      <4>1. ASSUME NEW h \in posted'[q] PROVE h.left # left
        <5>1. h \in posted[q] /\ h # r
          BY <1>5
        <5>2. h = ReceiveOf(q, h.left)
          BY <5>1, Asked DEF FlowInv
        <5>3. QED
          BY <1>3, <5>1, <5>2
      <4>2. QED
        BY <2>2, <3>2, <3>3, <3>4, <4>1
    <3>5. CASE m # left
      <4>1. \A h \in posted[q] : h = r => h.left # m
        BY <3>5
      <4>2. (\A h \in posted'[q] : h.left # m) <=> (\A h \in posted[q] : h.left # m)
        BY <1>5, <4>1
      <4>3. QED
        BY <2>2, <3>2, <3>3, <3>5, <4>2
    <3>6. QED
      BY <3>4, <3>5
  <2>3. QED
    BY <2>1, <2>2
<1>10. SentInv'
  <2>1. ASSUME NEW i \in 1..(n - 1), NEW k \in 1..(n - 1), i < k
        PROVE  Follows(sent'[p][k], sent'[p][i])
    <3> PICK g : g = IF i < j THEN i ELSE i + 1
      OBVIOUS
    <3> PICK h : h = IF k < j THEN k ELSE k + 1
      OBVIOUS
    <3>1. g \in 1..n /\ h \in 1..n /\ g < h
      BY <1>7, <2>1
    <3>2. sent'[p][i] = sent[p][g] /\ sent'[p][k] = sent[p][h]
      BY <1>7
    <3>3. QED
      BY <1>7, <3>1, <3>2 DEF FlowInv, SentInv
  <2>2. ASSUME NEW u \in Proc
        PROVE  /\ sent'[u] \in Seq(MessagesOf(u))
               /\ \A i, k \in DOMAIN sent'[u] : i < k => Follows(sent'[u][k], sent'[u][i])
    <3>1. CASE u = p
      BY <1>7, <2>1, <3>1
    <3>2. CASE u # p
      BY <1>5, <3>2 DEF FlowInv, SentInv
    <3>3. QED
      BY <3>1, <3>2
  <2>3. QED
    BY <1>3, <1>5, <2>2, SameNames DEF SentInv, Follows, Earlier
<1>11. ASSUME NEW i \in 1..n, sent[p][i] = MessageOf(p, x, left)
       PROVE  i = j
  <2>1. ~Follows(MessageOf(p, x, left), MessageOf(p, x, left))
    BY <1>3, Order, MessageFields DEF Follows
  <2>2. i < j \/ i = j \/ j < i
    BY <1>7
  <2>3. QED
    BY <1>4, <1>7, <1>11, <2>1, <2>2 DEF FlowInv, SentInv
<1>12. ASSUME NEW y, NEW m
       PROVE  (\E i \in DOMAIN sent'[p] : sent'[p][i] = MessageOf(p, y, m))
                <=> /\ \E i \in DOMAIN sent[p] : sent[p][i] = MessageOf(p, y, m)
                    /\ ~(y = x /\ m = left)
  <2>1. ASSUME NEW i \in 1..(n - 1), sent'[p][i] = MessageOf(p, y, m)
        PROVE  /\ \E k \in 1..n : sent[p][k] = MessageOf(p, y, m)
               /\ ~(y = x /\ m = left)
    <3> PICK g : g = IF i < j THEN i ELSE i + 1
      OBVIOUS
    <3>1. g \in 1..n /\ g # j /\ sent[p][g] = MessageOf(p, y, m)
      BY <1>7, <2>1
    <3>2. QED
      BY <1>11, <3>1
  <2>2. ASSUME NEW k \in 1..n, sent[p][k] = MessageOf(p, y, m), ~(y = x /\ m = left)
        PROVE  \E i \in 1..(n - 1) : sent'[p][i] = MessageOf(p, y, m)
    <3>1. k # j
      BY <1>4, <2>2, MessageFields
    <3> PICK i : i = IF k < j THEN k ELSE k - 1
      OBVIOUS
    <3>2. i \in 1..(n - 1) /\ k = IF i < j THEN i ELSE i + 1
      BY <1>7, <3>1
    <3>3. QED
      BY <1>7, <2>2, <3>2
  <2>3. QED
    BY <1>7, <2>1, <2>2
<1>13. FlightInv'
  <2>1. ASSUME NEW u \in Proc, NEW y \in Exchange, NEW m \in BOOLEAN,
               NEW z \in Proc, z = To(u, y.dim, m), NEW v \in Proc, v = From(u, y.dim, m)
        PROVE  /\ (\E i \in DOMAIN sent'[u] : sent'[u][i] = MessageOf(u, y, m))
                    <=> (Began(u, y)' /\ ~Got(z, y, m)')
               /\ Got(u, y, m)' => Began(v, y)'
    <3>1. /\ (\E i \in DOMAIN sent[u] : sent[u][i] = MessageOf(u, y, m))
               <=> (Began(u, y) /\ ~Got(z, y, m))
          /\ Got(u, y, m) => Began(v, y)
      BY <2>1 DEF FlowInv, FlightInv
    <3>2. Got(u, y, m)' => Began(v, y)'
      BY <1>4, <1>8, <1>9, <2>1, <3>1
    <3>3. y = x /\ m = left => (z = q <=> u = p)
      BY <1>3, <1>4, <2>1, Partners
    <3>4. CASE u # p
      BY <1>5, <1>8, <1>9, <3>1, <3>2, <3>3, <3>4
    <3>5. CASE u = p
      <4>1. Got(z, y, m)' <=> Got(z, y, m) \/ (y = x /\ m = left)
        BY <1>9, <3>3, <3>5
      <4>2. QED
        BY <1>8, <1>12, <3>1, <3>2, <3>5, <4>1
    <3>6. QED
      BY <3>4, <3>5
  <2>2. ASSUME NEW u \in Proc, NEW y \in Exchange, NEW m \in BOOLEAN
        PROVE  To(u, y.dim, m) \in Proc /\ From(u, y.dim, m) \in Proc
    BY <1>3, Partners DEF Exchange
  <2>3. QED
    BY <1>3, <2>1, <2>2, SameNames DEF FlightInv
<1>14. ReceiveInv'
  <2>1. Waits(q)'
    <3>1. ReceiveOf(q, TRUE)' = ReceiveOf(q, TRUE) /\ ReceiveOf(q, FALSE)' = ReceiveOf(q, FALSE)
      BY <1>3, <1>5, SameReceive
    <3>2. posted'[q] \subseteq {ReceiveOf(q, TRUE)', ReceiveOf(q, FALSE)'}
      BY <1>5, <3>1 DEF FlowInv, ReceiveInv, Waits
    <3>3. ASSUME NEW m \in BOOLEAN, Got(q, x, m)'
          PROVE  inbox'[q][m] = CellsOf(From(q, x.dim, m), x)'
      <4>1. CASE m = left
        <5>1. inbox'[q][m] = CellsOf(From(q, x.dim, m), x)
          BY <1>4, <1>6, <4>1, Zenon
        <5>2. QED
          BY <1>3, <5>1, SameNames
      <4>2. CASE m # left
        <5>1. Got(q, x, m)
          BY <1>9, <3>3, <4>2
        <5>2. inbox[q][m] = CellsOf(From(q, x.dim, m), x)
          BY <5>1 DEF FlowInv, ReceiveInv, Waits
        <5>3. QED
          BY <1>3, <1>6, <4>2, <5>2, SameNames
      <4>3. QED
        BY <4>1, <4>2
    <3>4. QED
      BY <1>3, <1>5, <3>2, <3>3 DEF Waits
  <2>2. ASSUME NEW u \in Proc, u # q PROVE Waits(u)'
    BY <1>3, <1>5, <2>2, SameWaits DEF FlowInv, ReceiveInv
  <2>3. QED
    BY <1>3, <1>5, <1>6, <2>1, <2>2 DEF ReceiveInv
<1>15. HaloInv'
  <2>1. halo' = [u \in Proc |-> [f \in Field |-> [o \in Offset \ {Here} |->
                   Filled(u, pos'[u], f, o)]]]
    BY <1>5 DEF FlowInv, HaloInv
  <2>2. QED
    BY <1>3, <2>1, SameNames DEF HaloInv
<1>16. QED
  BY <1>10, <1>13, <1>14, <1>15 DEF FlowInv

\* Unpacking, and going on.
LEMMA FinishFlow ==
  ASSUME PlaceInv, FlowInv, NEW p \in Proc, Finish(p)
  PROVE  FlowInv'
<1> PICK x : x = pos[p]
  OBVIOUS
<1> PICK z : z = Advance(x)
  OBVIOUS
<1>1. /\ D \in Setups /\ D' = D /\ x \in Exchange /\ x \in Place
      /\ Proc' = Proc /\ Exchange' = Exchange /\ Field' = Field
  BY PosPlace, SameNames DEF Finish
<1>2. z \in Place
  <2>1. x.step # LastStep + 1
    BY <1>1, PlaceTriple
  <2>2. QED
    BY <1>1, <2>1, AdvanceStep DEF Place
<1>3. /\ at[p] = "wait" /\ posted[p] = {} /\ sent' = sent /\ posted' = posted
      /\ halo' = [halo EXCEPT ![p][x.field] = Unpacked(p)]
      /\ inbox' = [inbox EXCEPT ![p] = [left \in BOOLEAN |-> Empty]]
      /\ pos' = [pos EXCEPT ![p] = z] /\ pos'[p] = z
      /\ \A q \in Proc : q # p => pos'[q] = pos[q] /\ at'[q] = at[q] /\ inbox'[q] = inbox[q]
  BY DEF Finish, PlaceInv
<1>4. at'[p] # "wait"
  BY DEF Finish, PlaceInv, Before
<1>5. \A q \in Proc : q # p => (at'[q] = "wait" <=> at[q] = "wait")
  BY <1>3
<1>6. ASSUME NEW q \in Proc, NEW y \in Exchange
      PROVE  /\ Began(q, y)' <=> Began(q, y)
             /\ \A m : Got(q, y, m)' <=> Got(q, y, m)
  <2>1. CASE q # p
    BY <1>3, <2>1, SameProgress
  <2>2. CASE q = p
    <3>1. Earlier(y, pos[p])' <=> Earlier(y, z)
      BY <1>3 DEF Earlier
    <3>2. Earlier(y, z) <=> Earlier(y, x) \/ y = x
      BY <1>1, ExchangePlace, AdvanceOrder
    <3>3. QED
      BY <1>3, <1>4, <2>2, <3>1, <3>2 DEF Began, Got
  <2>3. QED
    BY <2>1, <2>2
<1>7. SentInv'
  BY <1>1, <1>3, SameNames DEF FlowInv, SentInv, Follows, Earlier
<1>8. FlightInv'
  BY <1>1, <1>3, <1>6, SameFlight DEF FlowInv
<1>9. ReceiveInv'
  <2>1. Waits(p)'
    <3>1. ~Earlier(z, z)
      BY <1>1, <1>2, Order
    <3>2. Earlier(pos[p], pos[p])' <=> Earlier(z, z)
      BY <1>3 DEF Earlier
    <3>3. \A m : ~Got(p, pos[p], m)'
      BY <1>4, <3>1, <3>2 DEF Got
    <3>4. QED
      BY <1>3, <3>3 DEF Waits
  <2>2. ASSUME NEW q \in Proc, q # p PROVE Waits(q)'
    BY <1>1, <1>3, <2>2, SameWaits DEF FlowInv, ReceiveInv
  <2>3. /\ posted' = [q \in Proc |-> posted'[q]]
        /\ inbox' = [q \in Proc |-> [m \in BOOLEAN |-> inbox'[q][m]]]
    BY <1>3 DEF FlowInv, ReceiveInv
  <2>4. QED
    BY <1>1, <2>1, <2>2, <2>3 DEF ReceiveInv
<1>10. HaloInv'
  <2>1. Unpacked(p) = [o \in Offset \ {Here} |-> Filled(p, z, x.field, o)]
    BY <1>3, UnpacksRight
  <2>2. ASSUME NEW f \in Field, f # x.field, NEW o \in Offset \ {Here}
        PROVE  Filled(p, z, f, o) = Filled(p, x, f, o)
    <3>1. StepOf(z, f, o) = StepOf(x, f, o)
      BY <1>1, <2>2, AdvanceFills
    <3>2. QED
      BY <3>1 DEF Filled
  <2>3. halo' = [q \in Proc |-> [f \in Field |-> [o \in Offset \ {Here} |->
                   Filled(q, pos'[q], f, o)]]]
    <3>1. ASSUME NEW q \in Proc, NEW f \in Field
          PROVE  halo'[q][f] = [o \in Offset \ {Here} |-> Filled(q, pos'[q], f, o)]
      <4>1. halo[q][f] = [o \in Offset \ {Here} |-> Filled(q, pos[q], f, o)]
        BY DEF FlowInv, HaloInv
      <4>2. CASE q = p /\ f = x.field
        <5>1. halo'[q][f] = Unpacked(p)
          BY <1>3, <4>2 DEF FlowInv, HaloInv
        <5>2. QED
          BY <1>3, <2>1, <4>2, <5>1
      <4>3. CASE q = p /\ f # x.field
        <5>1. halo'[q][f] = halo[q][f]
          BY <1>3, <4>3 DEF FlowInv, HaloInv
        <5>2. QED
          BY <1>3, <2>2, <4>1, <4>3, <5>1
      <4>4. CASE q # p
        <5>1. halo'[q][f] = halo[q][f]
          BY <1>3, <4>4 DEF FlowInv, HaloInv
        <5>2. QED
          BY <1>3, <4>1, <4>4, <5>1
      <4>5. QED
        BY <4>2, <4>3, <4>4
    <3>2. halo' = [q \in Proc |-> [f \in Field |-> halo'[q][f]]]
      BY <1>3 DEF FlowInv, HaloInv
    <3>3. QED
      BY <3>1, <3>2
  <2>4. QED
    BY <1>1, <2>3, SameNames DEF HaloInv
<1>11. QED
  BY <1>7, <1>8, <1>9, <1>10 DEF FlowInv

\* Nothing has been sent, asked for or filled.
LEMMA InitFlow == Init => FlowInv
<1> SUFFICES ASSUME Init PROVE FlowInv
  OBVIOUS
<1> PICK x : x = [step |-> 1, field |-> 0, dim |-> 1]
  OBVIOUS
<1>1. /\ D \in Setups /\ LastStep \in Nat /\ D.fields \in Nat \ {0}
      /\ sent = [p \in Proc |-> <<>>] /\ posted = [p \in Proc |-> {}]
      /\ inbox = [p \in Proc |-> [left \in BOOLEAN |-> Empty]]
      /\ \A p \in Proc : pos[p] = x
  BY Grids, StepBounds DEF Init
<1>2. \A p \in Proc : at[p] = "start"
  BY StepBounds DEF Init, Before
<1>3. x \in Place
  BY <1>1 DEF Place, Field, Dim
<1>4. ASSUME NEW y \in Place PROVE ~Earlier(y, x)
  BY <1>1, PlaceTriple DEF Earlier
<1>5. ASSUME NEW p \in Proc, NEW y \in Place, NEW left
      PROVE  ~Began(p, y) /\ ~Got(p, y, left)
  BY <1>1, <1>2, <1>4 DEF Began, Got
<1>6. SentInv
  <2>1. \A p \in Proc : sent[p] = <<>>
    BY <1>1
  <2>2. \A S : <<>> \in Seq(S) /\ DOMAIN <<>> = {}
    OBVIOUS
  <2>3. sent = [p \in Proc |-> sent[p]]
    BY <1>1
  <2>4. \A p \in Proc : sent[p] \in Seq(MessagesOf(p)) /\ DOMAIN sent[p] = {}
    BY <2>1, <2>2, Zenon
  <2>5. QED
    BY <2>3, <2>4, Zenon DEF SentInv
<1>7. FlightInv
  <2>1. \A p \in Proc : DOMAIN sent[p] = {}
    BY <1>1
  <2>2. QED
    BY <1>5, <2>1, ExchangePlace DEF FlightInv
<1>8. ReceiveInv
  <2>1. \A q \in Proc : posted[q] = {} /\ pos[q] \in Place
    BY <1>1, <1>3
  <2>2. \A q \in Proc : Waits(q)
    BY <1>2, <1>5, <2>1 DEF Waits
  <2>3. posted = [q \in Proc |-> posted[q]]
        /\ inbox = [q \in Proc |-> [left \in BOOLEAN |-> inbox[q][left]]]
    BY <1>1
  <2>4. QED
    BY <2>2, <2>3 DEF ReceiveInv
<1>9. HaloInv
  <2>1. ASSUME NEW p \in Proc, NEW f \in Field, NEW o \in Offset \ {Here}
        PROVE  Filled(p, pos[p], f, o) = Empty
    <3>1. LastDim(o) >= 1 /\ f >= 0
      BY Offsets DEF Dim, Field
    <3>2. StepOf(x, f, o) = 0
      BY <3>1, Offsets DEF StepOf, Field, Dim
    <3>3. QED
      BY <1>1, <3>2 DEF Filled
  <2>2. halo = [p \in Proc |-> [f \in Field |-> [o \in Offset \ {Here} |-> Empty]]]
    BY DEF Init
  <2>3. QED
    BY <2>1, <2>2 DEF HaloInv
<1>10. QED
  BY <1>6, <1>7, <1>8, <1>9 DEF FlowInv

LEMMA NextFlow == TagsSuffice /\ PlaceInv /\ FlowInv /\ [Next]_vars => FlowInv'
<1> SUFFICES ASSUME TagsSuffice, PlaceInv, FlowInv, [Next]_vars PROVE FlowInv'
  OBVIOUS
<1>1. ASSUME NEW p \in Proc, BarrierEnter(p) \/ BarrierLeave(p)
                             \/ MpiBarrierEnter(p) \/ MpiBarrierLeave(p)
      PROVE  FlowInv'
  <2>1. /\ D' = D /\ pos' = pos /\ halo' = halo /\ sent' = sent /\ posted' = posted
        /\ inbox' = inbox
    BY <1>1 DEF BarrierEnter, BarrierLeave, MpiBarrierEnter, MpiBarrierLeave
  <2>2. PICK a : a # "wait" /\ at' = [at EXCEPT ![p] = a]
    BY <1>1 DEF BarrierEnter, BarrierLeave, MpiBarrierEnter, MpiBarrierLeave
  <2>3. at[p] # "wait"
    BY <1>1 DEF BarrierEnter, BarrierLeave, MpiBarrierEnter, MpiBarrierLeave
  <2>4. \A q \in Proc : at'[q] = "wait" <=> at[q] = "wait"
    BY <2>2, <2>3 DEF PlaceInv
  <2>5. QED
    BY <2>1, <2>4, QuietFlow
<1>2. ASSUME UNCHANGED vars PROVE FlowInv'
  BY <1>2, QuietFlow DEF vars
<1>3. QED
  BY <1>1, <1>2, StartFlow, FinishFlow, MatchFlow DEF Next, Step, Done

(***************************************************************************)
(* The invariant holds if tags suffice.                                     *)
(***************************************************************************)
THEOREM FlowInvariance == ASSUME TagsSuffice PROVE Spec => [](PlaceInv /\ FlowInv)
<1>1. Init => FlowInv
  BY InitFlow
<1>2. IInv /\ FlowInv /\ [Next]_vars => FlowInv'
  BY NextFlow DEF IInv
<1>3. Spec => []IInv
  BY Invariance
<1>4. IInv => PlaceInv
  BY DEF IInv
<1>5. QED
  BY <1>1, <1>2, <1>3, <1>4, PTL DEF Spec

-----------------------------------------------------------------------------
(***************************************************************************)
(* What the invariant says of the program.                                   *)
(***************************************************************************)
LEMMA Tell == TagsSuffice /\ PlaceInv /\ FlowInv => TagsTell
<1> SUFFICES ASSUME TagsSuffice, PlaceInv, FlowInv, NEW p \in Proc, NEW q \in Proc,
                    NEW r \in posted[q], Fits(p, q, r) # {},
                    NEW m, m = sent[p][First(Fits(p, q, r))],
                    NEW n, n = Source(m_neighbors(q), pos[q].dim, r.left)
             PROVE  p = <<n.rank, n.thread>> /\ m.left = r.left /\ m.at = pos[q]
  BY DEF TagsTell
<1>1. D \in Setups /\ pos[q] \in Exchange /\ pos[q].dim \in Dim /\ r.left \in BOOLEAN
  BY Asked, PosPlace DEF FlowInv, Exchange
<1>2. p = From(q, pos[q].dim, r.left) /\ m = MessageOf(p, pos[q], r.left)
  BY FirstIsOwn DEF FlowInv
<1>3. n.rank = From(q, pos[q].dim, r.left)[1] /\ n.thread = From(q, pos[q].dim, r.left)[2]
  BY <1>1, NeighborsOf
<1>4. p = <<p[1], p[2]>>
  BY <1>1, Threads
<1>5. p = <<n.rank, n.thread>>
  BY <1>2, <1>3, <1>4
<1>6. m.left = r.left /\ m.at = pos[q]
  BY <1>2 DEF MessageOf
<1>7. QED
  BY <1>5, <1>6

\* At the beginning of a step all halos are of the step before.
LEMMA Complete == PlaceInv /\ FlowInv => HalosComplete
<1> SUFFICES ASSUME PlaceInv, FlowInv, NEW p \in Proc,
                    pos[p].step > 1, pos[p].field = 0, pos[p].dim = 1,
                    NEW f \in Field, NEW o \in Offset \ {Here},
                    NEW c, c = m_neighbors(p).d.coord
             PROVE  halo[p][f][o] = <<<<Wrap(D, 1, c[1] + o[1]), Wrap(D, 2, c[2] + o[2]),
                                        Wrap(D, 3, c[3] + o[3])>>, f, pos[p].step - 1>>
  BY DEF HalosComplete
<1>1. D \in Setups /\ pos[p].step \in Nat
  BY PlaceOf DEF PlaceInv
<1>2. StepOf(pos[p], f, o) = pos[p].step - 1
  <2>1. f \in Int /\ f >= 0 /\ LastDim(o) \in 1..3
    BY Offsets DEF Field, Dim
  <2>2. QED
    BY <2>1 DEF StepOf
<1>3. halo[p][f][o] = Filled(p, pos[p], f, o)
  BY DEF FlowInv, HaloInv
<1>4. pos[p].step - 1 # 0
  BY <1>1
<1>5. c = BlockOf(p)
  BY <1>1, NeighborsOf
<1>6. QED
  BY <1>2, <1>3, <1>4, <1>5 DEF Filled, Side

\* When all are done all have received what was sent.
LEMMA Delivered == PlaceInv /\ FlowInv => NothingLeftOver
<1> SUFFICES ASSUME PlaceInv, FlowInv, AllDone, NEW p \in Proc PROVE sent[p] = <<>>
  BY DEF NothingLeftOver
<1>1. sent[p] \in Seq(MessagesOf(p)) /\ D \in Setups
  BY DEF FlowInv, SentInv, PlaceInv
<1>2. ASSUME NEW i \in DOMAIN sent[p] PROVE FALSE
  <2>1. PICK x \in Exchange, left \in BOOLEAN :
          Began(p, x) /\ ~Got(To(p, x.dim, left), x, left)
    BY UnderWay DEF FlowInv
  <2>2. To(p, x.dim, left) \in Proc
    BY <1>1, Partners DEF Exchange
  <2>3. ASSUME NEW q \in Proc PROVE Earlier(x, pos[q])
    <3>1. pos[q].step = LastStep + 1
      BY DEF PlaceInv, AllDone
    <3>2. x.step \in Nat /\ x.step < LastStep + 1
      BY StepBounds DEF Exchange
    <3>3. QED
      BY <3>1, <3>2 DEF Earlier
  <2>4. QED
    BY <2>1, <2>2, <2>3 DEF Got
<1>3. QED
  <2>1. Len(sent[p]) \in Nat /\ DOMAIN sent[p] = 1..Len(sent[p])
    BY <1>1, LenProperties
  <2>2. Len(sent[p]) = 0
    <3>1. Len(sent[p]) > 0 => 1 \in DOMAIN sent[p]
      BY <2>1
    <3>2. QED
      BY <1>2, <2>1, <3>1
  <2>3. QED
    BY <1>1, <2>2, EmptySeq

(***************************************************************************)
(* A receive is given the message it is for (the tags of                     *)
(* mpi_comm/runtime.cpp:181-185), if there are no more fields than threads of  *)
(* a rank or a rank has one thread.                                         *)
(***************************************************************************)
THEOREM ReceivesAreTold == ASSUME TagsSuffice PROVE Spec => []TagsTell
BY FlowInvariance, Tell, PTL

(***************************************************************************)
(* Under the same condition all halo regions, edges and corners too, hold      *)
(* what they should after every step (runtime::exchange, impl::step).         *)
(***************************************************************************)
THEOREM HalosAlwaysComplete == ASSUME TagsSuffice PROVE Spec => []HalosComplete
BY FlowInvariance, Complete, PTL

(***************************************************************************)
(* Under the same condition no message is left over at the end.              *)
(***************************************************************************)
THEOREM AllDelivered == ASSUME TagsSuffice PROVE Spec => []NothingLeftOver
BY FlowInvariance, Delivered, PTL

-----------------------------------------------------------------------------
(***************************************************************************)
(* Nobody waits for ever: the guards of Progress, and that one of them holds.  *)
(***************************************************************************)
CanGoOn ==
    \/ \E p, q \in Proc : \E r \in posted[q] : Fits(p, q, r) # {}
    \/ \E p \in Proc :
         \/ at[p] \in {"start", "b1", "mpi", "b2"}
         \/ at[p] = "wait" /\ posted[p] = {} /\ SendsDone(p)
         \/ /\ at[p] \in {"b1in", "b2in"}
            /\ \A t \in Tid(D) : entered[<<p[1], t>>] >= entered[p]
         \/ at[p] = "mpiin" /\ \A r \in Rank(D) : mpi[r] >= mpi[p[1]]

\* Some thread is behind no other.
LEMMA Hindmost ==
  ASSUME PlaceInv, Proc # {}
  PROVE  \E p \in Proc : \A q \in Proc : ~Earlier(pos[q], pos[p])
<1>1. ASSUME NEW p \in Proc
      PROVE  pos[p].step \in Nat /\ pos[p].field \in Nat /\ pos[p].dim \in Nat
  <2>1. pos[p] \in Place /\ D \in Setups
    BY PosPlace
  <2>2. QED
    BY <2>1, PlaceTriple
<1>2. PICK a \in Proc : \A q \in Proc : pos[a].step <= pos[q].step
  <2> DEFINE S == {pos[q].step : q \in Proc}
  <2>1. S \subseteq Nat /\ S # {}
    BY <1>1
  <2>2. \E s \in S : \A k \in S : s <= k
    <3> HIDE DEF S
    <3>1. QED
      BY <2>1, LeastElement
  <2>3. QED
    BY <2>2
<1>3. PICK b \in Proc :
        /\ pos[b].step = pos[a].step
        /\ \A q \in Proc : pos[q].step = pos[a].step => pos[b].field <= pos[q].field
  <2> DEFINE A == {q \in Proc : pos[q].step = pos[a].step}
             S == {pos[q].field : q \in A}
  <2>1. S \subseteq Nat /\ S # {}
    BY <1>1
  <2>2. \E s \in S : \A k \in S : s <= k
    <3> HIDE DEF S
    <3>1. QED
      BY <2>1, LeastElement
  <2>3. QED
    BY <2>2
<1>4. PICK c \in Proc :
        /\ pos[c].step = pos[a].step /\ pos[c].field = pos[b].field
        /\ \A q \in Proc : pos[q].step = pos[a].step /\ pos[q].field = pos[b].field
                             => pos[c].dim <= pos[q].dim
  <2> DEFINE A == {q \in Proc : pos[q].step = pos[a].step /\ pos[q].field = pos[b].field}
             S == {pos[q].dim : q \in A}
  <2>1. S \subseteq Nat /\ S # {}
    BY <1>1, <1>3
  <2>2. \E s \in S : \A k \in S : s <= k
    <3> HIDE DEF S
    <3>1. QED
      BY <2>1, LeastElement
  <2>3. QED
    BY <2>2
<1>5. \A q \in Proc : ~Earlier(pos[q], pos[c])
  BY <1>1, <1>2, <1>3, <1>4 DEF Earlier
<1>6. QED
  BY <1>5

\* The threads that are in the first step anyone is in are not all held up by
\* barriers.
LEMMA BarriersOpen ==
  ASSUME IInv, ~CanGoOn, NEW k \in Nat, k <= LastStep,
         \A q \in Proc : pos[q].step >= k
  PROVE  \A q \in Proc : pos[q].step = k => at[q] = "wait"
<1> DEFINE R == k - FreeSteps - 1
<1>1. PlaceInv /\ CountInv /\ D \in Setups
  BY DEF IInv, PlaceInv
<1>2. \A q \in Proc : at[q] \notin {"start", "b1", "mpi", "b2"}
  BY DEF CanGoOn
<1>3. ASSUME NEW q \in Proc, k > FreeSteps
      PROVE  /\ Rounds(q) \in Nat /\ Rounds(q) >= R
             /\ Rounds(q) = R <=> pos[q].step = k
             /\ pos[q].step = k =>
                  /\ at[q] \in {"wait", "b1in", "mpiin", "b2in"}
                  /\ at[q] = "wait" => Measuring(q)
  <2>1. /\ pos[q].step \in Nat /\ pos[q].step >= k /\ FreeSteps \in Nat /\ LastStep \in Nat
        /\ at[q] \in Places /\ Rounds(q) \in Nat
    BY <1>1, PlaceOf, StepBounds
  <2>2. at[q] = "done" <=> pos[q].step = LastStep + 1
    BY <1>1 DEF PlaceInv
  <2>3. QED
    BY <1>2, <1>3, <2>1, <2>2 DEF Rounds, Measuring, Places
<1>4. ASSUME NEW q \in Proc, pos[q].step = k, k > FreeSteps PROVE at[q] # "b1in"
  <2>1. SUFFICES ASSUME at[q] = "b1in" PROVE FALSE
    OBVIOUS
  <2>2. entered[q] = 2 * R + 1
    BY <1>1, <1>3, <1>4, <2>1 DEF CountInv
  <2>3. PICK t \in Tid(D) : ~(entered[<<q[1], t>>] >= entered[q])
    BY <2>1 DEF CanGoOn
  <2> PICK v : v = <<q[1], t>>
    OBVIOUS
  <2>4. v \in Proc
    BY <1>1, Threads
  <2>5. entered[v] \in Nat /\ entered[v] < 2 * R + 1
    BY <1>1, <2>2, <2>3, <2>4, PlaceOf
  <2>6. /\ entered[v] >= 2 * Rounds(v)
        /\ at[v] \in {"b1in", "mpiin", "b2in"} \/ Measuring(v) => entered[v] >= 2 * Rounds(v) + 1
    BY <1>1, <1>3, <1>4, <2>4 DEF CountInv
  <2>7. QED
    BY <1>3, <1>4, <2>4, <2>5, <2>6
<1>5. ASSUME NEW q \in Proc, pos[q].step = k, k > FreeSteps PROVE at[q] # "mpiin"
  <2>1. SUFFICES ASSUME at[q] = "mpiin" PROVE FALSE
    OBVIOUS
  <2>2. q = <<q[1], 0>> /\ q[1] \in Rank(D)
    <3>1. q[2] = 0
      BY <1>1, <2>1 DEF PlaceInv
    <3>2. QED
      BY <1>1, <3>1, Threads
  <2>3. mpi[q[1]] = R + 1
    BY <1>1, <1>3, <1>5, <2>1, <2>2 DEF CountInv
  <2>4. PICK r \in Rank(D) : ~(mpi[r] >= mpi[q[1]])
    BY <2>1 DEF CanGoOn
  <2> PICK v : v = <<r, 0>>
    OBVIOUS
  <2>5. v \in Proc
    BY <1>1, Threads
  <2>6. mpi[r] \in Nat /\ mpi[r] < R + 1
    BY <1>1, <2>2, <2>3, <2>4, <2>5, PlaceOf
  <2>7. /\ mpi[r] >= Rounds(v)
        /\ at[v] \in {"mpiin", "b2in"} \/ Measuring(v) => mpi[r] >= Rounds(v) + 1
    BY <1>1, <1>3, <1>5, <2>5 DEF CountInv
  <2>8. QED
    BY <1>3, <1>4, <1>5, <2>5, <2>6, <2>7
<1>6. ASSUME NEW q \in Proc, pos[q].step = k, k > FreeSteps PROVE at[q] # "b2in"
  <2>1. SUFFICES ASSUME at[q] = "b2in" PROVE FALSE
    OBVIOUS
  <2>2. entered[q] = 2 * R + 2
    BY <1>1, <1>3, <1>6, <2>1 DEF CountInv
  <2>3. PICK t \in Tid(D) : ~(entered[<<q[1], t>>] >= entered[q])
    BY <2>1 DEF CanGoOn
  <2> PICK v : v = <<q[1], t>>
    OBVIOUS
  <2>4. v \in Proc
    BY <1>1, Threads
  <2>5. entered[v] \in Nat /\ entered[v] < 2 * R + 2
    BY <1>1, <2>2, <2>3, <2>4, PlaceOf
  <2>6. /\ entered[v] >= 2 * Rounds(v)
        /\ at[v] = "b2in" \/ (Measuring(v) /\ at[v] = "wait") => entered[v] >= 2 * Rounds(v) + 2
    BY <1>1, <1>3, <1>6, <2>4 DEF CountInv
  <2>7. pos[v].step = k
    <3>1. Rounds(v) \in Nat /\ Rounds(v) >= R /\ R \in Int
      BY <1>3, <1>6, <2>4, StepBounds
    <3>2. Rounds(v) = R
      BY <2>5, <2>6, <3>1
    <3>3. QED
      BY <1>3, <1>6, <2>4, <3>2
  <2>8. Rounds(v) = R /\ (at[v] = "b2in" \/ (Measuring(v) /\ at[v] = "wait"))
    BY <1>3, <1>4, <1>5, <1>6, <2>4, <2>7
  <2>9. QED
    BY <2>5, <2>6, <2>8, StepBounds
<1>7. ASSUME NEW q \in Proc, pos[q].step = k PROVE at[q] = "wait"
  <2>1. CASE k > FreeSteps
    BY <1>3, <1>4, <1>5, <1>6, <1>7, <2>1
  <2>2. CASE ~(k > FreeSteps)
    <3>1. at[q] \in Places /\ LastStep \in Nat
      BY <1>1, PlaceOf, StepBounds
    <3>2. at[q] \notin InBarriers /\ at[q] # "done"
      BY <1>1, <1>7, <2>2, <3>1 DEF PlaceInv
    <3>3. QED
      BY <1>2, <3>1, <3>2 DEF Places, InBarriers
  <2>3. QED
    BY <2>1, <2>2
<1>8. QED
  BY <1>7

LEMMA GoesOn == IInv /\ FlowInv => AllDone \/ CanGoOn
<1> SUFFICES ASSUME IInv, FlowInv, ~AllDone, ~CanGoOn PROVE FALSE
  OBVIOUS
<1>1. PlaceInv /\ SentInv /\ FlightInv /\ ReceiveInv
  BY DEF IInv, FlowInv
<1>2. PICK p \in Proc : \A q \in Proc : ~Earlier(pos[q], pos[p])
  <2>1. Proc # {}
    BY DEF AllDone
  <2>2. QED
    BY <1>1, <2>1, Hindmost
<1> PICK x : x = pos[p]
  OBVIOUS
<1>3. D \in Setups /\ x \in Place /\ \A q \in Proc : pos[q] \in Place
  BY <1>1, PosPlace
<1>4. /\ x.step \in Nat /\ x.step <= LastStep
      /\ \A q \in Proc : pos[q].step >= x.step
  <2>1. x.step \in Nat /\ \A q \in Proc : pos[q].step \in Nat /\ pos[q].step <= LastStep + 1
    BY <1>3, PlaceTriple
  <2>2. \A q \in Proc : pos[q].step >= x.step
    BY <1>2, <2>1 DEF Earlier
  <2>3. PICK q \in Proc : at[q] # "done"
    BY DEF AllDone
  <2>4. pos[q].step # LastStep + 1
    BY <1>1, <2>3 DEF PlaceInv
  <2>5. QED
    BY <2>1, <2>2, <2>4, StepBounds
<1>5. ASSUME NEW q \in Proc
      PROVE  Earlier(x, pos[q]) \/ (pos[q] = x /\ at[q] = "wait")
  <2>1. Earlier(x, pos[q]) \/ pos[q] = x
    BY <1>2, <1>3, Order
  <2>2. pos[q] = x => at[q] = "wait"
    BY <1>4, BarriersOpen
  <2>3. QED
    BY <2>1, <2>2
<1>6. x \in Exchange /\ x.dim \in Dim /\ at[p] = "wait" /\ ~Earlier(x, x) /\ Began(p, x)
  <2>1. ~Earlier(x, x)
    BY <1>3, Order
  <2>2. at[p] = "wait"
    BY <1>5, <2>1
  <2>3. QED
    BY <1>1, <2>1, <2>2, PosPlace DEF Exchange, Began
<1>7. CASE posted[p] # {}
  <2>1. PICK r \in posted[p] : TRUE
    BY <1>7
  <2>2. r.left \in BOOLEAN
    BY <1>1, Asked
  <2> PICK n : n = From(p, x.dim, r.left)
    OBVIOUS
  <2>3. n \in Proc
    BY <1>3, <1>6, <2>2, Partners
  <2>4. Began(n, x)
    BY <1>5, <2>3 DEF Began
  <2>5. Fits(n, p, r) # {}
    BY <1>1, <2>3, <2>4, OwnFits
  <2>6. QED
    BY <2>3, <2>5 DEF CanGoOn
<1>8. CASE posted[p] = {}
  <2>1. PICK i \in DOMAIN sent[p] : sent[p][i].at = x
    BY <1>6, <1>8 DEF CanGoOn, SendsDone
  <2>2. PICK y \in Exchange, m \in BOOLEAN :
          sent[p][i] = MessageOf(p, y, m) /\ ~Got(To(p, y.dim, m), y, m)
    BY <1>1, UnderWay
  <2>3. y = x
    BY <2>1, <2>2, MessageFields
  <2> PICK q : q = To(p, x.dim, m)
    OBVIOUS
  <2>4. q \in Proc /\ From(q, x.dim, m) = p /\ ~Got(q, x, m)
    BY <1>3, <1>6, <2>2, <2>3, Partners
  <2>5. pos[q] = x /\ \E r \in posted[q] : r.left = m
    BY <1>5, <2>4 DEF Got
  <2>6. PICK r \in posted[q] : r.left = m
    BY <2>5
  <2>7. Fits(p, q, r) # {}
    BY <1>1, <1>6, <2>4, <2>5, <2>6, OwnFits
  <2>8. QED
    BY <2>4, <2>7 DEF CanGoOn
<1>9. QED
  BY <1>7, <1>8

(***************************************************************************)
(* Until all threads are done the guard of a step that needs no buffering by   *)
(* MPI holds (neighborhood::exchange and main_step): all are never waiting for  *)
(* each other.  (NeverStuck says so with ENABLED.)                           *)
(***************************************************************************)
THEOREM SomeoneGoesOn == ASSUME TagsSuffice PROVE Spec => [](AllDone \/ CanGoOn)
<1>1. Spec => []IInv /\ [](PlaceInv /\ FlowInv)
  BY Invariance, FlowInvariance
<1>2. QED
  BY <1>1, GoesOn, PTL

-----------------------------------------------------------------------------
(***************************************************************************)
(* Types, whatever the tags do: messages and receives name ranks.            *)
(***************************************************************************)
Addressed(p) ==
    /\ \E S : sent[p] \in Seq(S) /\ \A m \in S : m.to \in Rank(D)
    /\ \A r \in posted[p] : r.from \in Rank(D)

AddressInv ==
    /\ sent = [p \in Proc |-> sent[p]] /\ posted = [p \in Proc |-> posted[p]]
    /\ \A p \in Proc : Addressed(p)

\* What can be taken is there.
LEMMA FirstThere ==
  ASSUME NEW S, NEW s \in Seq(S), NEW T \in SUBSET DOMAIN s, T # {}
  PROVE  First(T) \in DOMAIN s
<1>1. T \subseteq Nat
  BY LenProperties
<1>2. \E m \in T : \A k \in T : m <= k
  BY <1>1, LeastElement
<1>3. First(T) \in T
  BY <1>2 DEF First
<1>4. QED
  BY <1>3

LEMMA NextAddress == PlaceInv /\ AddressInv /\ [Next]_vars => AddressInv'
<1> SUFFICES ASSUME PlaceInv, AddressInv, [Next]_vars PROVE AddressInv'
  OBVIOUS
<1>1. ASSUME sent' = sent, posted' = posted, D' = D PROVE AddressInv'
  BY <1>1, SameThreads DEF AddressInv, Addressed
<1>2. ASSUME NEW p \in Proc, Start(p) PROVE AddressInv'
  <2>1. /\ D' = D /\ sent' = [sent EXCEPT ![p] = @ \o <<Message(p, TRUE), Message(p, FALSE)>>]
        /\ posted' = [posted EXCEPT ![p] = {Receive(p, TRUE), Receive(p, FALSE)}]
    BY <1>2 DEF Start
  <2>2. D \in Setups /\ pos[p].dim \in Dim
    BY PlaceOf DEF PlaceInv
  <2>3. ASSUME NEW left \in BOOLEAN
        PROVE  Message(p, left).to \in Rank(D) /\ Receive(p, left).from \in Rank(D)
    <3>1. To(p, pos[p].dim, left) \in Proc /\ From(p, pos[p].dim, left) \in Proc
      BY <2>2, Partners
    <3>2. /\ Message(p, left).to = To(p, pos[p].dim, left)[1]
          /\ Receive(p, left).from = From(p, pos[p].dim, left)[1]
      BY Asking DEF ReceiveOf
    <3>3. QED
      BY <2>2, <3>1, <3>2, Threads
  <2>4. PICK S : sent[p] \in Seq(S) /\ \A m \in S : m.to \in Rank(D)
    BY DEF AddressInv, Addressed
  <2>5. ASSUME NEW a, NEW b, a.to \in Rank(D), b.to \in Rank(D), sent'[p] = sent[p] \o <<a, b>>
        PROVE  \E U : sent'[p] \in Seq(U) /\ \A m \in U : m.to \in Rank(D)
    <3> DEFINE U == S \union {a, b}
    <3>1. S \subseteq U /\ a \in U /\ b \in U /\ \A m \in U : m.to \in Rank(D)
      BY <2>4, <2>5
    <3> HIDE DEF U
    <3>2. sent[p] \in Seq(U)
      BY <2>4, <3>1, SeqMonotonic
    <3>3. sent'[p] \in Seq(U)
      BY <2>5, <3>1, <3>2, Appended
    <3>4. QED
      BY <3>1, <3>3
  <2>6. /\ sent' = [q \in Proc |-> sent'[q]] /\ posted' = [q \in Proc |-> posted'[q]]
        /\ sent'[p] = sent[p] \o <<Message(p, TRUE), Message(p, FALSE)>>
        /\ posted'[p] = {Receive(p, TRUE), Receive(p, FALSE)}
        /\ \A q \in Proc : q # p => sent'[q] = sent[q] /\ posted'[q] = posted[q]
    BY <2>1 DEF AddressInv
  <2>7. Addressed(p)'
    BY <2>1, <2>3, <2>5, <2>6 DEF Addressed
  <2>8. ASSUME NEW q \in Proc, q # p PROVE Addressed(q)'
    BY <2>1, <2>6, <2>8 DEF AddressInv, Addressed
  <2>9. QED
    BY <2>1, <2>6, <2>7, <2>8, SameThreads DEF AddressInv
<1>3. ASSUME NEW p \in Proc, NEW q \in Proc, Match(p, q) PROVE AddressInv'
  <2>1. PICK r \in posted[q] :
          /\ Fits(p, q, r) # {} /\ D' = D
          /\ sent' = [sent EXCEPT ![p] = RemoveAt(@, First(Fits(p, q, r)))]
          /\ posted' = [posted EXCEPT ![q] = @ \ {r}]
    BY <1>3 DEF Match
  <2>2. /\ sent' = [u \in Proc |-> sent'[u]] /\ posted' = [u \in Proc |-> posted'[u]]
        /\ \A u \in Proc : u # p => sent'[u] = sent[u]
        /\ \A u \in Proc : posted'[u] \subseteq posted[u]
        /\ sent'[p] = RemoveAt(sent[p], First(Fits(p, q, r)))
    BY <2>1 DEF AddressInv
  <2>3. PICK S : sent[p] \in Seq(S) /\ \A m \in S : m.to \in Rank(D)
    BY DEF AddressInv, Addressed
  <2>4. First(Fits(p, q, r)) \in DOMAIN sent[p]
    <3>1. Fits(p, q, r) \in SUBSET DOMAIN sent[p]
      BY DEF Fits
    <3>2. QED
      BY <2>1, <2>3, <3>1, FirstThere
  <2>5. sent'[p] \in Seq(S)
    BY <2>2, <2>3, <2>4, Removed
  <2>6. ASSUME NEW u \in Proc PROVE Addressed(u)'
    <3>1. CASE u = p
      BY <2>1, <2>2, <2>3, <2>5, <3>1 DEF AddressInv, Addressed
    <3>2. CASE u # p
      BY <2>1, <2>2, <3>2 DEF AddressInv, Addressed
    <3>3. QED
      BY <3>1, <3>2
  <2>7. QED
    BY <2>1, <2>2, <2>6, SameThreads DEF AddressInv
<1>4. QED
  BY <1>1, <1>2, <1>3
  DEF Next, Step, Done, vars, Finish, BarrierEnter, BarrierLeave, MpiBarrierEnter, MpiBarrierLeave

LEMMA InitAddress == Init => AddressInv
<1> SUFFICES ASSUME Init PROVE AddressInv
  OBVIOUS
<1>1. sent = [p \in Proc |-> <<>>] /\ posted = [p \in Proc |-> {}]
  BY DEF Init
<1>2. \A p \in Proc : sent[p] \in Seq({}) /\ posted[p] = {}
  BY <1>1
<1>3. \A p \in Proc : Addressed(p)
  BY <1>2 DEF Addressed
<1>4. QED
  BY <1>1, <1>3 DEF AddressInv

LEMMA Types == IInv /\ AddressInv => TypeOK
<1> SUFFICES ASSUME IInv, AddressInv PROVE TypeOK
  OBVIOUS
<1>1. PlaceInv /\ CountInv
  BY DEF IInv
<1>2. /\ FreeSteps \in Nat \ {0} /\ MainSteps \in Nat /\ LastStep = FreeSteps + MainSteps
  BY StepsAssumption DEF LastStep
<1>3. ASSUME NEW p \in Proc
      PROVE  /\ Rounds(p) \in Nat /\ Rounds(p) <= MainSteps
             /\ at[p] \in InBarriers \/ Measuring(p) => Rounds(p) + 1 <= MainSteps
  <2>1. /\ pos[p].step \in Nat /\ pos[p].step <= LastStep + 1
        /\ at[p] # "done" => pos[p].step <= LastStep
        /\ at[p] \in InBarriers => pos[p].step > FreeSteps
    <3>1. pos[p].step \in 1..(LastStep + 1) /\ LastStep \in Nat
      BY <1>1, PlaceOf, StepBounds
    <3>2. /\ at[p] = "done" <=> pos[p].step = LastStep + 1
          /\ at[p] \in InBarriers => pos[p].step > FreeSteps
      BY <1>1 DEF PlaceInv
    <3>3. QED
      BY <3>1, <3>2
  <2>2. at[p] \in InBarriers \/ Measuring(p) => at[p] # "done" /\ pos[p].step > FreeSteps
    BY <2>1 DEF InBarriers, Measuring
  <2>3. QED
    BY <1>2, <2>1, <2>2 DEF Rounds
<1>4. entered \in [Proc -> 0..(2 * MainSteps)]
  <2>1. ASSUME NEW p \in Proc PROVE entered[p] \in 0..(2 * MainSteps)
    <3>1. \/ entered[p] = 2 * Rounds(p)
          \/ (at[p] \in InBarriers \/ Measuring(p)) /\ entered[p] = 2 * Rounds(p) + 1
          \/ (at[p] \in InBarriers \/ Measuring(p)) /\ entered[p] = 2 * Rounds(p) + 2
      BY <1>1, <1>3 DEF CountInv, InBarriers
    <3>2. QED
      BY <1>2, <1>3, <3>1
  <2>2. QED
    BY <1>1, <2>1 DEF PlaceInv
<1>5. mpi \in [Rank(D) -> 0..MainSteps]
  <2>1. ASSUME NEW r \in Rank(D) PROVE mpi[r] \in 0..MainSteps
    <3>1. <<r, 0>> \in Proc
      BY <1>1, Threads DEF PlaceInv
    <3>2. \/ mpi[r] = Rounds(<<r, 0>>)
          \/ /\ at[<<r, 0>>] \in InBarriers \/ Measuring(<<r, 0>>)
             /\ mpi[r] = Rounds(<<r, 0>>) + 1
      BY <1>1, <1>3, <3>1 DEF CountInv, InBarriers
    <3>3. QED
      BY <1>2, <1>3, <3>1, <3>2
  <2>2. QED
    BY <1>1, <2>1 DEF PlaceInv
<1>6. ASSUME NEW p \in Proc
      PROVE  /\ pos[p] \in [step : 1..(LastStep + 1), field : Field, dim : Dim]
             /\ at[p] \in {"start", "wait", "b1", "b1in", "mpi", "mpiin", "b2", "b2in", "done"}
             /\ \A i \in DOMAIN sent[p] : sent[p][i].to \in Rank(D)
             /\ \A r \in posted[p] : r.from \in Rank(D)
  <2>1. PICK S : sent[p] \in Seq(S) /\ \A m \in S : m.to \in Rank(D)
    BY DEF AddressInv, Addressed
  <2>2. \A i \in DOMAIN sent[p] : sent[p][i] \in S
    BY <2>1, LenProperties, ElementOfSeq
  <2>3. QED
    BY <1>1, <2>1, <2>2 DEF PlaceInv, Places, AddressInv, Addressed
<1>7. QED
  BY <1>4, <1>5, <1>6 DEF TypeOK

(***************************************************************************)
(* Threads stay within their steps and fields, name ranks that there are, and  *)
(* enter the barriers as often as there are measured steps (impl::step and     *)
(* main_step), whatever the tags.                                           *)
(***************************************************************************)
THEOREM TypeCorrect == Spec => []TypeOK
<1>1. Init => AddressInv
  BY InitAddress
<1>2. IInv /\ AddressInv /\ [Next]_vars => AddressInv'
  BY NextAddress DEF IInv
<1>3. Spec => []IInv
  BY Invariance
<1>4. IInv /\ AddressInv => TypeOK
  BY Types
<1>5. QED
  BY <1>1, <1>2, <1>3, <1>4, PTL DEF Spec

-----------------------------------------------------------------------------
(***************************************************************************)
(* The memory of sends, whatever the tags do.  A message is one of an earlier  *)
(* exchange, or of the one the thread waits in: MPI reads only for the latter,  *)
(* and its memory stays what it was packed from until the wait is over.       *)
(***************************************************************************)
Kept(p, m) ==
    /\ m.at \in Place
    /\ \/ Earlier(m.at, pos[p])
       \/ /\ at[p] = "wait" /\ m.at = pos[p] /\ m.left \in BOOLEAN
          /\ m.cells = Message(p, m.left).cells

SendsKept(p) ==
    /\ \E S : sent[p] \in Seq(S) /\ \A m \in S : Kept(p, m)
    /\ \A l \in lent[p] : at[p] = "wait" /\ l.at = pos[p]
    /\ (at[p] = "wait" /\ pos[p].dim # 3) =>
         \A left \in BOOLEAN : send_buffers[p][pos[p].dim][left] = Message(p, left).cells

SendsInv ==
    /\ sent = [p \in Proc |-> sent[p]] /\ halo = [p \in Proc |-> halo[p]]
    /\ lent = [p \in Proc |-> lent[p]]
    /\ send_buffers = [p \in Proc |-> send_buffers[p]]
    /\ \A p \in Proc : send_buffers[p] = [d \in {1, 2} |-> send_buffers[p][d]]
    /\ \A p \in Proc : SendsKept(p)

\* Updating a function in one place.
LEMMA Updated ==
  ASSUME NEW A, NEW f, f = [q \in A |-> f[q]], NEW p \in A, NEW v,
         NEW g, g = [f EXCEPT ![p] = v]
  PROVE  /\ g = [q \in A |-> g[q]] /\ g[p] = v
         /\ \A q \in A : q # p => g[q] = f[q]
OBVIOUS

\* What a thread would send depends on where it is and on its own halos.
LEMMA SameMessage ==
  ASSUME D' = D, NEW p, pos'[p] = pos[p], halo'[p] = halo[p], NEW left
  PROVE  Message(p, left)' = Message(p, left)
<1>1. m_neighbors(p)' = m_neighbors(p)
  BY SameNames
<1>2. \A o : Content(p, o)' = Content(p, o)
  BY <1>1 DEF Content, Region
<1>3. QED
  BY <1>1, <1>2 DEF Message

\* A thread that neither moves nor sends keeps its memory.
LEMMA SameKept ==
  ASSUME D' = D, NEW p, pos'[p] = pos[p], halo'[p] = halo[p],
         at'[p] = "wait" <=> at[p] = "wait",
         send_buffers'[p] = send_buffers[p], lent'[p] \subseteq lent[p],
         NEW S, sent'[p] \in Seq(S), \A m \in S : Kept(p, m), SendsKept(p)
  PROVE  SendsKept(p)'
<1> PICK x : x = pos[p]
  OBVIOUS
<1>1. \A left : Message(p, left)' = Message(p, left)
  BY SameMessage
<1>2. ASSUME NEW m \in S PROVE Kept(p, m)'
  <2>1. Place' = Place
    BY SameThreads DEF Place
  <2>2. QED
    BY <1>1, <2>1 DEF Kept, Earlier
<1>3. \A l \in lent'[p] : at'[p] = "wait" /\ l.at = pos'[p]
  BY DEF SendsKept
<1>4. ASSUME at'[p] = "wait" /\ x.dim # 3, NEW left \in BOOLEAN
      PROVE  send_buffers'[p][x.dim][left] = Message(p, left)'.cells
  BY <1>1, <1>4 DEF SendsKept
<1>5. QED
  BY <1>2, <1>3, <1>4 DEF SendsKept

\* Packing comes before sending.
LEMMA StartKeeps ==
  ASSUME PlaceInv, SendsInv, NEW p \in Proc, Start(p)
  PROVE  SendsInv'
<1> PICK x : x = pos[p]
  OBVIOUS
<1>1. /\ D' = D /\ pos' = pos /\ halo' = halo /\ at[p] = "start"
      /\ sent' = [sent EXCEPT ![p] = @ \o <<Message(p, TRUE), Message(p, FALSE)>>]
      /\ lent' = [lent EXCEPT ![p] = @ \cup {Send(pos[p], left) : left \in BOOLEAN}]
      /\ at' = [at EXCEPT ![p] = "wait"]
      /\ send_buffers' = IF x.dim = 3 THEN send_buffers
                         ELSE [send_buffers EXCEPT ![p][x.dim] =
                                 [left \in BOOLEAN |-> Message(p, left).cells]]
  BY DEF Start, Pack
<1>2. x \in Place /\ x.dim \in Dim /\ Proc' = Proc /\ Place' = Place
  <2>1. x \in Place
    BY PosPlace
  <2>2. QED
    BY <1>1, <2>1, SameThreads DEF Place
<1>3. \A q \in Proc : at'[q] = IF q = p THEN "wait" ELSE at[q]
  BY <1>1 DEF PlaceInv
<1>4. /\ sent' = [q \in Proc |-> sent'[q]] /\ halo' = [q \in Proc |-> halo'[q]]
      /\ lent' = [q \in Proc |-> lent'[q]]
      /\ sent'[p] = sent[p] \o <<Message(p, TRUE), Message(p, FALSE)>>
      /\ lent'[p] = lent[p] \cup {Send(x, left) : left \in BOOLEAN}
      /\ \A q \in Proc : q # p => sent'[q] = sent[q] /\ lent'[q] = lent[q]
  <2>1. PICK u : u = sent[p] \o <<Message(p, TRUE), Message(p, FALSE)>>
    OBVIOUS
  <2>2. PICK v : v = lent[p] \cup {Send(x, left) : left \in BOOLEAN}
    OBVIOUS
  <2>3. sent' = [sent EXCEPT ![p] = u] /\ lent' = [lent EXCEPT ![p] = v]
    BY <1>1, <2>1, <2>2
  <2>4. sent = [q \in Proc |-> sent[q]] /\ lent = [q \in Proc |-> lent[q]]
    BY DEF SendsInv
  <2>5. /\ sent' = [q \in Proc |-> sent'[q]] /\ sent'[p] = u
        /\ \A q \in Proc : q # p => sent'[q] = sent[q]
    BY <2>3, <2>4, Updated
  <2>6. /\ lent' = [q \in Proc |-> lent'[q]] /\ lent'[p] = v
        /\ \A q \in Proc : q # p => lent'[q] = lent[q]
    BY <2>3, <2>4, Updated
  <2>7. QED
    BY <1>1, <2>1, <2>2, <2>5, <2>6 DEF SendsInv
<1>5. /\ send_buffers' = [q \in Proc |-> send_buffers'[q]]
      /\ \A q \in Proc : send_buffers'[q] = [d \in {1, 2} |-> send_buffers'[q][d]]
      /\ x.dim # 3 => \A left \in BOOLEAN :
           send_buffers'[p][x.dim][left] = Message(p, left).cells
      /\ \A q \in Proc : q # p => send_buffers'[q] = send_buffers[q]
  <2>1. CASE x.dim = 3
    BY <1>1, <2>1 DEF SendsInv
  <2>2. CASE x.dim # 3
    <3>1. x.dim \in {1, 2}
      BY <1>2, <2>2 DEF Dim
    <3>2. PICK c : c = [left \in BOOLEAN |-> Message(p, left).cells]
      OBVIOUS
    <3>3. PICK b : b = [send_buffers[p] EXCEPT ![x.dim] = c]
      OBVIOUS
    <3>4. send_buffers' = [send_buffers EXCEPT ![p] = b]
      BY <1>1, <2>2, <3>2, <3>3
    <3>5. /\ send_buffers = [q \in Proc |-> send_buffers[q]]
          /\ \A q \in Proc : send_buffers[q] = [d \in {1, 2} |-> send_buffers[q][d]]
      BY DEF SendsInv
    <3>6. b = [d \in {1, 2} |-> b[d]] /\ b[x.dim] = c
      BY <3>1, <3>3, <3>5, Updated
    <3>7. /\ send_buffers' = [q \in Proc |-> send_buffers'[q]]
          /\ send_buffers'[p] = b
          /\ \A q \in Proc : q # p => send_buffers'[q] = send_buffers[q]
      BY <3>4, <3>5, Updated
    <3>8. QED
      BY <3>2, <3>5, <3>6, <3>7
  <2>3. QED
    BY <2>1, <2>2
<1>6. \A left : Message(p, left)' = Message(p, left)
  BY <1>1, SameMessage
<1>7. SendsKept(p)'
  <2>1. PICK S : sent[p] \in Seq(S) /\ \A m \in S : Kept(p, m)
    BY DEF SendsInv, SendsKept
  <2>2. \A m \in S : Kept(p, m)'
    BY <1>1, <1>2, <2>1 DEF Kept, Earlier
  <2>3. ASSUME NEW left \in BOOLEAN PROVE Kept(p, Message(p, left))'
    <3>1. Message(p, left).at = x /\ Message(p, left).left = left
      BY DEF Message
    <3>2. QED
      BY <1>1, <1>2, <1>3, <1>6, <3>1 DEF Kept
  <2>4. ASSUME NEW a, NEW b, Kept(p, a)', Kept(p, b)', sent'[p] = sent[p] \o <<a, b>>
        PROVE  \E U : sent'[p] \in Seq(U) /\ \A m \in U : Kept(p, m)'
    <3> DEFINE U == S \union {a, b}
    <3>1. S \subseteq U /\ a \in U /\ b \in U /\ \A m \in U : Kept(p, m)'
      BY <2>2, <2>4
    <3> HIDE DEF U
    <3>2. sent[p] \in Seq(U)
      BY <2>1, <3>1, SeqMonotonic
    <3>3. sent'[p] \in Seq(U)
      BY <2>4, <3>1, <3>2, Appended
    <3>4. QED
      BY <3>1, <3>3
  <2>5. \E U : sent'[p] \in Seq(U) /\ \A m \in U : Kept(p, m)'
    <3>1. PICK a, b : a = Message(p, TRUE)' /\ b = Message(p, FALSE)'
      OBVIOUS
    <3>2. Kept(p, a)' /\ Kept(p, b)'
      BY <1>6, <2>3, <3>1
    <3>3. QED
      BY <1>4, <1>6, <2>4, <3>1, <3>2
  <2>6. \A l \in lent'[p] : at'[p] = "wait" /\ l.at = pos'[p]
    <3>1. lent[p] = {}
      BY <1>1 DEF SendsInv, SendsKept
    <3>2. \A l \in lent'[p] : l.at = x
      BY <1>4, <3>1 DEF Send
    <3>3. QED
      BY <1>1, <1>3, <3>2
  <2>7. ASSUME x.dim # 3, NEW left \in BOOLEAN
        PROVE  send_buffers'[p][x.dim][left] = Message(p, left)'.cells
    BY <1>5, <1>6, <2>7
  <2>8. pos'[p] = x
    BY <1>1
  <2>9. QED
    BY <2>5, <2>6, <2>7, <2>8 DEF SendsKept
<1>8. ASSUME NEW q \in Proc, q # p PROVE SendsKept(q)'
  <2>1. SendsKept(q)
    BY DEF SendsInv
  <2>2. PICK S : sent[q] \in Seq(S) /\ \A m \in S : Kept(q, m)
    BY <2>1 DEF SendsKept
  <2>3. /\ D' = D /\ pos'[q] = pos[q] /\ halo'[q] = halo[q]
        /\ at'[q] = "wait" <=> at[q] = "wait"
        /\ send_buffers'[q] = send_buffers[q] /\ lent'[q] \subseteq lent[q]
    BY <1>1, <1>3, <1>4, <1>5, <1>8
  <2>4. sent'[q] \in Seq(S)
    BY <1>4, <1>8, <2>2
  <2>5. QED
    BY <2>1, <2>2, <2>3, <2>4, SameKept
<1>9. QED
  BY <1>2, <1>4, <1>5, <1>7, <1>8 DEF SendsInv

\* A message that is read is lent no more, and no memory changes.
LEMMA MatchKeeps ==
  ASSUME PlaceInv, SendsInv, NEW p \in Proc, NEW q \in Proc, Match(p, q)
  PROVE  SendsInv'
<1>1. PICK r \in posted[q] :
        /\ Fits(p, q, r) # {} /\ D' = D /\ pos' = pos /\ at' = at /\ halo' = halo
        /\ send_buffers' = send_buffers
        /\ sent' = [sent EXCEPT ![p] = RemoveAt(@, First(Fits(p, q, r)))]
        /\ \E l : lent' = [lent EXCEPT ![p] = @ \ {l}]
  BY DEF Match
<1>2. /\ sent' = [u \in Proc |-> sent'[u]] /\ lent' = [u \in Proc |-> lent'[u]]
      /\ sent'[p] = RemoveAt(sent[p], First(Fits(p, q, r)))
      /\ \A u \in Proc : lent'[u] \subseteq lent[u]
      /\ \A u \in Proc : u # p => sent'[u] = sent[u]
  BY <1>1 DEF SendsInv
<1>3. ASSUME NEW u \in Proc PROVE SendsKept(u)'
  <2>1. SendsKept(u)
    BY DEF SendsInv
  <2>2. PICK S : sent[u] \in Seq(S) /\ \A m \in S : Kept(u, m)
    BY <2>1 DEF SendsKept
  <2>3. CASE u = p
    <3>1. Fits(p, q, r) \in SUBSET DOMAIN sent[p]
      BY DEF Fits
    <3>2. First(Fits(p, q, r)) \in DOMAIN sent[p]
      BY <1>1, <2>2, <2>3, <3>1, FirstThere
    <3>3. sent'[p] \in Seq(S)
      BY <1>2, <2>2, <2>3, <3>2, Removed
    <3>4. QED
      BY <1>1, <1>2, <2>1, <2>2, <2>3, <3>3, SameKept
  <2>4. CASE u # p
    BY <1>1, <1>2, <2>1, <2>2, <2>4, SameKept
  <2>5. QED
    BY <2>3, <2>4
<1>4. QED
  BY <1>1, <1>2, <1>3, SameThreads DEF SendsInv

\* MPI_Waitall ends what was lent; what it leaves has been copied.
LEMMA FinishKeeps ==
  ASSUME PlaceInv, SendsInv, NEW p \in Proc, Finish(p)
  PROVE  SendsInv'
<1>1. /\ D' = D /\ sent' = sent /\ send_buffers' = send_buffers /\ at[p] = "wait"
      /\ \E u : halo' = [halo EXCEPT ![p] = u]
      /\ pos' = [pos EXCEPT ![p] = Advance(@)]
      /\ \E a : a # "wait" /\ at' = [at EXCEPT ![p] = a]
      /\ lent' = [lent EXCEPT ![p] = {}]
  <2>1. /\ D' = D /\ sent' = sent /\ send_buffers' = send_buffers /\ at[p] = "wait"
        /\ pos' = [pos EXCEPT ![p] = Advance(@)] /\ lent' = [lent EXCEPT ![p] = {}]
    BY DEF Finish
  <2>2. \E u : halo' = [halo EXCEPT ![p] = u]
    <3>1. PICK u : u = [halo[p] EXCEPT ![pos[p].field] = Unpacked(p)]
      OBVIOUS
    <3>2. halo' = [halo EXCEPT ![p] = u]
      BY <3>1 DEF Finish
    <3>3. QED
      BY <3>2
  <2>3. \E a : a # "wait" /\ at' = [at EXCEPT ![p] = a]
    <3>1. PICK a : a = IF pos'[p].step = pos[p].step THEN "start" ELSE Before(pos'[p].step)
      OBVIOUS
    <3>2. a # "wait"
      BY <3>1 DEF Before
    <3>3. at' = [at EXCEPT ![p] = a]
      BY <3>1 DEF Finish
    <3>4. QED
      BY <3>2, <3>3
  <2>4. QED
    BY <2>1, <2>2, <2>3
<1>2. /\ D \in Setups /\ pos[p] \in Exchange /\ Proc' = Proc /\ Place' = Place
  <2>1. D \in Setups /\ pos[p] \in Exchange
    BY <1>1, PosPlace
  <2>2. QED
    BY <1>1, <2>1, SameThreads DEF Place
<1>3. /\ pos'[p] = Advance(pos[p]) /\ at'[p] # "wait" /\ lent'[p] = {}
      /\ halo' = [q \in Proc |-> halo'[q]] /\ lent' = [q \in Proc |-> lent'[q]]
      /\ \A q \in Proc : q # p => /\ pos'[q] = pos[q] /\ at'[q] = at[q]
                                  /\ halo'[q] = halo[q] /\ lent'[q] = lent[q]
  <2>1. PICK u, a : /\ a # "wait" /\ halo' = [halo EXCEPT ![p] = u]
                    /\ at' = [at EXCEPT ![p] = a]
    BY <1>1
  <2>2. PICK y : y = Advance(pos[p])
    OBVIOUS
  <2>3. pos' = [pos EXCEPT ![p] = y] /\ lent' = [lent EXCEPT ![p] = {}]
    BY <1>1, <2>2
  <2>4. /\ halo = [q \in Proc |-> halo[q]] /\ lent = [q \in Proc |-> lent[q]]
        /\ pos = [q \in Proc |-> pos[q]] /\ at = [q \in Proc |-> at[q]]
    <3>1. halo = [q \in Proc |-> halo[q]] /\ lent = [q \in Proc |-> lent[q]]
      BY DEF SendsInv
    <3>2. pos = [q \in Proc |-> pos[q]] /\ at = [q \in Proc |-> at[q]]
      BY DEF PlaceInv
    <3>3. QED
      BY <3>1, <3>2
  <2>5. /\ halo' = [q \in Proc |-> halo'[q]]
        /\ \A q \in Proc : q # p => halo'[q] = halo[q]
    BY <2>1, <2>4, Updated
  <2>6. /\ lent' = [q \in Proc |-> lent'[q]] /\ lent'[p] = {}
        /\ \A q \in Proc : q # p => lent'[q] = lent[q]
    BY <2>3, <2>4, Updated
  <2>7. pos'[p] = y /\ \A q \in Proc : q # p => pos'[q] = pos[q]
    BY <2>3, <2>4, Updated
  <2>8. at'[p] = a /\ \A q \in Proc : q # p => at'[q] = at[q]
    BY <2>1, <2>4, Updated
  <2>9. QED
    BY <2>1, <2>2, <2>5, <2>6, <2>7, <2>8
<1>4. SendsKept(p)'
  <2>1. PICK S : sent[p] \in Seq(S) /\ \A m \in S : Kept(p, m)
    BY DEF SendsInv, SendsKept
  <2>2. ASSUME NEW m \in S PROVE Kept(p, m)'
    <3>1. m.at \in Place /\ (Earlier(m.at, pos[p]) \/ m.at = pos[p])
      BY <2>1 DEF Kept
    <3>2. Earlier(m.at, Advance(pos[p]))
      BY <1>2, <3>1, AdvanceOrder
    <3>3. QED
      BY <1>2, <1>3, <3>1, <3>2 DEF Kept, Earlier
  <2>3. QED
    BY <1>1, <1>3, <2>1, <2>2 DEF SendsKept
<1>5. ASSUME NEW q \in Proc, q # p PROVE SendsKept(q)'
  <2>1. SendsKept(q)
    BY DEF SendsInv
  <2>2. PICK S : sent[q] \in Seq(S) /\ \A m \in S : Kept(q, m)
    BY <2>1 DEF SendsKept
  <2>3. QED
    BY <1>1, <1>3, <1>5, <2>1, <2>2, SameKept
<1>6. QED
  BY <1>1, <1>2, <1>3, <1>4, <1>5 DEF SendsInv

LEMMA NextKeeps == PlaceInv /\ SendsInv /\ [Next]_vars => SendsInv'
<1> SUFFICES ASSUME PlaceInv, SendsInv, [Next]_vars PROVE SendsInv'
  OBVIOUS
<1>1. ASSUME D' = D, pos' = pos, halo' = halo, sent' = sent, lent' = lent,
             send_buffers' = send_buffers,
             \A q \in Proc : (at'[q] = "wait") <=> (at[q] = "wait")
      PROVE  SendsInv'
  <2>1. ASSUME NEW q \in Proc PROVE SendsKept(q)'
    <3>1. SendsKept(q)
      BY DEF SendsInv
    <3>2. PICK S : sent[q] \in Seq(S) /\ \A m \in S : Kept(q, m)
      BY <3>1 DEF SendsKept
    <3>3. QED
      BY <1>1, <3>1, <3>2, SameKept
  <2>2. QED
    BY <1>1, <2>1, SameThreads DEF SendsInv
<1>2. ASSUME NEW p \in Proc, BarrierEnter(p) \/ BarrierLeave(p)
                             \/ MpiBarrierEnter(p) \/ MpiBarrierLeave(p)
      PROVE  SendsInv'
  <2>1. /\ D' = D /\ pos' = pos /\ halo' = halo /\ sent' = sent
        /\ lent' = lent /\ send_buffers' = send_buffers
    BY <1>2 DEF BarrierEnter, BarrierLeave, MpiBarrierEnter, MpiBarrierLeave, memory
  <2>2. PICK a : a # "wait" /\ at' = [at EXCEPT ![p] = a]
    BY <1>2 DEF BarrierEnter, BarrierLeave, MpiBarrierEnter, MpiBarrierLeave
  <2>3. at[p] # "wait"
    BY <1>2 DEF BarrierEnter, BarrierLeave, MpiBarrierEnter, MpiBarrierLeave
  <2>4. \A q \in Proc : at'[q] = "wait" <=> at[q] = "wait"
    BY <2>2, <2>3 DEF PlaceInv
  <2>5. QED
    BY <1>1, <2>1, <2>4
<1>3. ASSUME UNCHANGED vars PROVE SendsInv'
  BY <1>1, <1>3 DEF vars
<1>4. QED
  BY <1>2, <1>3, StartKeeps, FinishKeeps, MatchKeeps DEF Next, Step, Done

LEMMA InitKeeps == Init => SendsInv
<1> SUFFICES ASSUME Init PROVE SendsInv
  OBVIOUS
<1>1. /\ sent = [p \in Proc |-> <<>>] /\ lent = [p \in Proc |-> {}]
      /\ at = [p \in Proc |-> Before(1)]
      /\ send_buffers = [p \in Proc |-> [d \in {1, 2} |-> [left \in BOOLEAN |-> Empty]]]
      /\ halo = [p \in Proc |-> [f \in Field |-> [o \in Offset \ {Here} |-> Empty]]]
  BY DEF Init
<1>2. Before(1) # "wait"
  BY DEF Before
<1>3. ASSUME NEW p \in Proc PROVE SendsKept(p)
  <2>1. sent[p] \in Seq({}) /\ lent[p] = {} /\ at[p] # "wait"
    BY <1>1, <1>2
  <2>2. \E S : sent[p] \in Seq(S) /\ \A m \in S : Kept(p, m)
    BY <2>1
  <2>3. QED
    BY <2>1, <2>2 DEF SendsKept
<1>4. halo = [p \in Proc |-> halo[p]]
  BY <1>1
<1>5. QED
  BY <1>1, <1>3, <1>4 DEF SendsInv

LEMMA Intact == PlaceInv /\ SendsInv => SendsIntact
<1> SUFFICES ASSUME PlaceInv, SendsInv, NEW p \in Proc, NEW i \in DOMAIN sent[p],
                    NEW m, m = sent[p][i], Send(m.at, m.left) \in lent[p]
             PROVE  Memory(p, m.at, m.left) = m.cells
  BY DEF SendsIntact
<1> PICK x : x = pos[p]
  OBVIOUS
<1>1. SendsKept(p)
  BY DEF SendsInv
<1>2. m.at = x /\ at[p] = "wait"
  BY <1>1 DEF SendsKept, Send
<1>3. Kept(p, m)
  <2>1. PICK S : sent[p] \in Seq(S) /\ \A n \in S : Kept(p, n)
    BY <1>1 DEF SendsKept
  <2>2. QED
    BY <2>1, LenProperties, ElementOfSeq
<1>4. D \in Setups /\ ~Earlier(m.at, x)
  BY <1>2, PosPlace, Order
<1>5. m.left \in BOOLEAN /\ m.cells = Message(p, m.left).cells
  BY <1>3, <1>4 DEF Kept
<1>6. CASE x.dim = 3
  <2>1. Message(p, m.left).cells = [o \in Slab(3) |-> Region(p, x.field, o)]
    BY <1>6 DEF Message, Content
  <2>2. QED
    BY <1>2, <1>5, <1>6, <2>1 DEF Memory
<1>7. CASE x.dim # 3
  BY <1>1, <1>2, <1>5, <1>7 DEF SendsKept, Memory
<1>8. QED
  BY <1>6, <1>7

(***************************************************************************)
(* No send buffer is packed again, and nothing that is sent out of a field is  *)
(* overwritten, before MPI has read it, whatever the tags, the decomposition   *)
(* and the numbers of fields and steps.                                      *)
(***************************************************************************)
THEOREM MemoryIntact == Spec => []SendsIntact
<1>1. Init => SendsInv
  BY InitKeeps
<1>2. IInv /\ SendsInv /\ [Next]_vars => SendsInv'
  BY NextKeeps DEF IInv
<1>3. Spec => []IInv
  BY Invariance
<1>4. IInv /\ SendsInv => SendsIntact
  BY Intact DEF IInv
<1>5. QED
  BY <1>1, <1>2, <1>3, <1>4, PTL DEF Spec
=============================================================================
