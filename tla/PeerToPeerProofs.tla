--------------------------- MODULE PeerToPeerProofs ---------------------------
(***************************************************************************)
(* Theorems about PeerToPeer, for all setups: any even number of ranks, any    *)
(* number of threads and slots, any nrep.                                    *)
(*                                                                         *)
(* First what the n-th operation of each script is (WorkerScriptIs), so that   *)
(* where a process is in its script (place) tells how often it has been at     *)
(* each barrier (CountInv).  Who is past a barrier knows that all have come to  *)
(* it (SyncInv): this keeps the phases apart and the table in order.  Then the  *)
(* slots: what is under way between two of them (ChannelInv) and how much has  *)
(* been submitted (SubmittedInv).                                            *)
(***************************************************************************)
EXTENDS PeerToPeer, SequenceTheorems, FiniteSetTheorems, WellFoundedInduction, TLAPS

-----------------------------------------------------------------------------
(***************************************************************************)
(* Induction over sets of numbers.                                          *)
(***************************************************************************)
LEMMA LeastElement ==
  ASSUME NEW T, T \subseteq Nat, T # {}
  PROVE  \E m \in T : \A k \in T : m <= k
<1> DEFINE R == OpToRel(<, Nat)
<1>1. IsWellFoundedOn(R, Nat)
  BY NatLessThanWellFounded
<1>2. \A x, y \in Nat : <<x, y>> \in R <=> x < y
  BY DEF OpToRel
<1> HIDE DEF R
<1>3. PICK x \in T : \A y \in T : ~(<<y, x>> \in R)
  BY <1>1, WFMin
<1>4. ASSUME NEW y \in T PROVE x <= y
  <2>1. x \in Nat /\ y \in Nat
    OBVIOUS
  <2>2. ~(y < x)
    BY <1>2, <1>3, <2>1
  <2>3. QED
    BY <2>1, <2>2
<1>5. QED
  BY <1>4

\* Induction up to a number.
LEMMA UpTo ==
  ASSUME NEW n \in Nat, NEW T, 0 \in T, \A i \in 1..n : i - 1 \in T => i \in T
  PROVE  0..n \subseteq T
<1> SUFFICES ASSUME (0..n) \ T # {} PROVE FALSE
  OBVIOUS
<1>1. (0..n) \ T \subseteq Nat
  OBVIOUS
<1>2. PICK m \in (0..n) \ T : \A k \in (0..n) \ T : m <= k
  BY <1>1, LeastElement
<1>3. m # 0 /\ m \in 1..n /\ m - 1 \in T
  BY <1>2
<1>4. QED
  BY <1>2, <1>3

-----------------------------------------------------------------------------
(***************************************************************************)
(* What FlattenSeq makes of a sequence of sequences: F[i] is the first i of     *)
(* them, one after the other.                                               *)
(***************************************************************************)
Operation == {"mpi", "barrier", "row", "check", "warm_up", "main_loop", "wait", "idle",
              "clear", "sync", "schedule", "gather", "report", "end"}

IsFlat(F, ss, m) == F[0] = <<>> /\ \A i \in 1..m : F[i] = F[i - 1] \o ss[i]

LEMMA Flatten ==
  ASSUME NEW n \in Nat, NEW ss \in [1..n -> Seq(Operation)]
  PROVE  \E F \in [0..n -> Seq(Operation)] : IsFlat(F, ss, n) /\ FlattenSeq(ss) = F[n]
<1> DEFINE T == {m \in 0..n : \E F \in [0..m -> Seq(Operation)] : IsFlat(F, ss, m)}
<1>1. 0 \in T
  <2> DEFINE G == [i \in 0..0 |-> <<>>]
  <2>1. G \in [0..0 -> Seq(Operation)]
    BY EmptySeq
  <2>2. IsFlat(G, ss, 0)
    BY DEF IsFlat
  <2> HIDE DEF G
  <2>3. QED
    BY <2>1, <2>2
<1>2. ASSUME NEW m \in 1..n, m - 1 \in T PROVE m \in T
  <2>1. PICK F \in [0..(m - 1) -> Seq(Operation)] : IsFlat(F, ss, m - 1)
    BY <1>2
  <2> DEFINE G == [i \in 0..m |-> IF i = m THEN F[m - 1] \o ss[m] ELSE F[i]]
  <2>2. F[m - 1] \o ss[m] \in Seq(Operation)
    BY ConcatProperties
  <2>3. G \in [0..m -> Seq(Operation)]
    BY <2>2
  <2>4. IsFlat(G, ss, m)
    <3>1. G[0] = <<>>
      BY <2>1 DEF IsFlat
    <3>2. ASSUME NEW i \in 1..m PROVE G[i] = G[i - 1] \o ss[i]
      <4>1. CASE i = m
        <5>1. G[m] = F[m - 1] \o ss[m] /\ G[m - 1] = F[m - 1]
          OBVIOUS
        <5> HIDE DEF G
        <5>2. QED
          BY <4>1, <5>1
      <4>2. CASE i # m
        <5>1. i \in 1..(m - 1) /\ G[i] = F[i] /\ G[i - 1] = F[i - 1]
          BY <4>2
        <5>2. QED
          BY <2>1, <5>1 DEF IsFlat
      <4>3. QED
        BY <4>1, <4>2
    <3>3. QED
      BY <3>1, <3>2 DEF IsFlat
  <2> HIDE DEF G
  <2>5. QED
    BY <2>3, <2>4
<1>3. n \in T
  <2> HIDE DEF T
  <2>1. 0..n \subseteq T
    BY <1>1, <1>2, UpTo
  <2>2. QED
    BY <2>1
<1>4. PICK F \in [0..n -> Seq(Operation)] : IsFlat(F, ss, n)
  BY <1>3
<1>5. FlattenSeq(ss) = F[n]
  <2>1. Len(ss) = n
    OBVIOUS
  <2>2. CASE n = 0
    BY <1>4, <2>1, <2>2 DEF FlattenSeq, IsFlat
  <2>3. CASE n # 0
    <3> DEFINE body(f) == [i \in 1..n |-> IF i = 1 THEN ss[i] ELSE f[i - 1] \o ss[i]]
               G == [i \in 1..n |-> F[i]]
               c == CHOOSE f : f = body(f)
    <3>1. F[1] = ss[1]
      <4>1. 1 \in 1..n /\ F[0] = <<>>
        BY <2>3, <1>4 DEF IsFlat
      <4>2. F[1] = F[1 - 1] \o ss[1]
        BY <1>4, <4>1 DEF IsFlat
      <4>3. 1 - 1 = 0 /\ ss[1] \in Seq(Operation)
        BY <4>1
      <4>4. <<>> \o ss[1] = ss[1]
        BY <4>3, ConcatEmptySeq
      <4>5. QED
        BY <4>1, <4>2, <4>3, <4>4
    <3>2. G = body(G)
      <4>1. ASSUME NEW i \in 1..n PROVE G[i] = IF i = 1 THEN ss[i] ELSE G[i - 1] \o ss[i]
        <5>1. CASE i = 1
          BY <3>1, <5>1
        <5>2. CASE i # 1
          <6>1. F[i] = F[i - 1] \o ss[i]
            BY <1>4 DEF IsFlat
          <6>2. G[i] = F[i] /\ G[i - 1] = F[i - 1]
            BY <5>2
          <6> HIDE DEF G
          <6>3. QED
            BY <5>2, <6>1, <6>2
        <5>3. QED
          BY <5>1, <5>2
      <4>2. QED
        BY <4>1
    <3>3. c = body(c)
      <4> HIDE DEF body, G
      <4>1. QED
        BY <3>2
    <3> DEFINE U == {i \in 0..n : i = 0 \/ c[i] = F[i]}
    <3> HIDE DEF c
    <3>4. 0 \in U
      OBVIOUS
    <3>5. ASSUME NEW i \in 1..n, i - 1 \in U PROVE i \in U
      <4>1. c[i] = IF i = 1 THEN ss[i] ELSE c[i - 1] \o ss[i]
        BY <3>3
      <4>2. CASE i = 1
        BY <3>1, <4>1, <4>2
      <4>3. CASE i # 1
        <5>1. c[i - 1] = F[i - 1]
          BY <3>5, <4>3
        <5>2. F[i] = F[i - 1] \o ss[i]
          BY <1>4 DEF IsFlat
        <5>3. c[i] = F[i]
          BY <4>1, <4>3, <5>1, <5>2
        <5>4. QED
          BY <5>3
      <4>4. QED
        BY <4>2, <4>3
    <3>6. n \in U
      <4> HIDE DEF U
      <4>1. 0..n \subseteq U
        BY <3>4, <3>5, UpTo
      <4>2. QED
        BY <4>1
    <3>7. c[n] = F[n]
      BY <2>3, <3>6
    <3>8. FlattenSeq(ss) = c[n]
      BY <2>1, <2>3 DEF FlattenSeq, c
    <3>9. QED
      BY <3>7, <3>8
  <2>4. QED
    BY <2>2, <2>3
<1>6. QED
  BY <1>4, <1>5

-----------------------------------------------------------------------------
(***************************************************************************)
(* The scripts, operation by operation.                                     *)
(***************************************************************************)
\* What two sequences are, one after the other.
LEMMA Joined ==
  ASSUME NEW X, NEW a \in Seq(X), NEW b \in Seq(X), NEW c \in Seq(X),
         Len(c) = Len(a) + Len(b),
         \A n \in 1..Len(a) : c[n] = a[n],
         \A n \in 1..Len(b) : c[Len(a) + n] = b[n]
  PROVE  a \o b = c
<1>1. /\ a \o b \in Seq(X) /\ Len(a \o b) = Len(c)
      /\ \A i \in 1..Len(c) : (a \o b)[i] = IF i <= Len(a) THEN a[i] ELSE b[i - Len(a)]
  BY ConcatProperties
<1>2. Len(a) \in Nat /\ Len(b) \in Nat
  OBVIOUS
<1>3. ASSUME NEW i \in 1..Len(c) PROVE (a \o b)[i] = c[i]
  <2>1. CASE i <= Len(a)
    BY <1>1, <1>2, <2>1
  <2>2. CASE i > Len(a)
    <3>1. i - Len(a) \in 1..Len(b) /\ Len(a) + (i - Len(a)) = i
      BY <1>2, <2>2
    <3>2. c[i] = b[i - Len(a)]
      BY <3>1
    <3>3. QED
      BY <1>1, <1>2, <2>2, <3>2
  <2>3. QED
    BY <1>2, <2>1, <2>2
<1>4. QED
  BY <1>1, <1>3, SeqEqual

LEMMA Joint ==
  ASSUME NEW a \in Seq(Operation), NEW b \in Seq(Operation)
  PROVE  /\ a \o b \in Seq(Operation) /\ Len(a \o b) = Len(a) + Len(b)
         /\ \A n \in 1..Len(a) : (a \o b)[n] = a[n]
         /\ \A n \in 1..Len(b) : (a \o b)[Len(a) + n] = b[n]
<1>1. /\ a \o b \in Seq(Operation) /\ Len(a \o b) = Len(a) + Len(b)
      /\ \A i \in 1..(Len(a) + Len(b)) : (a \o b)[i] = IF i <= Len(a) THEN a[i] ELSE b[i - Len(a)]
  BY ConcatProperties
<1>2. Len(a) \in Nat /\ Len(b) \in Nat
  OBVIOUS
<1>3. ASSUME NEW n \in 1..Len(a) PROVE (a \o b)[n] = a[n]
  BY <1>1, <1>2
<1>4. ASSUME NEW n \in 1..Len(b) PROVE (a \o b)[Len(a) + n] = b[n]
  <2>1. Len(a) + n \in 1..(Len(a) + Len(b)) /\ ~(Len(a) + n <= Len(a)) /\ Len(a) + n - Len(a) = n
    BY <1>2
  <2>2. QED
    BY <1>1, <2>1
<1>5. QED
  BY <1>1, <1>3, <1>4

\* Tuples, one after the other.
LEMMA Tuples ==
  ASSUME NEW a, NEW b
  PROVE  <<a>> \o <<b>> = <<a, b>>
<1> DEFINE x == <<a>>
           y == <<b>>
           z == <<a, b>>
<1>1. /\ x \in Seq({a, b}) /\ y \in Seq({a, b}) /\ z \in Seq({a, b})
      /\ Len(x) = 1 /\ Len(y) = 1 /\ Len(z) = 2
      /\ x[1] = a /\ y[1] = b /\ z[1] = a /\ z[2] = b
  OBVIOUS
<1> HIDE DEF x, y, z
<1>2. x \o y = z
  <2>1. Len(z) = Len(x) + Len(y)
    BY <1>1
  <2>2. \A n \in 1..Len(x) : z[n] = x[n]
    BY <1>1
  <2>3. \A n \in 1..Len(y) : z[Len(x) + n] = y[n]
    BY <1>1
  <2>4. QED
    BY <1>1, <2>1, <2>2, <2>3, Joined
<1>3. QED
  BY <1>2 DEF x, y, z

RowOp(t, n) == IF n = t + 1 THEN "row" ELSE "barrier"

\* The rows of one rank: thread t prints after t barriers.
LEMMA RowsAre ==
  ASSUME NEW s, NEW T, T = s.threads, T \in Nat \ {0}, NEW t \in 0..(T - 1)
  PROVE  Rows(s, t) = [n \in 1..(T + 1) |-> RowOp(t, n)]
<1> DEFINE ss == [k \in 1..T |-> (IF t = k - 1 THEN <<"row">> ELSE <<>>) \o <<"barrier">>]
           H(k) == [n \in 1..(k + (IF k > t THEN 1 ELSE 0)) |-> RowOp(t, n)]
<1>1. ASSUME NEW k \in 1..T
      PROVE  /\ t = k - 1 => ss[k] = <<"row", "barrier">> /\ Len(ss[k]) = 2
             /\ t # k - 1 => ss[k] = <<"barrier">> /\ Len(ss[k]) = 1
  <2>1. ss[k] = (IF t = k - 1 THEN <<"row">> ELSE <<>>) \o <<"barrier">>
    OBVIOUS
  <2>2. <<"row">> \o <<"barrier">> = <<"row", "barrier">>
    BY Tuples
  <2>3. <<>> \o <<"barrier">> = <<"barrier">>
    OBVIOUS
  <2>4. CASE t = k - 1
    BY <2>1, <2>2, <2>4
  <2>5. CASE t # k - 1
    BY <2>1, <2>3, <2>5
  <2>6. QED
    BY <2>4, <2>5
<1>2. ss \in [1..T -> Seq(Operation)]
  <2>1. <<"row", "barrier">> \in Seq(Operation) /\ <<"barrier">> \in Seq(Operation)
    BY DEF Operation
  <2>2. ASSUME NEW k \in 1..T PROVE ss[k] \in Seq(Operation)
    BY <1>1, <2>1
  <2> DEFINE e(k) == (IF t = k - 1 THEN <<"row">> ELSE <<>>) \o <<"barrier">>
  <2>3. \A k \in 1..T : e(k) \in Seq(Operation)
    BY <2>2
  <2> HIDE DEF e
  <2>4. [k \in 1..T |-> e(k)] \in [1..T -> Seq(Operation)]
    BY <2>3
  <2>5. QED
    BY <2>4 DEF e
<1>3. Rows(s, t) = FlattenSeq(ss)
  BY DEF Rows
<1> HIDE DEF ss
<1>4. PICK F \in [0..T -> Seq(Operation)] : IsFlat(F, ss, T) /\ FlattenSeq(ss) = F[T]
  <2>1. T \in Nat
    OBVIOUS
  <2>2. QED
    BY <1>2, <2>1, Flatten
<1>5. ASSUME NEW k \in 0..T
      PROVE  /\ H(k) \in Seq(Operation)
             /\ Len(H(k)) = k + (IF k > t THEN 1 ELSE 0)
             /\ \A n \in 1..Len(H(k)) : H(k)[n] = RowOp(t, n)
  <2> DEFINE m == k + (IF k > t THEN 1 ELSE 0)
  <2>1. m \in Nat /\ \A n \in 1..m : RowOp(t, n) \in Operation
    BY DEF RowOp, Operation
  <2> HIDE DEF m
  <2>2. /\ [n \in 1..m |-> RowOp(t, n)] \in Seq(Operation)
        /\ Len([n \in 1..m |-> RowOp(t, n)]) = m
    BY <2>1
  <2>3. QED
    BY <2>2 DEF m
<1>6. H(0) = <<>>
  OBVIOUS
<1>7. ASSUME NEW k \in 1..T PROVE H(k - 1) \o ss[k] = H(k)
  <2>1. ss[k] \in Seq(Operation)
    BY <1>2
  <2> DEFINE a == H(k - 1)
             c == H(k)
  <2>2. /\ a \in Seq(Operation) /\ Len(a) = k - 1 + (IF k - 1 > t THEN 1 ELSE 0)
        /\ \A n \in 1..Len(a) : a[n] = RowOp(t, n)
    BY <1>5
  <2>3. /\ c \in Seq(Operation) /\ Len(c) = k + (IF k > t THEN 1 ELSE 0)
        /\ \A n \in 1..Len(c) : c[n] = RowOp(t, n)
    BY <1>5
  <2> HIDE DEF a, c
  <2>4. Len(c) = Len(a) + Len(ss[k]) /\ Len(a) \in Nat /\ Len(ss[k]) \in 1..2
    <3>1. CASE t = k - 1
      <4>1. Len(ss[k]) = 2
        BY <1>1, <3>1
      <4>2. k > t /\ ~(k - 1 > t)
        BY <3>1
      <4>3. QED
        BY <2>2, <2>3, <4>1, <4>2
    <3>2. CASE t # k - 1
      <4>1. Len(ss[k]) = 1
        BY <1>1, <3>2
      <4>2. k > t <=> k - 1 > t
        BY <3>2
      <4>3. QED
        BY <2>2, <2>3, <4>1, <4>2
    <3>3. QED
      BY <3>1, <3>2
  <2>5. \A n \in 1..Len(a) : c[n] = a[n]
    BY <2>2, <2>3, <2>4
  <2>6. ASSUME NEW n \in 1..Len(ss[k]) PROVE c[Len(a) + n] = ss[k][n]
    <3>1. CASE t = k - 1
      <4>0. Len(ss[k]) = 2
        BY <1>1, <3>1
      <4>1. ss[k] = <<"row", "barrier">> /\ Len(a) = t /\ n \in {1, 2}
        BY <1>1, <2>2, <3>1, <4>0
      <4>2. c[Len(a) + n] = RowOp(t, t + n)
        BY <2>3, <2>4, <4>1
      <4>3. QED
        BY <4>1, <4>2 DEF RowOp
    <3>2. CASE t # k - 1
      <4>0. Len(ss[k]) = 1
        BY <1>1, <3>2
      <4>1. ss[k] = <<"barrier">> /\ n = 1 /\ Len(a) + 1 # t + 1 /\ Len(a) + 1 \in 1..Len(c)
        BY <1>1, <2>2, <2>4, <3>2, <4>0
      <4>2. c[Len(a) + n] = RowOp(t, Len(a) + n)
        BY <2>3, <4>1
      <4>3. QED
        BY <4>1, <4>2 DEF RowOp
    <3>3. QED
      BY <3>1, <3>2
  <2>7. a \o ss[k] = c
    BY <2>1, <2>2, <2>3, <2>4, <2>5, <2>6, Joined
  <2>8. QED
    BY <2>7 DEF a, c
<1> DEFINE U == {k \in 0..T : F[k] = H(k)}
<1> HIDE DEF H
<1>8. 0 \in U
  BY <1>4, <1>6 DEF IsFlat
<1>9. ASSUME NEW k \in 1..T, k - 1 \in U PROVE k \in U
  <2>1. F[k] = F[k - 1] \o ss[k] /\ F[k - 1] = H(k - 1)
    BY <1>4, <1>9 DEF IsFlat
  <2>2. F[k] = H(k)
    BY <1>7, <2>1
  <2>3. QED
    BY <2>2
<1>10. T \in U
  <2> HIDE DEF U
  <2>1. 0..T \subseteq U
    BY <1>8, <1>9, UpTo
  <2>2. QED
    BY <2>1
<1>11. F[T] = H(T)
  BY <1>10
<1>12. H(T) = [n \in 1..(T + 1) |-> RowOp(t, n)]
  BY DEF H
<1>13. QED
  BY <1>3, <1>4, <1>11, <1>12

\* The operations of print_locality of thread t of rank r. Those of thread 0 are
\* barriers of MPI and of the threads in turn, but for the rows of its rank.
LocalityOp(T, r, t, n) ==
    IF t # 0 THEN IF n = 2 * r + t + 2 THEN "row" ELSE "barrier"
    ELSE IF n <= 4 * r + 2 THEN IF n % 2 = 1 THEN "mpi" ELSE "barrier"
    ELSE IF n = 4 * r + 3 THEN "row"
    ELSE IF n <= 4 * r + 3 + T THEN "barrier"
    ELSE IF (n - (T + 1)) % 2 = 1 THEN "mpi" ELSE "barrier"

RoundLen(t) == IF t = 0 THEN 4 ELSE 2
LocalityLen(R, T, t) == RoundLen(t) * R + T + 1

\* Round k of it, with the rows of rank r if it is the round of that.
RoundOp(T, r, k, t, n) ==
    IF t # 0 THEN IF r = k - 1 /\ n = t + 2 THEN "row" ELSE "barrier"
    ELSE IF r = k - 1
         THEN IF n \in {1, T + 4} THEN "mpi" ELSE IF n = 3 THEN "row" ELSE "barrier"
         ELSE IF n \in {1, 3} THEN "mpi" ELSE "barrier"

RoundOf(s, r, k, t) ==
    MpiBarrier(t) \o <<"barrier">> \o (IF r = k - 1 THEN Rows(s, t) ELSE <<>>)
      \o MpiBarrier(t) \o <<"barrier">>

LEMMA RoundIs ==
  ASSUME NEW s, NEW T, T = s.threads, T \in Nat \ {0}, NEW t \in 0..(T - 1),
         NEW r \in Nat, NEW k \in Nat
  PROVE  /\ RoundOf(s, r, k, t) \in Seq(Operation)
         /\ Len(RoundOf(s, r, k, t)) = RoundLen(t) + (IF r = k - 1 THEN T + 1 ELSE 0)
         /\ \A n \in 1..Len(RoundOf(s, r, k, t)) :
              RoundOf(s, r, k, t)[n] = RoundOp(T, r, k, t, n)
<1> DEFINE a == MpiBarrier(t) \o <<"barrier">>
           m == IF r = k - 1 THEN Rows(s, t) ELSE <<>>
           h == RoundLen(t) \div 2
<1>1. a \in Seq(Operation) /\ a = IF t = 0 THEN <<"mpi", "barrier">> ELSE <<"barrier">>
  <2>1. <<"mpi">> \o <<"barrier">> = <<"mpi", "barrier">>
    BY Tuples
  <2>2. <<>> \o <<"barrier">> = <<"barrier">>
    OBVIOUS
  <2>3. a = IF t = 0 THEN <<"mpi", "barrier">> ELSE <<"barrier">>
    <3>1. CASE t = 0
      BY <2>1, <3>1 DEF MpiBarrier
    <3>2. CASE t # 0
      BY <2>2, <3>2 DEF MpiBarrier
    <3>3. QED
      BY <3>1, <3>2
  <2> HIDE DEF a
  <2>4. <<"mpi", "barrier">> \in Seq(Operation) /\ <<"barrier">> \in Seq(Operation)
    BY DEF Operation
  <2>5. QED
    BY <2>3, <2>4
<1>2. /\ h \in {1, 2} /\ Len(a) = h /\ a[h] = "barrier" /\ (t = 0 => h = 2 /\ a[1] = "mpi")
      /\ (t # 0 => h = 1) /\ RoundLen(t) = h + h
  <2>1. CASE t = 0
    <3>1. h = 2 /\ RoundLen(t) = 4
      BY <2>1 DEF RoundLen
    <3>2. a = <<"mpi", "barrier">>
      BY <1>1, <2>1
    <3> HIDE DEF a, h
    <3>3. QED
      BY <2>1, <3>1, <3>2
  <2>2. CASE t # 0
    <3>1. h = 1 /\ RoundLen(t) = 2
      BY <2>2 DEF RoundLen
    <3>2. a = <<"barrier">>
      BY <1>1, <2>2
    <3> HIDE DEF a, h
    <3>3. QED
      BY <2>2, <3>1, <3>2
  <2>3. QED
    BY <2>1, <2>2
<1> DEFINE l == IF r = k - 1 THEN T + 1 ELSE 0
<1>3. /\ m \in Seq(Operation) /\ Len(m) = l /\ l \in Nat
      /\ r = k - 1 => \A n \in 1..l : m[n] = RowOp(t, n)
  <2>1. CASE r = k - 1
    <3>1. m = [n \in 1..(T + 1) |-> RowOp(t, n)]
      BY <2>1, RowsAre
    <3>2. \A n \in 1..(T + 1) : RowOp(t, n) \in Operation
      BY DEF RowOp, Operation
    <3> HIDE DEF m
    <3>3. QED
      BY <2>1, <3>1, <3>2
  <2>2. CASE r # k - 1
    <3>1. m = <<>> /\ l = 0
      BY <2>2
    <3> HIDE DEF m
    <3>2. QED
      BY <2>2, <3>1
  <2>3. QED
    BY <2>1, <2>2
<1> HIDE DEF a, m, h, l
<1> DEFINE b == a \o m
           c == b \o a
<1>4. /\ b \in Seq(Operation) /\ Len(b) = h + l
      /\ \A n \in 1..h : b[n] = a[n]
      /\ \A n \in 1..l : b[h + n] = m[n]
  <2>1. Len(a) = h /\ Len(m) = l
    BY <1>2, <1>3
  <2>2. QED
    BY <1>1, <1>3, <2>1, Joint
<1> HIDE DEF b
<1>5. /\ c \in Seq(Operation) /\ Len(c) = h + l + h
      /\ \A n \in 1..(h + l) : c[n] = b[n]
      /\ \A n \in 1..h : c[h + l + n] = a[n]
  <2>1. Len(a) = h /\ Len(b) = h + l
    BY <1>2, <1>4
  <2>2. QED
    BY <1>1, <1>4, <2>1, Joint
<1>6. RoundOf(s, r, k, t) = c
  <2>0. <<"mpi">> \in Seq(Operation) /\ <<>> \in Seq(Operation) /\ <<"barrier">> \in Seq(Operation)
    BY DEF Operation
  <2>1. MpiBarrier(t) \in Seq(Operation) /\ <<"barrier">> \in Seq(Operation)
    <3>1. CASE t = 0
      BY <2>0, <3>1 DEF MpiBarrier
    <3>2. CASE t # 0
      BY <2>0, <3>2 DEF MpiBarrier
    <3>3. QED
      BY <3>1, <3>2
  <2>2. (b \o MpiBarrier(t)) \o <<"barrier">> = b \o (MpiBarrier(t) \o <<"barrier">>)
    BY <1>4, <2>1, ConcatAssociative
  <2>3. QED
    BY <2>2 DEF RoundOf, a, b, m
<1> HIDE DEF c
<1>7. ASSUME NEW i \in 1..(h + l + h) PROVE c[i] = RoundOp(T, r, k, t, i)
  <2>1. CASE i <= h
    <3>1. c[i] = a[i]
      <4>1. i \in 1..h /\ i \in 1..(h + l)
        BY <1>2, <1>3, <2>1
      <4>2. QED
        BY <1>4, <1>5, <4>1
    <3>2. QED
      BY <1>2, <2>1, <3>1 DEF RoundOp
  <2>2. CASE i > h /\ i <= h + l
    <3>1. r = k - 1 /\ l = T + 1
      BY <1>2, <1>3, <2>2 DEF l
    <3> DEFINE j == i - h
    <3>2. j \in 1..l /\ h + j = i /\ i \in 1..(h + l)
      BY <1>2, <1>3, <2>2
    <3> HIDE DEF j
    <3>3. c[i] = RowOp(t, j)
      BY <1>3, <1>4, <1>5, <3>1, <3>2
    <3>4. i \in 1..(T + 3)
      BY <1>2, <2>2, <3>1
    <3>5. CASE t = 0
      <4>1. h = 2
        BY <1>2, <3>5
      <4>2. RowOp(t, j) = IF i = 3 THEN "row" ELSE "barrier"
        BY <3>2, <3>5, <4>1 DEF RowOp
      <4>3. i # 1 /\ i # T + 4
        BY <2>2, <3>4, <4>1
      <4>4. QED
        BY <3>1, <3>3, <3>5, <4>2, <4>3 DEF RoundOp
    <3>6. CASE t # 0
      <4>1. h = 1
        BY <1>2, <3>6
      <4>2. RowOp(t, j) = IF i = t + 2 THEN "row" ELSE "barrier"
        BY <3>2, <4>1 DEF RowOp
      <4>3. QED
        BY <3>1, <3>3, <3>6, <4>2 DEF RoundOp
    <3>7. QED
      BY <3>5, <3>6
  <2>3. CASE i > h + l
    <3> DEFINE j == i - (h + l)
    <3>1. j \in 1..h /\ h + l + j = i
      BY <1>2, <1>3, <2>3
    <3> HIDE DEF j
    <3>2. c[i] = a[j]
      BY <1>5, <3>1
    <3>3. l = IF r = k - 1 THEN T + 1 ELSE 0
      BY DEF l
    <3>4. CASE t = 0
      <4>1. h = 2 /\ j \in {1, 2} /\ a[1] = "mpi" /\ a[2] = "barrier"
        BY <1>2, <3>1, <3>4
      <4>2. CASE r = k - 1
        <5>1. i = T + 3 + j
          BY <3>1, <3>3, <4>1, <4>2
        <5>2. RoundOp(T, r, k, t, i) = IF i \in {1, T + 4} THEN "mpi" ELSE IF i = 3 THEN "row" ELSE "barrier"
          BY <3>4, <4>2 DEF RoundOp
        <5>3. QED
          BY <3>2, <4>1, <5>1, <5>2
      <4>3. CASE r # k - 1
        <5>1. i = 2 + j
          BY <3>1, <3>3, <4>1, <4>3
        <5>2. RoundOp(T, r, k, t, i) = IF i \in {1, 3} THEN "mpi" ELSE "barrier"
          BY <3>4, <4>3 DEF RoundOp
        <5>3. QED
          BY <3>2, <4>1, <5>1, <5>2
      <4>4. QED
        BY <4>2, <4>3
    <3>5. CASE t # 0
      <4>1. h = 1 /\ j = 1 /\ a[1] = "barrier"
        BY <1>2, <3>1, <3>5
      <4>2. r = k - 1 => i = T + 3
        BY <3>1, <3>3, <4>1
      <4>3. ~(r = k - 1 /\ i = t + 2)
        BY <4>2
      <4>4. QED
        BY <3>2, <3>5, <4>1, <4>3 DEF RoundOp
    <3>6. QED
      BY <3>4, <3>5
  <2>4. QED
    BY <1>2, <1>3, <2>1, <2>2, <2>3
<1>8. Len(c) = RoundLen(t) + (IF r = k - 1 THEN T + 1 ELSE 0)
  BY <1>2, <1>3, <1>5 DEF l
<1>9. QED
  BY <1>5, <1>6, <1>7, <1>8

\* How many operations come before round k + 1.
Before(T, r, t, k) == RoundLen(t) * k + (IF k > r THEN T + 1 ELSE 0)

\* The next round continues what has been said of those before it.
LEMMA RoundContinues ==
  ASSUME NEW T \in Nat \ {0}, NEW r \in Nat, NEW t \in 0..(T - 1), NEW k \in Nat \ {0},
         NEW n \in 1..(Before(T, r, t, k) - Before(T, r, t, k - 1))
  PROVE  LocalityOp(T, r, t, Before(T, r, t, k - 1) + n) = RoundOp(T, r, k, t, n)
<1> DEFINE m == Before(T, r, t, k - 1) + n
<1>1. CASE t # 0
  <2>1. /\ Before(T, r, t, k - 1) = 2 * (k - 1) + (IF k - 1 > r THEN T + 1 ELSE 0)
        /\ Before(T, r, t, k) = 2 * k + (IF k > r THEN T + 1 ELSE 0)
    BY <1>1 DEF Before, RoundLen
  <2>2. m \in Int /\ (m = 2 * r + t + 2 <=> (r = k - 1 /\ n = t + 2))
    <3>1. CASE r = k - 1
      <4>1. m = 2 * r + n
        BY <2>1, <3>1
      <4>2. QED
        BY <3>1, <4>1
    <3>2. CASE r < k - 1
      <4>1. m = 2 * (k - 1) + T + 1 + n
        BY <2>1, <3>2
      <4>2. QED
        BY <3>2, <4>1
    <3>3. CASE r > k - 1
      <4>1. m = 2 * (k - 1) + n /\ n \in 1..2
        BY <2>1, <3>3
      <4>2. QED
        BY <3>3, <4>1
    <3>4. QED
      BY <3>1, <3>2, <3>3
  <2> HIDE DEF m
  <2>3. LocalityOp(T, r, t, m) = RoundOp(T, r, k, t, n)
    BY <1>1, <2>2 DEF LocalityOp, RoundOp
  <2>4. QED
    BY <2>3 DEF m
<1>2. CASE t = 0
  <2>1. /\ Before(T, r, t, k - 1) = 4 * (k - 1) + (IF k - 1 > r THEN T + 1 ELSE 0)
        /\ Before(T, r, t, k) = 4 * k + (IF k > r THEN T + 1 ELSE 0)
    BY <1>2 DEF Before, RoundLen
  <2>2. CASE r = k - 1
    <3>1. m = 4 * r + n /\ n \in 1..(T + 5)
      BY <2>1, <2>2
    <3> HIDE DEF m
    <3>2. CASE n <= 2
      <4>1. n \in {1, 2} /\ m <= 4 * r + 2 /\ (m % 2 = 1 <=> n = 1)
        BY <3>1, <3>2
      <4>2. QED
        BY <1>2, <2>2, <4>1 DEF LocalityOp, RoundOp, m
    <3>3. CASE n > 2 /\ n <= T + 3
      <4>1. ~(m <= 4 * r + 2) /\ m <= 4 * r + 3 + T /\ (m = 4 * r + 3 <=> n = 3)
        BY <3>1, <3>3
      <4>2. ~(n \in {1, T + 4})
        BY <3>3
      <4>3. LocalityOp(T, r, t, m) = RoundOp(T, r, k, t, n)
        BY <1>2, <2>2, <4>1, <4>2 DEF LocalityOp, RoundOp
      <4>4. QED
        BY <4>3 DEF m
    <3>4. CASE n > T + 3
      <4>1. n \in {T + 4, T + 5}
        BY <3>1, <3>4
      <4>2. /\ ~(m <= 4 * r + 2) /\ ~(m <= 4 * r + 3 + T) /\ m # 4 * r + 3
            /\ ((m - (T + 1)) % 2 = 1 <=> n = T + 4)
        <5>1. m - (T + 1) = 4 * r + (n - (T + 1))
          BY <3>1
        <5>2. (m - (T + 1)) = 4 * r + 3 \/ (m - (T + 1)) = 4 * r + 4
          BY <4>1, <5>1
        <5>3. QED
          BY <3>1, <4>1, <5>2
      <4>3. n # 1 /\ n # 3
        BY <4>1
      <4>4. LocalityOp(T, r, t, m) = RoundOp(T, r, k, t, n)
        BY <1>2, <2>2, <4>1, <4>2, <4>3 DEF LocalityOp, RoundOp
      <4>5. QED
        BY <4>4 DEF m
    <3>5. QED
      BY <3>1, <3>2, <3>3, <3>4
  <2>3. CASE r > k - 1
    <3>1. m = 4 * (k - 1) + n /\ n \in 1..4 /\ m <= 4 * r
      BY <2>1, <2>3
    <3> HIDE DEF m
    <3>2. m <= 4 * r + 2 /\ (m % 2 = 1 <=> n \in {1, 3})
      BY <3>1
    <3>3. LocalityOp(T, r, t, m) = RoundOp(T, r, k, t, n)
      BY <1>2, <2>3, <3>2 DEF LocalityOp, RoundOp
    <3>4. QED
      BY <3>3 DEF m
  <2>4. CASE r < k - 1
    <3>1. m = 4 * (k - 1) + T + 1 + n /\ n \in 1..4 /\ m > 4 * r + 4 + T
      BY <2>1, <2>4
    <3> HIDE DEF m
    <3>2. /\ ~(m <= 4 * r + 2) /\ ~(m <= 4 * r + 3 + T) /\ m # 4 * r + 3
          /\ ((m - (T + 1)) % 2 = 1 <=> n \in {1, 3})
      <4>1. m - (T + 1) = 4 * (k - 1) + n
        BY <3>1
      <4>2. (m - (T + 1)) % 2 = 1 <=> n \in {1, 3}
        BY <3>1, <4>1
      <4>3. QED
        BY <3>1, <4>2
    <3>3. LocalityOp(T, r, t, m) = RoundOp(T, r, k, t, n)
      BY <1>2, <2>4, <3>2 DEF LocalityOp, RoundOp
    <3>4. QED
      BY <3>3 DEF m
  <2>5. QED
    BY <2>2, <2>3, <2>4
<1>3. QED
  BY <1>1, <1>2

LEMMA LocalityIs ==
  ASSUME NEW s, NEW R, R = s.ranks, R \in Nat, NEW T, T = s.threads, T \in Nat \ {0},
         NEW r \in 0..(R - 1), NEW t \in 0..(T - 1)
  PROVE  print_locality(s, <<r, t>>) = [n \in 1..LocalityLen(R, T, t) |-> LocalityOp(T, r, t, n)]
<1> DEFINE ss == [k \in 1..R |-> RoundOf(s, r, k, t)]
           H(k) == [n \in 1..Before(T, r, t, k) |-> LocalityOp(T, r, t, n)]
<1>1. \A k \in 1..R :
        /\ ss[k] \in Seq(Operation)
        /\ Len(ss[k]) = RoundLen(t) + (IF r = k - 1 THEN T + 1 ELSE 0)
        /\ \A n \in 1..Len(ss[k]) : ss[k][n] = RoundOp(T, r, k, t, n)
  <2> TAKE k \in 1..R
  <2>1. ss[k] = RoundOf(s, r, k, t)
    OBVIOUS
  <2> HIDE DEF ss
  <2>2. r \in Nat /\ k \in Nat
    OBVIOUS
  <2>3. /\ RoundOf(s, r, k, t) \in Seq(Operation)
        /\ Len(RoundOf(s, r, k, t)) = RoundLen(t) + (IF r = k - 1 THEN T + 1 ELSE 0)
        /\ \A n \in 1..Len(RoundOf(s, r, k, t)) : RoundOf(s, r, k, t)[n] = RoundOp(T, r, k, t, n)
    BY <2>2, RoundIs
  <2>4. QED
    BY <2>1, <2>3, Zenon
<1>2. ss \in [1..R -> Seq(Operation)]
  <2>1. \A k \in 1..R : RoundOf(s, r, k, t) \in Seq(Operation)
    BY <1>1
  <2>2. QED
    BY <2>1
<1>3. print_locality(s, <<r, t>>) = FlattenSeq(ss)
  BY DEF print_locality, RoundOf
<1> HIDE DEF ss
<1>4. PICK F \in [0..R -> Seq(Operation)] : IsFlat(F, ss, R) /\ FlattenSeq(ss) = F[R]
  BY <1>2, Flatten
<1>5. ASSUME NEW k \in 0..R
      PROVE  /\ Before(T, r, t, k) \in Nat
             /\ H(k) \in Seq(Operation) /\ Len(H(k)) = Before(T, r, t, k)
             /\ \A n \in 1..Len(H(k)) : H(k)[n] = LocalityOp(T, r, t, n)
  <2> DEFINE m == Before(T, r, t, k)
  <2>1. m \in Nat
    BY DEF Before, RoundLen
  <2>2. \A n \in 1..m : LocalityOp(T, r, t, n) \in Operation
    BY DEF LocalityOp, Operation
  <2> HIDE DEF m
  <2>3. /\ [n \in 1..m |-> LocalityOp(T, r, t, n)] \in Seq(Operation)
        /\ Len([n \in 1..m |-> LocalityOp(T, r, t, n)]) = m
    BY <2>1, <2>2
  <2>4. QED
    BY <2>1, <2>3 DEF m
<1>6. H(0) = <<>>
  <2>1. Before(T, r, t, 0) = 0
    BY DEF Before, RoundLen
  <2>2. QED
    BY <2>1
<1>7. ASSUME NEW k \in 1..R PROVE H(k - 1) \o ss[k] = H(k)
  <2> DEFINE a == H(k - 1)
             b == ss[k]
             c == H(k)
             x == Before(T, r, t, k - 1)
             y == Before(T, r, t, k)
  <2>1. /\ x \in Nat /\ a \in Seq(Operation) /\ Len(a) = x
        /\ \A n \in 1..x : a[n] = LocalityOp(T, r, t, n)
    <3>1. k - 1 \in 0..R
      OBVIOUS
    <3>2. QED
      BY <1>5, <3>1
  <2>2. /\ y \in Nat /\ c \in Seq(Operation) /\ Len(c) = y
        /\ \A n \in 1..y : c[n] = LocalityOp(T, r, t, n)
    BY <1>5
  <2>3. y - x = RoundLen(t) + (IF r = k - 1 THEN T + 1 ELSE 0)
    <3> DEFINE c0 == RoundLen(t)
    <3>1. c0 \in {2, 4}
      BY DEF RoundLen
    <3>2. x = c0 * (k - 1) + (IF k - 1 > r THEN T + 1 ELSE 0) /\ y = c0 * k + (IF k > r THEN T + 1 ELSE 0)
      BY DEF Before
    <3> HIDE DEF c0, x, y
    <3> DEFINE u == c0 * (k - 1)
               v == c0 * k
    <3>3. v = u + c0 /\ u \in Int /\ v \in Int
      BY <3>1
    <3>4. x = u + (IF k - 1 > r THEN T + 1 ELSE 0) /\ y = v + (IF k > r THEN T + 1 ELSE 0)
      BY <3>2
    <3> HIDE DEF u, v
    <3>5. CASE r = k - 1
      <4>1. x = u /\ y = v + (T + 1)
        BY <3>3, <3>4, <3>5
      <4>2. y - x = c0 + (T + 1)
        BY <3>1, <3>3, <4>1
      <4>3. QED
        BY <3>1, <3>5, <4>2 DEF c0
    <3>6. CASE k > r /\ k - 1 > r
      <4>1. x = u + (T + 1) /\ y = v + (T + 1) /\ r # k - 1
        BY <3>3, <3>4, <3>6
      <4>2. y - x = c0
        BY <3>1, <3>3, <4>1
      <4>3. QED
        BY <3>1, <4>1, <4>2 DEF c0
    <3>7. CASE ~(k > r) /\ ~(k - 1 > r)
      BY <3>1, <3>3, <3>4, <3>7 DEF c0
    <3>8. QED
      BY <3>5, <3>6, <3>7
  <2>4. \A n \in 1..(y - x) : LocalityOp(T, r, t, x + n) = RoundOp(T, r, k, t, n)
    BY RoundContinues
  <2>5. b \in Seq(Operation) /\ Len(b) = y - x /\ \A n \in 1..(y - x) : b[n] = RoundOp(T, r, k, t, n)
    BY <1>1, <2>3
  <2> HIDE DEF a, b, c, x, y
  <2>6. Len(c) = Len(a) + Len(b) /\ Len(b) \in Nat
    BY <2>1, <2>2, <2>5
  <2>7. y = x + Len(b)
    BY <2>1, <2>2, <2>6
  <2>8. ASSUME NEW n \in 1..Len(a) PROVE c[n] = a[n]
    <3>1. n \in 1..x /\ n \in 1..y
      BY <2>1, <2>2, <2>6, <2>7
    <3>2. QED
      BY <2>1, <2>2, <3>1
  <2>9. ASSUME NEW n \in 1..Len(b) PROVE c[Len(a) + n] = b[n]
    <3>1. n \in 1..(y - x) /\ x + n \in 1..y /\ Len(a) = x
      BY <2>1, <2>2, <2>6, <2>7
    <3>2. QED
      BY <2>2, <2>4, <2>5, <3>1
  <2>10. a \o b = c
    BY <2>1, <2>2, <2>5, <2>6, <2>8, <2>9, Joined
  <2>11. QED
    BY <2>10 DEF a, b, c
<1> HIDE DEF H
<1> DEFINE U == {k \in 0..R : F[k] = H(k)}
<1>8. 0 \in U
  BY <1>4, <1>6 DEF IsFlat
<1>9. ASSUME NEW k \in 1..R, k - 1 \in U PROVE k \in U
  <2>1. F[k] = F[k - 1] \o ss[k] /\ F[k - 1] = H(k - 1)
    BY <1>4, <1>9 DEF IsFlat
  <2>2. F[k] = H(k)
    BY <1>7, <2>1
  <2>3. QED
    BY <2>2
<1>10. R \in U
  <2> HIDE DEF U
  <2>1. 0..R \subseteq U
    BY <1>8, <1>9, UpTo
  <2>2. QED
    BY <2>1
<1>11. F[R] = H(R)
  BY <1>10
<1>12. Before(T, r, t, R) = LocalityLen(R, T, t)
  BY DEF Before, LocalityLen, RoundLen
<1>13. QED
  BY <1>3, <1>4, <1>11, <1>12 DEF H

-----------------------------------------------------------------------------
(***************************************************************************)
(* After the table all threads do the same, but that only thread 0 calls MPI:  *)
(* these are the stages, of which the others skip three.                     *)
(***************************************************************************)
Stages == <<"barrier", "mpi", "barrier", "check", "wait",
            "barrier", "mpi", "barrier", "warm_up", "wait", "idle",
            "barrier", "mpi", "barrier", "main_loop", "wait", "idle", "clear", "idle">>

StageOf(t, x) == IF t = 0 \/ x <= 1 THEN x
                 ELSE IF x <= 5 THEN x + 1 ELSE IF x <= 10 THEN x + 2 ELSE x + 3

StagesLen(t) == IF t = 0 THEN 19 ELSE 16

Closing(t) == [x \in 1..StagesLen(t) |-> Stages[StageOf(t, x)]]

PhaseOp(t, name) ==
    IF t = 0 THEN <<"barrier", "mpi", "barrier", name, "wait">>
    ELSE <<"barrier", "barrier", name, "wait">>

LEMMA StagesAre == \A u \in 1..19 : Stages[u] \in Operation
BY DEF Stages, Operation

LEMMA PhaseIs ==
  ASSUME NEW t, NEW name \in Operation
  PROVE  Phase(t, name) = PhaseOp(t, name) /\ Phase(t, name) \in Seq(Operation)
<1> DEFINE b == <<"barrier">>
           m == <<"mpi">>
           e == <<"barrier", name, "wait">>
<1>1. b \in Seq(Operation) /\ m \in Seq(Operation) /\ e \in Seq(Operation)
  BY DEF Operation
<1>2. CASE t = 0
  <2>1. b \o m = <<"barrier", "mpi">>
    BY Tuples
  <2> DEFINE a == <<"barrier", "mpi">>
             c == <<"barrier", "mpi", "barrier", name, "wait">>
  <2>2. /\ a \in Seq(Operation) /\ c \in Seq(Operation) /\ Len(a) = 2 /\ Len(c) = 5 /\ Len(e) = 3
        /\ a[1] = c[1] /\ a[2] = c[2] /\ e[1] = c[3] /\ e[2] = c[4] /\ e[3] = c[5]
    BY DEF Operation
  <2>3. a \o e = c
    <3> HIDE DEF a, e, c
    <3>1. Len(c) = Len(a) + Len(e)
      BY <2>2
    <3>2. \A n \in 1..Len(a) : c[n] = a[n]
      BY <2>2
    <3>3. \A n \in 1..Len(e) : c[Len(a) + n] = e[n]
      BY <2>2
    <3>4. QED
      BY <1>1, <2>2, <3>1, <3>2, <3>3, Joined
  <2>4. QED
    BY <1>2, <2>1, <2>2, <2>3 DEF Phase, PhaseOp, MpiBarrier
<1>3. CASE t # 0
  <2> DEFINE c == <<"barrier", "barrier", name, "wait">>
  <2>1. b \o <<>> = b
    BY <1>1, ConcatEmptySeq
  <2>2. /\ c \in Seq(Operation) /\ Len(b) = 1 /\ Len(c) = 4 /\ Len(e) = 3
        /\ b[1] = c[1] /\ e[1] = c[2] /\ e[2] = c[3] /\ e[3] = c[4]
    BY DEF Operation
  <2>3. b \o e = c
    <3> HIDE DEF b, e, c
    <3>1. Len(c) = Len(b) + Len(e)
      BY <2>2
    <3>2. \A n \in 1..Len(b) : c[n] = b[n]
      BY <2>2
    <3>3. \A n \in 1..Len(e) : c[Len(b) + n] = e[n]
      BY <2>2
    <3>4. QED
      BY <1>1, <2>2, <3>1, <3>2, <3>3, Joined
  <2>4. QED
    BY <1>3, <2>1, <2>2, <2>3 DEF Phase, PhaseOp, MpiBarrier
<1>4. QED
  BY <1>2, <1>3

\* What is joined to a sequence is what comes after it.
Starts(a, c) == Len(a) <= Len(c) /\ \A n \in 1..Len(a) : a[n] = c[n]
Follows(b, c, i) == i + Len(b) <= Len(c) /\ \A n \in 1..Len(b) : b[n] = c[i + n]

LEMMA Continues ==
  ASSUME NEW a \in Seq(Operation), NEW b \in Seq(Operation), NEW c \in Seq(Operation),
         NEW i, i = Len(a), Starts(a, c), Follows(b, c, i)
  PROVE  /\ a \o b \in Seq(Operation) /\ Len(a \o b) = i + Len(b) /\ Starts(a \o b, c)
<1> DEFINE j == Len(b)
<1>0. /\ i \in Nat /\ j \in Nat /\ i + j <= Len(c)
      /\ \A n \in 1..i : a[n] = c[n]
      /\ \A n \in 1..j : b[n] = c[i + n]
  <2>1. i \in Nat /\ j \in Nat
    OBVIOUS
  <2>2. QED
    BY <2>1 DEF Starts, Follows
<1>1. /\ a \o b \in Seq(Operation) /\ Len(a \o b) = i + j
      /\ \A n \in 1..i : (a \o b)[n] = a[n]
      /\ \A n \in 1..j : (a \o b)[i + n] = b[n]
  BY Joint
<1> HIDE DEF j
<1>2. ASSUME NEW n \in 1..(i + j) PROVE (a \o b)[n] = c[n]
  <2>0. n <= i \/ n > i
    BY <1>0
  <2>1. CASE n <= i
    <3>1. n \in 1..i
      BY <1>0, <2>1
    <3>2. QED
      BY <1>0, <1>1, <3>1
  <2>2. CASE n > i
    <3> DEFINE k == n - i
    <3>1. k \in 1..j /\ i + k = n
      BY <1>0, <2>2
    <3> HIDE DEF k
    <3>2. (a \o b)[i + k] = b[k] /\ b[k] = c[i + k]
      BY <1>0, <1>1, <3>1
    <3>3. QED
      BY <3>1, <3>2
  <2>3. QED
    BY <2>0, <2>1, <2>2
<1>3. QED
  BY <1>0, <1>1, <1>2 DEF Starts, j

\* The three phases and what is between and after them.
LEMMA ClosingIs ==
  ASSUME NEW t \in Nat
  PROVE  /\ ((((Phase(t, "check") \o Phase(t, "warm_up")) \o <<"idle">>)
                \o Phase(t, "main_loop")) \o <<"idle", "clear", "idle">>) = Closing(t)
         /\ Closing(t) \in Seq(Operation) /\ Len(Closing(t)) = StagesLen(t)
<1> DEFINE c == Closing(t)
           l == StagesLen(t)
           p1 == Phase(t, "check")
           p2 == Phase(t, "warm_up")
           p3 == Phase(t, "main_loop")
           i1 == <<"idle">>
           i3 == <<"idle", "clear", "idle">>
<1>1. c \in Seq(Operation) /\ Len(c) = l /\ \A x \in 1..l : c[x] = Stages[StageOf(t, x)]
  <2>1. l \in Nat /\ \A x \in 1..l : StageOf(t, x) \in 1..19
    BY DEF StagesLen, StageOf
  <2>2. \A x \in 1..l : Stages[StageOf(t, x)] \in Operation
    BY <2>1, StagesAre
  <2> HIDE DEF l
  <2> DEFINE d == [x \in 1..l |-> Stages[StageOf(t, x)]]
  <2>3. d \in Seq(Operation) /\ Len(d) = l /\ \A x \in 1..l : d[x] = Stages[StageOf(t, x)]
    BY <2>1, <2>2
  <2>4. c = d
    BY DEF Closing, l
  <2>5. QED
    BY <2>3, <2>4
<1>2. {"check", "warm_up", "main_loop"} \subseteq Operation
  BY DEF Operation
<1>3. /\ p1 \in Seq(Operation) /\ p2 \in Seq(Operation) /\ p3 \in Seq(Operation)
      /\ p1 = PhaseOp(t, "check") /\ p2 = PhaseOp(t, "warm_up") /\ p3 = PhaseOp(t, "main_loop")
  BY <1>2, PhaseIs
<1>4. i1 \in Seq(Operation) /\ i3 \in Seq(Operation)
  BY DEF Operation
<1>5. PICK x1, x2, x3, x4 \in Nat :
        /\ Starts(p1, c) /\ Len(p1) = x1
        /\ Follows(p2, c, x1) /\ x1 + Len(p2) = x2
        /\ Follows(i1, c, x2) /\ x2 + Len(i1) = x3
        /\ Follows(p3, c, x3) /\ x3 + Len(p3) = x4
        /\ Follows(i3, c, x4) /\ x4 + Len(i3) = l
  <2>1. CASE t = 0
    <3>1. l = 19 /\ \A x \in 1..19 : StageOf(t, x) = x
      BY <2>1 DEF StageOf, StagesLen
    <3>3. /\ p1 = <<"barrier", "mpi", "barrier", "check", "wait">>
          /\ p2 = <<"barrier", "mpi", "barrier", "warm_up", "wait">>
          /\ p3 = <<"barrier", "mpi", "barrier", "main_loop", "wait">>
      BY <1>3, <2>1 DEF PhaseOp
    <3> HIDE DEF c, l, p1, p2, p3
    <3>2. Len(c) = 19 /\ \A x \in 1..19 : c[x] = Stages[x]
      BY <1>1, <3>1
    <3>4. /\ c[1] = "barrier" /\ c[2] = "mpi" /\ c[3] = "barrier" /\ c[4] = "check" /\ c[5] = "wait"
          /\ c[6] = "barrier" /\ c[7] = "mpi" /\ c[8] = "barrier" /\ c[9] = "warm_up" /\ c[10] = "wait"
          /\ c[11] = "idle"
          /\ c[12] = "barrier" /\ c[13] = "mpi" /\ c[14] = "barrier" /\ c[15] = "main_loop" /\ c[16] = "wait"
          /\ c[17] = "idle" /\ c[18] = "clear" /\ c[19] = "idle"
      BY <3>2 DEF Stages
    <3>5. Len(p1) = 5 /\ \A n \in 1..5 : p1[n] = c[n]
      BY <3>3, <3>4
    <3>6. Len(p2) = 5 /\ \A n \in 1..5 : p2[n] = c[5 + n]
      BY <3>3, <3>4
    <3>7. Len(p3) = 5 /\ \A n \in 1..5 : p3[n] = c[11 + n]
      BY <3>3, <3>4
    <3>8. /\ Len(i1) = 1 /\ \A n \in 1..1 : i1[n] = c[10 + n]
          /\ Len(i3) = 3 /\ \A n \in 1..3 : i3[n] = c[16 + n]
      BY <3>4
    <3> HIDE DEF i1, i3
    <3>9. /\ Starts(p1, c) /\ Follows(p2, c, 5) /\ Follows(i1, c, 10) /\ Follows(p3, c, 11) /\ Follows(i3, c, 16)
      BY <3>2, <3>5, <3>6, <3>7, <3>8 DEF Starts, Follows
    <3>10. QED
      BY <3>1, <3>5, <3>6, <3>7, <3>8, <3>9
  <2>2. CASE t # 0
    <3>1. l = 16
      BY <2>2 DEF StagesLen
    <3>3. /\ p1 = <<"barrier", "barrier", "check", "wait">>
          /\ p2 = <<"barrier", "barrier", "warm_up", "wait">>
          /\ p3 = <<"barrier", "barrier", "main_loop", "wait">>
      BY <1>3, <2>2 DEF PhaseOp
    <3> HIDE DEF c, l, p1, p2, p3
    <3>2. Len(c) = 16 /\ \A x \in 1..16 : c[x] = Stages[StageOf(t, x)]
      BY <1>1, <3>1
    <3>4. /\ c[1] = "barrier" /\ c[2] = "barrier" /\ c[3] = "check" /\ c[4] = "wait"
          /\ c[5] = "barrier" /\ c[6] = "barrier" /\ c[7] = "warm_up" /\ c[8] = "wait"
          /\ c[9] = "idle"
          /\ c[10] = "barrier" /\ c[11] = "barrier" /\ c[12] = "main_loop" /\ c[13] = "wait"
          /\ c[14] = "idle" /\ c[15] = "clear" /\ c[16] = "idle"
      BY <2>2, <3>2 DEF Stages, StageOf
    <3>5. Len(p1) = 4 /\ \A n \in 1..4 : p1[n] = c[n]
      BY <3>3, <3>4
    <3>6. Len(p2) = 4 /\ \A n \in 1..4 : p2[n] = c[4 + n]
      BY <3>3, <3>4
    <3>7. Len(p3) = 4 /\ \A n \in 1..4 : p3[n] = c[9 + n]
      BY <3>3, <3>4
    <3>8. /\ Len(i1) = 1 /\ \A n \in 1..1 : i1[n] = c[8 + n]
          /\ Len(i3) = 3 /\ \A n \in 1..3 : i3[n] = c[13 + n]
      BY <3>4
    <3> HIDE DEF i1, i3
    <3>9. /\ Starts(p1, c) /\ Follows(p2, c, 4) /\ Follows(i1, c, 8) /\ Follows(p3, c, 9) /\ Follows(i3, c, 13)
      BY <3>2, <3>5, <3>6, <3>7, <3>8 DEF Starts, Follows
    <3>10. QED
      BY <3>1, <3>5, <3>6, <3>7, <3>8, <3>9
  <2>3. QED
    BY <2>1, <2>2
<1> HIDE DEF c, l, p1, p2, p3, i1, i3
<1> DEFINE a1 == p1 \o p2
           a2 == a1 \o i1
           a3 == a2 \o p3
           a4 == a3 \o i3
<1>6. a1 \in Seq(Operation) /\ x2 = Len(a1) /\ Starts(a1, c)
  <2>1. p1 \in Seq(Operation) /\ p2 \in Seq(Operation) /\ c \in Seq(Operation) /\ x1 = Len(p1)
    BY <1>1, <1>3, <1>5
  <2>2. Starts(p1, c) /\ Follows(p2, c, x1)
    BY <1>3, <1>5
  <2>3. p1 \o p2 \in Seq(Operation) /\ Len(p1 \o p2) = x1 + Len(p2) /\ Starts(p1 \o p2, c)
    BY <2>1, <2>2, Continues
  <2>4. QED
    BY <1>5, <2>3 DEF a1
<1> HIDE DEF a1
<1>7. a2 \in Seq(Operation) /\ x3 = Len(a2) /\ Starts(a2, c)
  <2>1. a1 \in Seq(Operation) /\ i1 \in Seq(Operation) /\ c \in Seq(Operation) /\ x2 = Len(a1)
    BY <1>1, <1>4, <1>5, <1>6
  <2>2. Starts(a1, c) /\ Follows(i1, c, x2)
    BY <1>4, <1>5, <1>6
  <2>3. a1 \o i1 \in Seq(Operation) /\ Len(a1 \o i1) = x2 + Len(i1) /\ Starts(a1 \o i1, c)
    BY <2>1, <2>2, Continues
  <2>4. QED
    BY <1>5, <2>3 DEF a2
<1> HIDE DEF a2
<1>8. a3 \in Seq(Operation) /\ x4 = Len(a3) /\ Starts(a3, c)
  <2>1. a2 \in Seq(Operation) /\ p3 \in Seq(Operation) /\ c \in Seq(Operation) /\ x3 = Len(a2)
    BY <1>1, <1>3, <1>5, <1>7
  <2>2. Starts(a2, c) /\ Follows(p3, c, x3)
    BY <1>3, <1>5, <1>7
  <2>3. a2 \o p3 \in Seq(Operation) /\ Len(a2 \o p3) = x3 + Len(p3) /\ Starts(a2 \o p3, c)
    BY <2>1, <2>2, Continues
  <2>4. QED
    BY <1>5, <2>3 DEF a3
<1> HIDE DEF a3
<1>9. a4 \in Seq(Operation) /\ l = Len(a4) /\ Starts(a4, c)
  <2>1. a3 \in Seq(Operation) /\ i3 \in Seq(Operation) /\ c \in Seq(Operation) /\ x4 = Len(a3)
    BY <1>1, <1>4, <1>5, <1>8
  <2>2. Starts(a3, c) /\ Follows(i3, c, x4)
    BY <1>4, <1>5, <1>8
  <2>3. a3 \o i3 \in Seq(Operation) /\ Len(a3 \o i3) = x4 + Len(i3) /\ Starts(a3 \o i3, c)
    BY <2>1, <2>2, Continues
  <2>4. QED
    BY <1>5, <2>3 DEF a4
<1> HIDE DEF a4
<1>10. a4 = c
  <2>1. Len(a4) = Len(c)
    BY <1>1, <1>9
  <2>2. \A n \in 1..Len(a4) : a4[n] = c[n]
    BY <1>9 DEF Starts
  <2>3. QED
    BY <1>1, <1>9, <2>1, <2>2, SeqEqual
<1>11. QED
  BY <1>1, <1>10 DEF a1, a2, a3, a4, c, l, p1, p2, p3, i1, i3

-----------------------------------------------------------------------------
(***************************************************************************)
(* The script of a process: what it does at every place of it.               *)
(***************************************************************************)
WorkerLen(R, T, t) == LocalityLen(R, T, t) + StagesLen(t)

\* 0 while it prints the table
StageAt(R, T, t, n) ==
    IF n <= LocalityLen(R, T, t) THEN 0 ELSE StageOf(t, n - LocalityLen(R, T, t))

WorkerOp(R, T, r, t, n) ==
    IF n <= LocalityLen(R, T, t) THEN LocalityOp(T, r, t, n) ELSE Stages[StageAt(R, T, t, n)]

ScriptLen(s, p) == IF p[2] = -1 THEN 10 ELSE WorkerLen(s.ranks, s.threads, p[2])
OpAt(s, p, n) == IF p[2] = -1 THEN MainScript[n] ELSE WorkerOp(s.ranks, s.threads, p[1], p[2], n)

Joins(a, b, c) == c = a \o b

LEMMA Associative ==
  ASSUME NEW a \in Seq(Operation), NEW b \in Seq(Operation), NEW c \in Seq(Operation),
         NEW d, Joins(a, b, d), NEW e, Joins(b, c, e), NEW x, Joins(d, c, x)
  PROVE  Joins(a, e, x)
<1>0. d = a \o b /\ e = b \o c /\ x = d \o c
  BY DEF Joins
<1> DEFINE i == Len(a)
           j == Len(b)
           k == Len(c)
           y == a \o e
<1>1. /\ d \in Seq(Operation) /\ Len(d) = i + j
      /\ \A n \in 1..i : d[n] = a[n]
      /\ \A n \in 1..j : d[i + n] = b[n]
  BY <1>0, Joint
<1>2. /\ e \in Seq(Operation) /\ Len(e) = j + k
      /\ \A n \in 1..j : e[n] = b[n]
      /\ \A n \in 1..k : e[j + n] = c[n]
  BY <1>0, Joint
<1>3. /\ x \in Seq(Operation) /\ Len(x) = Len(d) + k
      /\ \A n \in 1..Len(d) : x[n] = d[n]
      /\ \A n \in 1..k : x[Len(d) + n] = c[n]
  BY <1>0, <1>1, Joint
<1>4. /\ y \in Seq(Operation) /\ Len(y) = i + Len(e)
      /\ \A n \in 1..i : y[n] = a[n]
      /\ \A n \in 1..Len(e) : y[i + n] = e[n]
  BY <1>2, Joint
<1>5. i \in Nat /\ j \in Nat /\ k \in Nat
  OBVIOUS
<1> HIDE DEF i, j, k, y
<1>6. Len(x) = i + j + k /\ Len(y) = i + j + k
  BY <1>1, <1>2, <1>3, <1>4, <1>5
<1>7. ASSUME NEW n \in 1..(i + j + k) PROVE x[n] = y[n]
  <2>1. CASE n <= i
    <3>1. n \in 1..i /\ n \in 1..(i + j)
      BY <1>5, <2>1
    <3>2. QED
      BY <1>1, <1>3, <1>4, <3>1
  <2>2. CASE n > i /\ n <= i + j
    <3> DEFINE m == n - i
    <3>1. m \in 1..j /\ i + m = n /\ m \in 1..(j + k) /\ n \in 1..(i + j)
      BY <1>5, <2>2
    <3> HIDE DEF m
    <3>2. d[i + m] = b[m] /\ e[m] = b[m]
      BY <1>1, <1>2, <3>1
    <3>3. y[i + m] = e[m]
      BY <1>2, <1>4, <3>1
    <3>4. x[n] = d[n]
      BY <1>1, <1>3, <3>1
    <3>5. QED
      BY <3>1, <3>2, <3>3, <3>4
  <2>3. CASE n > i + j
    <3> DEFINE m == n - (i + j)
               q == j + m
    <3>1. m \in 1..k /\ (i + j) + m = n /\ q \in 1..(j + k) /\ i + q = n /\ q = j + m
      BY <1>5, <2>3
    <3> HIDE DEF m, q
    <3>2. x[(i + j) + m] = c[m]
      BY <1>1, <1>3, <3>1
    <3>3. y[i + q] = e[q]
      BY <1>2, <1>4, <3>1
    <3>4. e[q] = c[m]
      BY <1>2, <3>1
    <3>5. QED
      BY <3>1, <3>2, <3>3, <3>4
  <2>4. QED
    BY <1>5, <2>1, <2>2, <2>3
<1>8. x = y
  BY <1>3, <1>4, <1>6, <1>7, SeqEqual
<1>9. QED
  BY <1>8 DEF y, Joins

LEMMA WorkerScriptIs ==
  ASSUME NEW s, NEW R, R = s.ranks, R \in Nat, NEW T, T = s.threads, T \in Nat \ {0},
         NEW r \in 0..(R - 1), NEW t \in 0..(T - 1)
  PROVE  /\ WorkerScript(s, <<r, t>>) \in Seq(Operation)
         /\ Len(WorkerScript(s, <<r, t>>)) = WorkerLen(R, T, t)
         /\ \A n \in 1..WorkerLen(R, T, t) : WorkerScript(s, <<r, t>>)[n] = WorkerOp(R, T, r, t, n)
<1> DEFINE pl == print_locality(s, <<r, t>>)
           p1 == Phase(t, "check")
           p2 == Phase(t, "warm_up")
           p3 == Phase(t, "main_loop")
           i1 == <<"idle">>
           i3 == <<"idle", "clear", "idle">>
           c == Closing(t)
           l == LocalityLen(R, T, t)
<1>1. WorkerScript(s, <<r, t>>) = ((((pl \o p1) \o p2) \o i1) \o p3) \o i3
  BY DEF WorkerScript
<1>2. /\ l \in Nat /\ t \in Nat
      /\ pl = [n \in 1..l |-> LocalityOp(T, r, t, n)]
      /\ \A n \in 1..l : LocalityOp(T, r, t, n) \in Operation
  <2>1. l \in Nat
    <3>1. RoundLen(t) \in {2, 4}
      BY DEF RoundLen
    <3>2. RoundLen(t) * R \in Nat
      BY <3>1
    <3>3. QED
      BY <3>2 DEF LocalityLen
  <2>2. pl = [n \in 1..l |-> LocalityOp(T, r, t, n)]
    BY LocalityIs
  <2>3. \A n \in 1..l : LocalityOp(T, r, t, n) \in Operation
    BY DEF LocalityOp, Operation
  <2>4. QED
    BY <2>1, <2>2, <2>3
<1>3. {"check", "warm_up", "main_loop"} \subseteq Operation
  BY DEF Operation
<1>4. /\ p1 \in Seq(Operation) /\ p2 \in Seq(Operation) /\ p3 \in Seq(Operation)
      /\ i1 \in Seq(Operation) /\ i3 \in Seq(Operation)
  <2>1. p1 \in Seq(Operation) /\ p2 \in Seq(Operation) /\ p3 \in Seq(Operation)
    BY <1>3, PhaseIs
  <2>2. i1 \in Seq(Operation) /\ i3 \in Seq(Operation)
    BY DEF Operation
  <2>3. QED
    BY <2>1, <2>2
<1>5. c = (((p1 \o p2) \o i1) \o p3) \o i3 /\ c \in Seq(Operation) /\ Len(c) = StagesLen(t)
  BY <1>2, ClosingIs
<1> HIDE DEF l
<1>6. pl \in Seq(Operation) /\ Len(pl) = l /\ \A n \in 1..l : pl[n] = LocalityOp(T, r, t, n)
  <2> HIDE DEF pl
  <2>1. QED
    BY <1>2
<1>7. \A x \in 1..StagesLen(t) : c[x] = Stages[StageOf(t, x)]
  BY DEF Closing
<1> HIDE DEF pl, p1, p2, p3, i1, i3, c
<1> DEFINE b1 == p1 \o p2
           b2 == b1 \o i1
           b3 == b2 \o p3
           d0 == pl \o p1
           d1 == d0 \o p2
           d2 == d1 \o i1
           d3 == d2 \o p3
<1>8. b1 \in Seq(Operation) /\ b2 \in Seq(Operation) /\ b3 \in Seq(Operation)
  <2>1. b1 \in Seq(Operation)
    BY <1>4, Joint
  <2> HIDE DEF b1
  <2>2. b2 \in Seq(Operation)
    BY <1>4, <2>1, Joint
  <2> HIDE DEF b2
  <2>3. b3 \in Seq(Operation)
    BY <1>4, <2>2, Joint
  <2>4. QED
    BY <2>1, <2>2, <2>3
<1>9. d3 \o i3 = pl \o c
  <2>0. /\ Joins(pl, p1, d0) /\ Joins(d0, p2, d1) /\ Joins(d1, i1, d2) /\ Joins(d2, p3, d3)
        /\ Joins(p1, p2, b1) /\ Joins(b1, i1, b2) /\ Joins(b2, p3, b3) /\ Joins(b3, i3, c)
        /\ Joins(d3, i3, d3 \o i3)
    BY <1>5 DEF Joins
  <2> HIDE DEF b1, b2, b3, d0, d1, d2, d3
  <2>1. Joins(pl, b1, d1)
    BY <1>4, <1>6, <2>0, Associative
  <2>2. Joins(pl, b2, d2)
    BY <1>4, <1>6, <1>8, <2>0, <2>1, Associative
  <2>3. Joins(pl, b3, d3)
    BY <1>4, <1>6, <1>8, <2>0, <2>2, Associative
  <2>4. Joins(pl, c, d3 \o i3)
    BY <1>4, <1>6, <1>8, <2>0, <2>3, Associative
  <2>5. QED
    BY <2>4 DEF Joins
<1> HIDE DEF b1, b2, b3
<1> DEFINE w == WorkerScript(s, <<r, t>>)
<1>10. w = pl \o c
  <2>1. w = d3 \o i3
    BY <1>1
  <2>2. QED
    BY <1>9, <2>1
<1> HIDE DEF w
<1>11. /\ w \in Seq(Operation) /\ Len(w) = Len(pl) + Len(c)
       /\ \A n \in 1..Len(pl) : w[n] = pl[n]
       /\ \A n \in 1..Len(c) : w[Len(pl) + n] = c[n]
  <2>1. pl \in Seq(Operation) /\ c \in Seq(Operation)
    BY <1>5, <1>6
  <2> DEFINE d == pl \o c
  <2>2. /\ d \in Seq(Operation) /\ Len(d) = Len(pl) + Len(c)
        /\ \A n \in 1..Len(pl) : d[n] = pl[n]
        /\ \A n \in 1..Len(c) : d[Len(pl) + n] = c[n]
    BY <2>1, Joint
  <2> HIDE DEF d
  <2>3. w = d
    BY <1>10 DEF d
  <2>4. QED
    BY <2>2, <2>3
<1> DEFINE k == StagesLen(t)
<1>12. k \in Nat /\ Len(c) = k
  BY <1>5 DEF StagesLen
<1>13. WorkerLen(R, T, t) = l + k
  BY DEF WorkerLen, l
<1> HIDE DEF k
<1>14. ASSUME NEW n \in 1..(l + k) PROVE w[n] = WorkerOp(R, T, r, t, n)
  <2>1. CASE n <= l
    <3>1. n \in 1..l
      BY <1>2, <1>12, <2>1
    <3>2. w[n] = LocalityOp(T, r, t, n)
      BY <1>6, <1>11, <3>1
    <3>3. QED
      BY <2>1, <3>2 DEF WorkerOp, l
  <2>2. CASE ~(n <= l)
    <3> DEFINE x == n - l
    <3>1. x \in 1..k /\ l + x = n
      BY <1>2, <1>12, <2>2
    <3>2. WorkerOp(R, T, r, t, n) = Stages[StageOf(t, x)]
      BY <2>2 DEF WorkerOp, StageAt, l
    <3> HIDE DEF x
    <3>3. w[l + x] = c[x] /\ c[x] = Stages[StageOf(t, x)]
      BY <1>6, <1>7, <1>11, <1>12, <3>1 DEF k
    <3>4. QED
      BY <3>1, <3>2, <3>3
  <2>3. QED
    BY <2>1, <2>2
<1>15. QED
  BY <1>6, <1>11, <1>12, <1>13, <1>14 DEF w

LEMMA SetupFacts ==
  ASSUME NEW s \in Setups
  PROVE  /\ s.ranks \in Nat /\ s.ranks % 2 = 0 /\ s.threads \in Nat \ {0}
         /\ s.window \in Nat \ {0} /\ s.nrep \in Nat
BY SetupsAssumption

LEMMA Processes ==
  ASSUME NEW s \in Setups, NEW p \in WorkerOf(s) \cup MainsOf(s)
  PROVE  \/ /\ p \in WorkerOf(s) /\ p \notin MainsOf(s)
            /\ p[1] \in 0..(s.ranks - 1) /\ p[2] \in 0..(s.threads - 1) /\ p = <<p[1], p[2]>> /\ p[2] # -1
         \/ /\ p \in MainsOf(s) /\ p \notin WorkerOf(s)
            /\ p[1] \in 0..(s.ranks - 1) /\ p[2] = -1 /\ p = <<p[1], -1>>
<1>0. s.threads \in Nat /\ s.ranks \in Nat
  BY SetupFacts
<1>1. CASE p \in WorkerOf(s)
  <2>1. /\ p[1] \in 0..(s.ranks - 1) /\ p[2] \in 0..(s.threads - 1) /\ p = <<p[1], p[2]>>
    BY <1>1 DEF WorkerOf
  <2>2. p[2] # -1
    BY <1>0, <2>1
  <2>3. p \notin MainsOf(s)
    BY <2>2 DEF MainsOf, MainOf
  <2>4. QED
    BY <1>1, <2>1, <2>2, <2>3
<1>2. CASE p \in MainsOf(s)
  <2>1. p[1] \in 0..(s.ranks - 1) /\ p[2] = -1 /\ p = <<p[1], -1>>
    BY <1>2 DEF MainsOf, MainOf
  <2>2. p \notin WorkerOf(s)
    BY <1>0, <2>1 DEF WorkerOf
  <2>3. QED
    BY <1>2, <2>1, <2>2
<1>3. QED
  BY <1>1, <1>2

LEMMA ScriptIs ==
  ASSUME NEW s \in Setups, NEW p \in WorkerOf(s) \cup MainsOf(s)
  PROVE  /\ ScriptLen(s, p) \in Nat \ {0}
         /\ Script(s, p) \in Seq(Operation) /\ Len(Script(s, p)) = ScriptLen(s, p)
         /\ \A n \in 1..ScriptLen(s, p) : Script(s, p)[n] = OpAt(s, p, n)
<1>1. CASE p \in MainsOf(s)
  <2>1. p[2] = -1
    BY <1>1, Processes
  <2>2. Script(s, p) = MainScript /\ ScriptLen(s, p) = 10
    BY <1>1, <2>1 DEF Script, ScriptLen
  <2>3. \A n : OpAt(s, p, n) = MainScript[n]
    BY <2>1 DEF OpAt
  <2>4. MainScript \in Seq(Operation) /\ Len(MainScript) = 10
    BY DEF MainScript, Operation
  <2>5. QED
    BY <2>2, <2>3, <2>4
<1>2. CASE p \notin MainsOf(s)
  <2> DEFINE R == s.ranks
             T == s.threads
             r == p[1]
             t == p[2]
  <2>1. p = <<r, t>> /\ r \in 0..(R - 1) /\ t \in 0..(T - 1) /\ t # -1
    BY <1>2, Processes
  <2>2. R \in Nat /\ T \in Nat \ {0}
    BY SetupFacts
  <2>3. /\ Script(s, p) = WorkerScript(s, p) /\ ScriptLen(s, p) = WorkerLen(R, T, t)
        /\ \A n : OpAt(s, p, n) = WorkerOp(R, T, r, t, n)
    BY <1>2, <2>1 DEF Script, ScriptLen, OpAt
  <2>4. WorkerLen(R, T, t) \in Nat \ {0}
    <3>1. RoundLen(t) \in {2, 4} /\ StagesLen(t) \in {16, 19}
      BY DEF RoundLen, StagesLen
    <3>2. RoundLen(t) * R \in Nat
      BY <2>2, <3>1
    <3>3. QED
      BY <2>2, <3>1, <3>2 DEF WorkerLen, LocalityLen
  <2>5. /\ R = s.ranks /\ T = s.threads
    OBVIOUS
  <2> HIDE DEF R, T, r, t
  <2>6. /\ WorkerScript(s, <<r, t>>) \in Seq(Operation)
        /\ Len(WorkerScript(s, <<r, t>>)) = WorkerLen(R, T, t)
        /\ \A n \in 1..WorkerLen(R, T, t) : WorkerScript(s, <<r, t>>)[n] = WorkerOp(R, T, r, t, n)
    BY <2>1, <2>2, <2>5, WorkerScriptIs
  <2>7. QED
    BY <2>1, <2>3, <2>4, <2>6
<1>3. QED
  BY <1>1, <1>2

\* What ends a script
LEMMA LastOperation ==
  ASSUME NEW s \in Setups, NEW p \in WorkerOf(s) \cup MainsOf(s)
  PROVE  OpAt(s, p, ScriptLen(s, p)) \in {"idle", "end"}
<1>1. CASE p[2] = -1
  BY <1>1 DEF OpAt, ScriptLen, MainScript
<1>2. CASE p[2] # -1
  <2> DEFINE l == LocalityLen(s.ranks, s.threads, p[2])
             k == StagesLen(p[2])
  <2>1. p[2] \in Nat /\ s.threads \in Nat /\ s.ranks \in Nat
    BY <1>2, Processes, SetupFacts
  <2>2. l \in Nat /\ k \in {16, 19} /\ StageOf(p[2], k) = 19
    <3>1. RoundLen(p[2]) \in {2, 4}
      BY DEF RoundLen
    <3>2. RoundLen(p[2]) * s.ranks \in Nat
      BY <2>1, <3>1
    <3>3. l \in Nat
      BY <2>1, <3>2 DEF LocalityLen
    <3>4. QED
      BY <3>3 DEF StagesLen, StageOf
  <2>3. ScriptLen(s, p) = l + k
    BY <1>2 DEF ScriptLen, WorkerLen
  <2> HIDE DEF k
  <2>4. OpAt(s, p, l + k) = WorkerOp(s.ranks, s.threads, p[1], p[2], l + k)
    BY <1>2 DEF OpAt
  <2>5. WorkerOp(s.ranks, s.threads, p[1], p[2], l + k) = Stages[StageOf(p[2], (l + k) - l)]
    <3> HIDE DEF l
    <3>1. ~(l + k <= l)
      BY <2>2
    <3>2. QED
      BY <3>1 DEF WorkerOp, StageAt, l
  <2> HIDE DEF l
  <2>6. (l + k) - l = k
    BY <2>2
  <2>7. Stages[19] = "idle"
    BY DEF Stages
  <2>8. QED
    BY <2>2, <2>3, <2>4, <2>5, <2>6, <2>7
<1>3. QED
  BY <1>1, <1>2

-----------------------------------------------------------------------------
(***************************************************************************)
(* Where a process is in its script, and the types of the variables.         *)
(***************************************************************************)
Process == Worker \cup Main

place == [p \in Process |-> ScriptLen(S, p) - Len(todo[p]) + 1]

Typed ==
    /\ S \in Setups
    /\ todo \in [Process -> Seq(Operation)]
    /\ inside \in [Process -> BOOLEAN]
    /\ entered \in [Worker -> Nat]
    /\ mpi \in [Rank -> Nat]
    /\ gathered \in [Rank -> BOOLEAN]
    /\ jobs \in [Rank -> Nat]
    /\ batch \in [Worker -> Nat]
    /\ begun \in [Worker -> Nat]
    /\ ended \in [Worker -> Nat]
    /\ sending \in [Worker -> [Slot -> Nat]]
    /\ waiting \in [Worker -> [Slot -> Nat]]
    /\ sent \in [Worker -> [Slot -> Seq(Nat \X Nat)]]
    /\ arrived \in [Worker -> [Slot -> Seq(Nat \X Nat)]]
    /\ submitted \in [Worker -> Nat]
    /\ rows \in Seq(Worker)

PlaceInv ==
    \A p \in Process :
      /\ place[p] \in 1..ScriptLen(S, p)
      /\ todo[p] = SubSeq(Script(S, p), place[p], ScriptLen(S, p))

LEMMA SetupStays ==
  ASSUME S' = S
  PROVE  /\ Worker' = Worker /\ Main' = Main /\ Process' = Process /\ Rank' = Rank
         /\ Tid' = Tid /\ Slot' = Slot
BY DEF Worker, Main, Process, Rank, Tid, Slot

LEMMA ProcessIs ==
  ASSUME S \in Setups, NEW p \in Process
  PROVE  /\ p \in WorkerOf(S) \cup MainsOf(S)
         /\ \/ p \in Worker /\ p \notin Main /\ p[1] \in Rank /\ p[2] \in Tid /\ p = <<p[1], p[2]>> /\ p[2] # -1
            \/ p \in Main /\ p \notin Worker /\ p[1] \in Rank /\ p[2] = -1 /\ p = <<p[1], -1>>
<1>1. p \in WorkerOf(S) \cup MainsOf(S)
  BY DEF Process, Worker, Main
<1>2. QED
  BY <1>1, Processes DEF Worker, Main, Rank, Tid

LEMMA AtPlace ==
  ASSUME Typed, PlaceInv, NEW p \in Process
  PROVE  /\ ScriptLen(S, p) \in Nat \ {0} /\ place[p] \in 1..ScriptLen(S, p)
         /\ At(p) = OpAt(S, p, place[p]) /\ todo[p] # <<>>
         /\ Len(todo[p]) = ScriptLen(S, p) - place[p] + 1
         /\ At(p) \notin {"idle", "end"} => place[p] < ScriptLen(S, p)
<1>1. S \in Setups /\ p \in WorkerOf(S) \cup MainsOf(S)
  BY ProcessIs DEF Typed
<1> DEFINE l == ScriptLen(S, p)
           c == Script(S, p)
           n == place[p]
<1>2. l \in Nat \ {0} /\ c \in Seq(Operation) /\ Len(c) = l /\ \A m \in 1..l : c[m] = OpAt(S, p, m)
  BY <1>1, ScriptIs
<1>3. n \in 1..l /\ todo[p] = SubSeq(c, n, l)
  BY DEF PlaceInv
<1>4. todo[p] \in Seq(Operation) /\ n = l - Len(todo[p]) + 1
  BY DEF Typed, place
<1>5. At(p) = Head(todo[p])
  BY DEF At
<1>6. OpAt(S, p, l) \in {"idle", "end"}
  BY <1>1, LastOperation
<1> HIDE DEF l, c, n
<1>7. Head(SubSeq(c, n, l)) = c[n]
  <2>1. n \in 1..Len(c) /\ l \in n..Len(c)
    BY <1>2, <1>3
  <2>2. QED
    BY <1>2, <2>1, HeadTailOfSubSeq
<1>8. Len(todo[p]) \in Nat /\ Len(todo[p]) = l - n + 1
  BY <1>2, <1>3, <1>4
<1>9. todo[p] # <<>>
  BY <1>2, <1>3, <1>4, <1>8
<1>10. At(p) = OpAt(S, p, n)
  BY <1>2, <1>3, <1>5, <1>7
<1>11. n = l => At(p) \in {"idle", "end"}
  BY <1>6, <1>10
<1>12. At(p) \notin {"idle", "end"} => n < l
  BY <1>2, <1>3, <1>11
<1>13. QED
  BY <1>2, <1>3, <1>8, <1>9, <1>10, <1>12 DEF l, n

LEMMA Stays ==
  ASSUME S' = S, todo' = todo
  PROVE  place' = place /\ (PlaceInv => PlaceInv')
BY SetupStays DEF place, PlaceInv

\* One operation is done: the next is due.
LEMMA Proceeds ==
  ASSUME Typed, PlaceInv, S' = S, NEW p \in Process, place[p] < ScriptLen(S, p), Proceed(p)
  PROVE  /\ place' = [place EXCEPT ![p] = place[p] + 1] /\ PlaceInv'
         /\ todo' \in [Process -> Seq(Operation)]
<1>0. Process' = Process
  BY SetupStays
<1>1. todo' = [todo EXCEPT ![p] = Tail(todo[p])] /\ todo \in [Process -> Seq(Operation)]
  BY DEF Proceed, Typed
<1>2. /\ todo[p] # <<>> /\ todo[p] \in Seq(Operation)
      /\ Len(todo[p]) = ScriptLen(S, p) - place[p] + 1
      /\ place[p] \in 1..ScriptLen(S, p) /\ ScriptLen(S, p) \in Nat
  BY <1>1, AtPlace
<1>3. Tail(todo[p]) \in Seq(Operation) /\ Len(Tail(todo[p])) = Len(todo[p]) - 1
  BY <1>2
<1>4. todo' \in [Process -> Seq(Operation)]
  BY <1>1, <1>3
<1>5. ASSUME NEW q \in Process, q # p PROVE todo'[q] = todo[q]
  BY <1>1, <1>5
<1>6. todo'[p] = Tail(todo[p])
  BY <1>1
<1>7. Len(todo'[p]) = Len(todo[p]) - 1
  BY <1>3, <1>6
<1>8. place' = [q \in Process |-> ScriptLen(S, q) - Len(todo'[q]) + 1]
  BY <1>0 DEF place
<1>9. place'[p] = place[p] + 1
  <2>1. place[p] = ScriptLen(S, p) - Len(todo[p]) + 1
    BY DEF place
  <2>2. place'[p] = ScriptLen(S, p) - Len(todo'[p]) + 1
    BY <1>8
  <2> DEFINE m == Len(todo[p])
             k == Len(todo'[p])
             l == ScriptLen(S, p)
  <2>3. m \in Nat /\ k = m - 1 /\ l \in Nat
    BY <1>2, <1>7
  <2> HIDE DEF m, k, l
  <2>4. place[p] = l - m + 1 /\ place'[p] = l - k + 1
    BY <2>1, <2>2 DEF m, k, l
  <2>5. QED
    BY <2>3, <2>4
<1>10. \A q \in Process : q # p => place'[q] = place[q]
  BY <1>5, <1>8 DEF place
<1>11. place' = [place EXCEPT ![p] = place[p] + 1]
  <2> DEFINE f == [place EXCEPT ![p] = place[p] + 1]
  <2>1. \A q \in Process : f[q] = IF q = p THEN place[p] + 1 ELSE place[q]
    BY DEF place
  <2>2. f = [q \in Process |-> f[q]]
    BY DEF place
  <2>3. place' = [q \in Process |-> place'[q]]
    BY <1>8
  <2> HIDE DEF f
  <2>4. \A q \in Process : f[q] = place'[q]
    BY <1>9, <1>10, <2>1
  <2>5. f = place'
    BY <2>2, <2>3, <2>4
  <2>6. QED
    BY <2>5 DEF f
<1>12. PlaceInv'
  <2> SUFFICES ASSUME NEW q \in Process
               PROVE  /\ place'[q] \in 1..ScriptLen(S, q)
                      /\ todo'[q] = SubSeq(Script(S, q), place'[q], ScriptLen(S, q))
    BY <1>0 DEF PlaceInv
  <2>1. place[q] \in 1..ScriptLen(S, q) /\ todo[q] = SubSeq(Script(S, q), place[q], ScriptLen(S, q))
    BY DEF PlaceInv
  <2>2. CASE q # p
    BY <1>5, <1>10, <2>1, <2>2
  <2>3. CASE q = p
    <3> DEFINE l == ScriptLen(S, p)
               c == Script(S, p)
               n == place[p]
    <3>1. l \in Nat \ {0} /\ c \in Seq(Operation) /\ Len(c) = l
      BY ScriptIs, ProcessIs DEF Typed
    <3>2. n \in 1..l /\ n < l
      BY <1>2
    <3>3. todo[p] = SubSeq(c, n, l)
      BY <2>1, <2>3
    <3> HIDE DEF l, c, n
    <3>4. Tail(SubSeq(c, n, l)) = SubSeq(c, n + 1, l)
      <4>1. n \in 1..Len(c) /\ l \in n..Len(c)
        BY <3>1, <3>2
      <4>2. QED
        BY <3>1, <4>1, HeadTailOfSubSeq
    <3>5. todo'[p] = SubSeq(c, n + 1, l)
      BY <1>6, <3>3, <3>4
    <3>6. n + 1 \in 1..l
      BY <3>1, <3>2
    <3>7. QED
      BY <1>9, <2>3, <3>5, <3>6 DEF n, c, l
  <2>4. QED
    BY <2>2, <2>3
<1>13. QED
  BY <1>4, <1>11, <1>12

LEMMA InitPlaced == Init => Typed /\ PlaceInv
<1> SUFFICES ASSUME Init PROVE Typed /\ PlaceInv
  OBVIOUS
<1>1. S \in Setups
  BY DEF Init
<1>2. ASSUME NEW p \in Process
      PROVE  /\ todo[p] = Script(S, p) /\ Script(S, p) \in Seq(Operation)
             /\ place[p] = 1 /\ place[p] \in 1..ScriptLen(S, p)
             /\ todo[p] = SubSeq(Script(S, p), place[p], ScriptLen(S, p))
  <2>1. todo[p] = Script(S, p)
    BY DEF Init, Process
  <2>2. /\ ScriptLen(S, p) \in Nat \ {0} /\ Script(S, p) \in Seq(Operation)
        /\ Len(Script(S, p)) = ScriptLen(S, p)
    BY <1>1, ProcessIs, ScriptIs
  <2>3. place[p] = ScriptLen(S, p) - Len(todo[p]) + 1
    BY DEF place
  <2>4. place[p] = 1 /\ place[p] \in 1..ScriptLen(S, p)
    <3> DEFINE l == ScriptLen(S, p)
    <3>1. place[p] = l - l + 1 /\ l \in Nat \ {0}
      BY <2>1, <2>2, <2>3
    <3> HIDE DEF l
    <3>2. place[p] = 1 /\ place[p] \in 1..l
      BY <3>1
    <3>3. QED
      BY <3>2 DEF l
  <2>5. SubSeq(Script(S, p), 1, ScriptLen(S, p)) = Script(S, p)
    BY <2>2, SubSeqFull
  <2>6. QED
    BY <2>1, <2>2, <2>4, <2>5
<1>3. PlaceInv
  BY <1>2 DEF PlaceInv
<1>4. Typed
  <2>1. todo = [p \in Process |-> Script(S, p)]
    BY DEF Init, Process
  <2>2. todo \in [Process -> Seq(Operation)]
    BY <1>2, <2>1
  <2>3. inside \in [Process -> BOOLEAN] /\ entered \in [Worker -> Nat] /\ mpi \in [Rank -> Nat]
        /\ gathered \in [Rank -> BOOLEAN]
        /\ jobs \in [Rank -> Nat] /\ batch \in [Worker -> Nat]
        /\ begun \in [Worker -> Nat] /\ ended \in [Worker -> Nat]
        /\ submitted \in [Worker -> Nat] /\ rows \in Seq(Worker)
    BY DEF Init, Process
  <2>4. sending \in [Worker -> [Slot -> Nat]] /\ waiting \in [Worker -> [Slot -> Nat]]
    BY DEF Init
  <2>5. sent \in [Worker -> [Slot -> Seq(Nat \X Nat)]] /\ arrived \in [Worker -> [Slot -> Seq(Nat \X Nat)]]
    <3>1. <<>> \in Seq(Nat \X Nat)
      OBVIOUS
    <3>2. QED
      BY <3>1 DEF Init
  <2>6. QED
    BY <1>1, <2>2, <2>3, <2>4, <2>5 DEF Typed
<1>5. QED
  BY <1>3, <1>4

\* What one step does to the types and places: who goes on to the next operation.
Placed == Typed /\ PlaceInv

Unmoved == todo' = todo /\ place' = place /\ Placed'
Moved(p) == /\ Proceed(p) /\ place' = [place EXCEPT ![p] = place[p] + 1] /\ Placed'
            /\ place[p] < ScriptLen(S, p)

LEMMA SetupParts ==
  ASSUME S \in Setups
  PROVE  /\ S.window \in Nat \ {0} /\ S.threads \in Nat \ {0} /\ S.ranks \in Nat /\ S.nrep \in Nat
         /\ S.ranks % 2 = 0
BY SetupFacts

LEMMA EnterPlaces ==
  ASSUME Placed, NEW p \in Process, Enter(p)
  PROVE  S' = S /\ Unmoved
<1>1. S' = S /\ todo' = todo
  BY DEF Enter
<1>2. place' = place /\ PlaceInv'
  BY <1>1, Stays DEF Placed
<1>3. Typed'
  <2>1. inside' \in [Process -> BOOLEAN]
    BY DEF Placed, Typed, Enter
  <2>2. entered' \in [Worker -> Nat] /\ mpi' \in [Rank -> Nat]
    <3>1. entered \in [Worker -> Nat] /\ mpi \in [Rank -> Nat]
      BY DEF Placed, Typed
    <3>2. \/ entered' = [entered EXCEPT ![p] = entered[p] + 1] /\ mpi' = mpi
          \/ mpi' = [mpi EXCEPT ![p[1]] = mpi[p[1]] + 1] /\ entered' = entered
      BY DEF Enter
    <3>3. QED
      BY <3>1, <3>2
  <2>3. QED
    BY <1>1, <2>1, <2>2, SetupStays DEF Placed, Typed, Enter, batches, phases, slots
<1>4. QED
  BY <1>1, <1>2, <1>3 DEF Unmoved, Placed

LEMMA LeavePlaces ==
  ASSUME Placed, NEW p \in Process, Leave(p)
  PROVE  S' = S /\ Moved(p)
<1>1. S' = S /\ Proceed(p) /\ At(p) \notin {"idle", "end"}
  BY DEF Leave
<1>2. place[p] < ScriptLen(S, p)
  BY <1>1, AtPlace DEF Placed
<1>3. /\ place' = [place EXCEPT ![p] = place[p] + 1] /\ PlaceInv'
      /\ todo' \in [Process -> Seq(Operation)]
  BY <1>1, <1>2, Proceeds DEF Placed
<1>4. Typed'
  <2>1. inside' \in [Process -> BOOLEAN]
    BY DEF Placed, Typed, Leave
  <2>2. QED
    BY <1>1, <1>3, <2>1, SetupStays DEF Placed, Typed, Leave, batches, phases, slots
<1>5. QED
  BY <1>1, <1>2, <1>3, <1>4 DEF Moved, Placed

LEMMA LocalPlaces ==
  ASSUME Placed, NEW p \in Process, Local(p)
  PROVE  S' = S /\ Moved(p)
<1>1. S' = S /\ Proceed(p) /\ At(p) \notin {"idle", "end"}
  BY DEF Local
<1>2. place[p] < ScriptLen(S, p)
  BY <1>1, AtPlace DEF Placed
<1>3. /\ place' = [place EXCEPT ![p] = place[p] + 1] /\ PlaceInv'
      /\ todo' \in [Process -> Seq(Operation)]
  BY <1>1, <1>2, Proceeds DEF Placed
<1>4. Typed'
  BY <1>1, <1>3, SetupStays DEF Placed, Typed, Local, barriers, batches, phases, slots
<1>5. QED
  BY <1>1, <1>2, <1>3, <1>4 DEF Moved, Placed

LEMMA MainIsProcess ==
  ASSUME NEW r \in Rank
  PROVE  MainOf(r) \in Process /\ MainOf(r) \in Main
BY DEF Process, Main, MainsOf, Rank

LEMMA SyncPlaces ==
  ASSUME Placed, NEW r \in Rank, Sync(r)
  PROVE  S' = S /\ Moved(MainOf(r))
<1> DEFINE p == MainOf(r)
<1>0. p \in Process
  BY MainIsProcess
<1>1. S' = S /\ Proceed(p) /\ At(p) \notin {"idle", "end"}
  BY DEF Sync
<1> HIDE DEF p
<1>2. place[p] < ScriptLen(S, p)
  BY <1>0, <1>1, AtPlace DEF Placed
<1>3. /\ place' = [place EXCEPT ![p] = place[p] + 1] /\ PlaceInv'
      /\ todo' \in [Process -> Seq(Operation)]
  BY <1>0, <1>1, <1>2, Proceeds DEF Placed
<1>4. Typed'
  BY <1>1, <1>3, SetupStays DEF Placed, Typed, Sync, barriers, batches, phases, slots
<1>5. QED
  BY <1>1, <1>2, <1>3, <1>4 DEF Moved, Placed, p

LEMMA SchedulePlaces ==
  ASSUME Placed, NEW r \in Rank, Schedule(r)
  PROVE  S' = S /\ Moved(MainOf(r))
<1> DEFINE p == MainOf(r)
<1>0. p \in Process
  BY MainIsProcess
<1>1. S' = S /\ Proceed(p) /\ At(p) \notin {"idle", "end"}
  BY DEF Schedule
<1> HIDE DEF p
<1>2. place[p] < ScriptLen(S, p)
  BY <1>0, <1>1, AtPlace DEF Placed
<1>3. /\ place' = [place EXCEPT ![p] = place[p] + 1] /\ PlaceInv'
      /\ todo' \in [Process -> Seq(Operation)]
  BY <1>0, <1>1, <1>2, Proceeds DEF Placed
<1>4. Typed'
  <2>1. jobs' \in [Rank -> Nat]
    BY DEF Placed, Typed, Schedule
  <2>2. QED
    BY <1>1, <1>3, <2>1, SetupStays DEF Placed, Typed, Schedule, barriers, phases, slots
<1>5. QED
  BY <1>1, <1>2, <1>3, <1>4 DEF Moved, Placed, p

LEMMA GatherGivePlaces ==
  ASSUME Placed, NEW r \in Rank, GatherGive(r)
  PROVE  S' = S /\ Unmoved
<1>1. S' = S /\ todo' = todo
  BY DEF GatherGive
<1>2. place' = place /\ PlaceInv'
  BY <1>1, Stays DEF Placed
<1>3. Typed'
  <2>1. gathered' \in [Rank -> BOOLEAN]
    BY DEF Placed, Typed, GatherGive
  <2>2. QED
    BY <1>1, <2>1, SetupStays DEF Placed, Typed, GatherGive, batches, phases, slots
<1>4. QED
  BY <1>1, <1>2, <1>3 DEF Unmoved, Placed

LEMMA GatherEndPlaces ==
  ASSUME Placed, NEW r \in Rank, GatherEnd(r)
  PROVE  S' = S /\ Moved(MainOf(r))
<1> DEFINE p == MainOf(r)
<1>0. p \in Process
  BY MainIsProcess
<1>1. S' = S /\ Proceed(p) /\ At(p) \notin {"idle", "end"}
  BY DEF GatherEnd
<1> HIDE DEF p
<1>2. place[p] < ScriptLen(S, p)
  BY <1>0, <1>1, AtPlace DEF Placed
<1>3. /\ place' = [place EXCEPT ![p] = place[p] + 1] /\ PlaceInv'
      /\ todo' \in [Process -> Seq(Operation)]
  BY <1>0, <1>1, <1>2, Proceeds DEF Placed
<1>4. Typed'
  BY <1>1, <1>3, SetupStays DEF Placed, Typed, GatherEnd, barriers, batches, phases, slots
<1>5. QED
  BY <1>1, <1>2, <1>3, <1>4 DEF Moved, Placed, p

LEMMA WorkerIsProcess == \A p \in Worker : p \in Process
BY DEF Process

LEMMA NextJobPlaces ==
  ASSUME Placed, NEW p \in Worker, NextJob(p), place[p] < ScriptLen(S, p)
  PROVE  S' = S /\ Moved(p)
<1>0. p \in Process
  BY WorkerIsProcess
<1>1. S' = S /\ Proceed(p)
  BY DEF NextJob
<1>2. place[p] < ScriptLen(S, p)
  OBVIOUS
<1>3. /\ place' = [place EXCEPT ![p] = place[p] + 1] /\ PlaceInv'
      /\ todo' \in [Process -> Seq(Operation)]
  BY <1>0, <1>1, <1>2, Proceeds DEF Placed
<1>4. Typed'
  <2>1. batch' \in [Worker -> Nat]
    BY DEF Placed, Typed, NextJob
  <2>2. QED
    BY <1>1, <1>3, <2>1, SetupStays DEF Placed, Typed, NextJob, barriers, phases, slots
<1>5. QED
  BY <1>1, <1>2, <1>3, <1>4 DEF Moved, Placed

LEMMA PrintRowPlaces ==
  ASSUME Placed, NEW p \in Worker, PrintRow(p)
  PROVE  S' = S /\ Moved(p)
<1>0. p \in Process
  BY WorkerIsProcess
<1>1. S' = S /\ Proceed(p) /\ At(p) \notin {"idle", "end"}
  BY DEF PrintRow
<1>2. place[p] < ScriptLen(S, p)
  BY <1>0, <1>1, AtPlace DEF Placed
<1>3. /\ place' = [place EXCEPT ![p] = place[p] + 1] /\ PlaceInv'
      /\ todo' \in [Process -> Seq(Operation)]
  BY <1>0, <1>1, <1>2, Proceeds DEF Placed
<1>4. Typed'
  <2>1. rows' \in Seq(Worker)
    BY DEF Placed, Typed, PrintRow
  <2>2. QED
    BY <1>1, <1>3, <2>1, SetupStays DEF Placed, Typed, PrintRow, barriers, batches, phases, slots
<1>5. QED
  BY <1>1, <1>2, <1>3, <1>4 DEF Moved, Placed

LEMMA SendRecvPlaces ==
  ASSUME Placed, NEW p \in Worker, send_recv(p)
  PROVE  S' = S /\ Moved(p)
<1>0. p \in Process
  BY WorkerIsProcess
<1>1. S' = S /\ Proceed(p) /\ At(p) \notin {"idle", "end"}
  BY DEF send_recv, Reps
<1>2. place[p] < ScriptLen(S, p)
  BY <1>0, <1>1, AtPlace DEF Placed
<1>3. /\ place' = [place EXCEPT ![p] = place[p] + 1] /\ PlaceInv'
      /\ todo' \in [Process -> Seq(Operation)]
  BY <1>0, <1>1, <1>2, Proceeds DEF Placed
<1>4. Typed'
  <2>1. begun' \in [Worker -> Nat] /\ waiting' \in [Worker -> [Slot -> Nat]]
        /\ sending' \in [Worker -> [Slot -> Nat]]
    BY DEF Placed, Typed, send_recv
  <2>2. submitted' \in [Worker -> Nat]
    BY SetupParts DEF Placed, Typed, send_recv
  <2>3. sent' \in [Worker -> [Slot -> Seq(Nat \X Nat)]]
    <3>1. <<begun'[p], 1>> \in Nat \X Nat
      BY <2>1
    <3>2. \A i \in Slot : Append(sent[p][i], <<begun'[p], 1>>) \in Seq(Nat \X Nat)
      BY <3>1 DEF Placed, Typed
    <3>3. sent' = [sent EXCEPT ![p] = [i \in Slot |-> Append(sent[p][i], <<begun'[p], 1>>)]]
      BY DEF send_recv
    <3>4. QED
      BY <3>2, <3>3 DEF Placed, Typed
  <2>4. QED
    BY <1>1, <1>3, <2>1, <2>2, <2>3, SetupStays DEF Placed, Typed, send_recv, barriers, batches
<1>5. QED
  BY <1>1, <1>2, <1>3, <1>4 DEF Moved, Placed

LEMMA MatchPlaces ==
  ASSUME Placed, NEW p \in Worker, NEW i \in Slot, Match(p, i)
  PROVE  S' = S /\ Unmoved
<1>1. S' = S /\ todo' = todo
  BY DEF Match
<1>2. place' = place /\ PlaceInv'
  BY <1>1, Stays DEF Placed
<1>3. Typed'
  <2>1. PICK q \in Worker, j \in Slot :
          /\ sent[q][j] # <<>>
          /\ arrived' = [arrived EXCEPT ![p][i] = <<Head(sent[q][j])>>]
          /\ sent' = [sent EXCEPT ![q][j] = Tail(sent[q][j])]
    BY DEF Match
  <2>2. sent[q][j] \in Seq(Nat \X Nat)
    BY DEF Placed, Typed
  <2>3. Tail(sent[q][j]) \in Seq(Nat \X Nat) /\ Head(sent[q][j]) \in Nat \X Nat
    BY <2>1, <2>2
  <2>4. <<Head(sent[q][j])>> \in Seq(Nat \X Nat)
    BY <2>3
  <2>5. arrived' \in [Worker -> [Slot -> Seq(Nat \X Nat)]]
    BY <2>1, <2>4 DEF Placed, Typed
  <2>6. sent' \in [Worker -> [Slot -> Seq(Nat \X Nat)]]
    BY <2>1, <2>3 DEF Placed, Typed
  <2>7. QED
    BY <1>1, <2>5, <2>6, SetupStays DEF Placed, Typed, Match, barriers, batches, phases
<1>4. QED
  BY <1>1, <1>2, <1>3 DEF Unmoved, Placed

LEMMA SendCallbackPlaces ==
  ASSUME Placed, NEW p \in Worker, NEW i \in Slot, send_callback(p, i)
  PROVE  S' = S /\ Unmoved
<1>1. S' = S /\ todo' = todo
  BY DEF send_callback
<1>2. place' = place /\ PlaceInv'
  BY <1>1, Stays DEF Placed
<1>3. Typed'
  <2>1. sending' \in [Worker -> [Slot -> Nat]]
    <3>1. sending \in [Worker -> [Slot -> Nat]] /\ sending[p][i] \in Nat
      BY DEF Placed, Typed
    <3>2. \/ sending' = [sending EXCEPT ![p][i] = sending[p][i] + 1]
          \/ sending' = [sending EXCEPT ![p][i] = 0]
      BY DEF send_callback
    <3>3. sending[p][i] + 1 \in Nat /\ 0 \in Nat
      BY <3>1
    <3>4. CASE sending' = [sending EXCEPT ![p][i] = sending[p][i] + 1]
      BY <3>1, <3>3, <3>4
    <3>5. CASE sending' = [sending EXCEPT ![p][i] = 0]
      BY <3>1, <3>5
    <3>6. QED
      BY <3>2, <3>4, <3>5
  <2>2. submitted' \in [Worker -> Nat]
    <3>1. submitted \in [Worker -> Nat]
      BY DEF Placed, Typed
    <3>2. submitted' = [submitted EXCEPT ![p] = submitted[p] + 1] \/ submitted' = submitted
      BY DEF send_callback
    <3>3. QED
      BY <3>1, <3>2
  <2>3. sent' \in [Worker -> [Slot -> Seq(Nat \X Nat)]]
    <3>1. <<begun[p], sending'[p][i]>> \in Nat \X Nat
      BY <2>1 DEF Placed, Typed
    <3>2. Append(sent[p][i], <<begun[p], sending'[p][i]>>) \in Seq(Nat \X Nat)
      BY <3>1 DEF Placed, Typed
    <3>3. \/ sent' = [sent EXCEPT ![p][i] = Append(sent[p][i], <<begun[p], sending'[p][i]>>)]
          \/ sent' = sent
      BY DEF send_callback
    <3>4. sent \in [Worker -> [Slot -> Seq(Nat \X Nat)]]
      BY DEF Placed, Typed
    <3> DEFINE e == Append(sent[p][i], <<begun[p], sending'[p][i]>>)
               M == Seq(Nat \X Nat)
    <3>5. e \in M /\ sent \in [Worker -> [Slot -> M]]
      BY <3>2, <3>4
    <3>6. sent' = [sent EXCEPT ![p][i] = e] \/ sent' = sent
      BY <3>3
    <3> HIDE DEF e, M
    <3>7. sent' \in [Worker -> [Slot -> M]]
      <4>1. CASE sent' = [sent EXCEPT ![p][i] = e]
        BY <3>5, <4>1
      <4>2. QED
        BY <3>5, <3>6, <4>1
    <3>8. QED
      BY <3>7 DEF M
  <2>4. QED
    BY <1>1, <2>1, <2>2, <2>3, SetupStays DEF Placed, Typed, send_callback, barriers, batches, phases
<1>4. QED
  BY <1>1, <1>2, <1>3 DEF Unmoved, Placed

LEMMA RecvCallbackPlaces ==
  ASSUME Placed, NEW p \in Worker, NEW i \in Slot, recv_callback(p, i)
  PROVE  S' = S /\ Unmoved
<1>1. S' = S /\ todo' = todo
  BY DEF recv_callback
<1>2. place' = place /\ PlaceInv'
  BY <1>1, Stays DEF Placed
<1>3. Typed'
  <2>1. waiting' \in [Worker -> [Slot -> Nat]]
    BY DEF Placed, Typed, recv_callback
  <2>2. arrived' \in [Worker -> [Slot -> Seq(Nat \X Nat)]]
    <3>1. <<>> \in Seq(Nat \X Nat)
      OBVIOUS
    <3>2. QED
      BY <3>1 DEF Placed, Typed, recv_callback
  <2>3. QED
    BY <1>1, <2>1, <2>2, SetupStays DEF Placed, Typed, recv_callback, barriers, batches, phases
<1>4. QED
  BY <1>1, <1>2, <1>3 DEF Unmoved, Placed

LEMMA WaitAllPlaces ==
  ASSUME Placed, NEW p \in Worker, wait_all(p)
  PROVE  S' = S /\ Moved(p)
<1>0. p \in Process
  BY WorkerIsProcess
<1>1. S' = S /\ Proceed(p) /\ At(p) \notin {"idle", "end"}
  BY DEF wait_all
<1>2. place[p] < ScriptLen(S, p)
  BY <1>0, <1>1, AtPlace DEF Placed
<1>3. /\ place' = [place EXCEPT ![p] = place[p] + 1] /\ PlaceInv'
      /\ todo' \in [Process -> Seq(Operation)]
  BY <1>0, <1>1, <1>2, Proceeds DEF Placed
<1>4. Typed'
  <2>1. ended' \in [Worker -> Nat]
    BY DEF Placed, Typed, wait_all
  <2>2. QED
    BY <1>1, <1>3, <2>1, SetupStays DEF Placed, Typed, wait_all, barriers, batches, slots
<1>5. QED
  BY <1>1, <1>2, <1>3, <1>4 DEF Moved, Placed

LEMMA StutterPlaces ==
  ASSUME Placed, UNCHANGED vars
  PROVE  S' = S /\ Unmoved
<1>1. S' = S /\ todo' = todo
  BY DEF vars
<1>2. place' = place /\ PlaceInv'
  BY <1>1, Stays DEF Placed
<1>3. Typed'
  BY <1>1, SetupStays DEF Placed, Typed, vars, barriers, batches, phases, slots
<1>4. QED
  BY <1>1, <1>2, <1>3 DEF Unmoved, Placed

-----------------------------------------------------------------------------
(***************************************************************************)
(* How many operations of each kind come before a place: they can be told      *)
(* from where it is.  In the table:                                          *)
(***************************************************************************)
TableBars(T, r, t, n) ==
    IF t # 0 THEN IF n <= 2 * r + t + 2 THEN n - 1 ELSE n - 2
    ELSE IF n <= 4 * r + 3 THEN (n - 1) \div 2
    ELSE IF n <= 4 * r + 4 + T THEN n - 2 * r - 3
    ELSE (n - T - 2) \div 2 + T

TableMpis(T, r, n) ==
    IF n <= 4 * r + 3 THEN n \div 2
    ELSE IF n <= 4 * r + 4 + T THEN 2 * r + 1
    ELSE (n - T - 1) \div 2

RowPlace(p) == IF p[2] = 0 THEN 4 * p[1] + 3 ELSE 2 * p[1] + p[2] + 2

\* And after it:
BarsAt(u) == IF u <= 1 THEN 0 ELSE IF u <= 3 THEN 1 ELSE IF u <= 6 THEN 2
             ELSE IF u <= 8 THEN 3 ELSE IF u <= 12 THEN 4 ELSE IF u <= 14 THEN 5 ELSE 6
MpisAt(u) == IF u <= 2 THEN 0 ELSE IF u <= 7 THEN 1 ELSE IF u <= 13 THEN 2 ELSE 3
BegunAt(u) == IF u <= 4 THEN 0 ELSE IF u <= 9 THEN 1 ELSE IF u <= 15 THEN 2 ELSE 3
EndedAt(u) == IF u <= 5 THEN 0 ELSE IF u <= 10 THEN 1 ELSE IF u <= 16 THEN 2 ELSE 3
BatchAt(u) == IF u <= 11 THEN 1 ELSE IF u <= 17 THEN 2 ELSE 3

Bars(R, T, r, t, n) == IF n <= LocalityLen(R, T, t) THEN TableBars(T, r, t, n)
                       ELSE 2 * R + T + BarsAt(StageAt(R, T, t, n))
Mpis(R, T, r, n) == IF n <= LocalityLen(R, T, 0) THEN TableMpis(T, r, n)
                    ELSE 2 * R + MpisAt(StageAt(R, T, 0, n))

\* The jobs that main has scheduled, and the calls of MPI_Barrier, before its place m
JobsAt(m) == IF m <= 2 THEN 1 ELSE IF m <= 7 THEN 2 ELSE 3
MainMpis(m) == IF m <= 4 THEN 0 ELSE IF m <= 9 THEN 1 ELSE 2

One(op, name) == IF op = name THEN 1 ELSE 0

LEMMA TableBarsStep ==
  ASSUME NEW T \in Nat \ {0}, NEW r \in Nat, NEW t \in 0..(T - 1), NEW n \in Nat \ {0}
  PROVE  TableBars(T, r, t, n + 1) = TableBars(T, r, t, n) + One(LocalityOp(T, r, t, n), "barrier")
<1>1. CASE t # 0
  <2>1. CASE n < 2 * r + t + 2
    BY <1>1, <2>1 DEF TableBars, LocalityOp, One
  <2>2. CASE n = 2 * r + t + 2
    BY <1>1, <2>2 DEF TableBars, LocalityOp, One
  <2>3. CASE n > 2 * r + t + 2
    BY <1>1, <2>3 DEF TableBars, LocalityOp, One
  <2>4. QED
    BY <2>1, <2>2, <2>3
<1>2. CASE t = 0
  <2> DEFINE k == n - 1
  <2>0. k \in Nat /\ n = k + 1
    OBVIOUS
  <2>1. CASE n <= 4 * r + 2
    <3>1. TableBars(T, r, t, n) = k \div 2 /\ TableBars(T, r, t, n + 1) = (k + 1) \div 2
      BY <1>2, <2>1 DEF TableBars
    <3>2. LocalityOp(T, r, t, n) = IF (k + 1) % 2 = 1 THEN "mpi" ELSE "barrier"
      BY <1>2, <2>1 DEF LocalityOp
    <3> HIDE DEF k
    <3>3. QED
      BY <2>0, <3>1, <3>2 DEF One
  <2>2. CASE n = 4 * r + 3
    <3>1. TableBars(T, r, t, n) = 2 * r + 1
      <4>1. TableBars(T, r, t, n) = (n - 1) \div 2
        BY <1>2, <2>2 DEF TableBars
      <4>2. n - 1 = 2 * (2 * r + 1)
        BY <2>2
      <4>3. QED
        BY <4>1, <4>2
    <3>2. TableBars(T, r, t, n + 1) = 2 * r + 1
      BY <1>2, <2>2 DEF TableBars
    <3>3. LocalityOp(T, r, t, n) = "row"
      BY <1>2, <2>2 DEF LocalityOp
    <3>4. QED
      BY <3>1, <3>2, <3>3 DEF One
  <2>3. CASE n > 4 * r + 3 /\ n <= 4 * r + 3 + T
    <3>1. TableBars(T, r, t, n) = n - 2 * r - 3 /\ TableBars(T, r, t, n + 1) = n + 1 - 2 * r - 3
      BY <1>2, <2>3 DEF TableBars
    <3>2. LocalityOp(T, r, t, n) = "barrier"
      BY <1>2, <2>3 DEF LocalityOp
    <3>3. QED
      BY <3>1, <3>2 DEF One
  <2>4. CASE n > 4 * r + 3 + T
    <3> DEFINE j == n - T - 2
    <3>1. j \in Nat /\ n - (T + 1) = j + 1
      BY <2>4
    <3>2. TableBars(T, r, t, n) = j \div 2 + T
      <4>1. CASE n = 4 * r + 4 + T
        <5>1. TableBars(T, r, t, n) = n - 2 * r - 3 /\ j = 2 * (2 * r + 1)
          BY <1>2, <4>1 DEF TableBars
        <5>2. j \div 2 = 2 * r + 1
          BY <5>1
        <5>3. QED
          BY <4>1, <5>1, <5>2
      <4>2. CASE n # 4 * r + 4 + T
        BY <1>2, <2>4, <4>2 DEF TableBars
      <4>3. QED
        BY <4>1, <4>2
    <3>3. TableBars(T, r, t, n + 1) = (j + 1) \div 2 + T
      BY <1>2, <2>4 DEF TableBars
    <3>4. LocalityOp(T, r, t, n) = IF (j + 1) % 2 = 1 THEN "mpi" ELSE "barrier"
      BY <1>2, <2>4, <3>1 DEF LocalityOp
    <3> HIDE DEF j
    <3>5. QED
      BY <3>1, <3>2, <3>3, <3>4 DEF One
  <2>5. QED
    BY <2>1, <2>2, <2>3, <2>4
<1>3. QED
  BY <1>1, <1>2

LEMMA TableMpisStep ==
  ASSUME NEW T \in Nat \ {0}, NEW r \in Nat, NEW n \in Nat \ {0}
  PROVE  TableMpis(T, r, n + 1) = TableMpis(T, r, n) + One(LocalityOp(T, r, 0, n), "mpi")
<1>1. CASE n <= 4 * r + 2
  <2>1. TableMpis(T, r, n) = n \div 2 /\ TableMpis(T, r, n + 1) = (n + 1) \div 2
    BY <1>1 DEF TableMpis
  <2>2. LocalityOp(T, r, 0, n) = IF n % 2 = 1 THEN "mpi" ELSE "barrier"
    BY <1>1 DEF LocalityOp
  <2>3. QED
    BY <2>1, <2>2 DEF One
<1>2. CASE n = 4 * r + 3
  <2>1. TableMpis(T, r, n) = n \div 2 /\ TableMpis(T, r, n + 1) = 2 * r + 1
    BY <1>2 DEF TableMpis
  <2>2. n = 2 * (2 * r + 1) + 1
    BY <1>2
  <2>3. n \div 2 = 2 * r + 1
    BY <2>2
  <2>4. LocalityOp(T, r, 0, n) = "row"
    BY <1>2 DEF LocalityOp
  <2>5. QED
    BY <2>1, <2>3, <2>4 DEF One
<1>3. CASE n > 4 * r + 3 /\ n <= 4 * r + 3 + T
  <2>1. TableMpis(T, r, n) = 2 * r + 1 /\ TableMpis(T, r, n + 1) = 2 * r + 1
    BY <1>3 DEF TableMpis
  <2>2. LocalityOp(T, r, 0, n) = "barrier"
    BY <1>3 DEF LocalityOp
  <2>3. QED
    BY <2>1, <2>2 DEF One
<1>4. CASE n > 4 * r + 3 + T
  <2> DEFINE j == n - (T + 1)
  <2>1. j \in Nat /\ n - T - 1 = j /\ n + 1 - T - 1 = j + 1
    BY <1>4
  <2>2. TableMpis(T, r, n) = j \div 2
    <3>1. CASE n = 4 * r + 4 + T
      <4>1. TableMpis(T, r, n) = 2 * r + 1 /\ j = 2 * (2 * r + 1) + 1
        BY <3>1 DEF TableMpis
      <4>2. j \div 2 = 2 * r + 1
        BY <4>1
      <4>3. QED
        BY <4>1, <4>2
    <3>2. CASE n # 4 * r + 4 + T
      BY <1>4, <2>1, <3>2 DEF TableMpis
    <3>3. QED
      BY <3>1, <3>2
  <2>3. TableMpis(T, r, n + 1) = (j + 1) \div 2
    BY <1>4, <2>1 DEF TableMpis
  <2>4. LocalityOp(T, r, 0, n) = IF j % 2 = 1 THEN "mpi" ELSE "barrier"
    BY <1>4 DEF LocalityOp
  <2> HIDE DEF j
  <2>5. QED
    BY <2>1, <2>2, <2>3, <2>4 DEF One
<1>5. QED
  BY <1>1, <1>2, <1>3, <1>4

Sends == {"check", "warm_up", "main_loop"}
OneOf(op, names) == IF op \in names THEN 1 ELSE 0

\* What one stage adds to the counts
LEMMA StageStep ==
  ASSUME NEW t \in Nat, NEW x \in 1..(StagesLen(t) - 1),
         NEW u, u = StageOf(t, x), NEW v, v = StageOf(t, x + 1)
  PROVE  /\ u \in 1..18 /\ v \in 2..19
         /\ v = IF t # 0 /\ u \in {1, 6, 12} THEN u + 2 ELSE u + 1
         /\ t # 0 => u \notin {2, 7, 13}
         /\ BarsAt(v) = BarsAt(u) + One(Stages[u], "barrier")
         /\ t = 0 => MpisAt(v) = MpisAt(u) + One(Stages[u], "mpi")
         /\ BegunAt(v) = BegunAt(u) + OneOf(Stages[u], Sends)
         /\ EndedAt(v) = EndedAt(u) + One(Stages[u], "wait")
         /\ BatchAt(v) = BatchAt(u) + One(Stages[u], "idle")
<1>1. /\ u \in 1..18 /\ v = (IF t # 0 /\ u \in {1, 6, 12} THEN u + 2 ELSE u + 1)
      /\ t # 0 => u \notin {2, 7, 13}
  <2>1. CASE t = 0
    BY <2>1 DEF StageOf, StagesLen
  <2>2. CASE t # 0
    BY <2>2 DEF StageOf, StagesLen
  <2>3. QED
    BY <2>1, <2>2
<1>2. /\ Stages[1] = "barrier" /\ Stages[2] = "mpi" /\ Stages[3] = "barrier" /\ Stages[4] = "check"
      /\ Stages[5] = "wait" /\ Stages[6] = "barrier" /\ Stages[7] = "mpi" /\ Stages[8] = "barrier"
      /\ Stages[9] = "warm_up" /\ Stages[10] = "wait" /\ Stages[11] = "idle" /\ Stages[12] = "barrier"
      /\ Stages[13] = "mpi" /\ Stages[14] = "barrier" /\ Stages[15] = "main_loop" /\ Stages[16] = "wait"
      /\ Stages[17] = "idle" /\ Stages[18] = "clear"
  BY DEF Stages
<1>3. v \in 2..19
  BY <1>1
<1>4. BarsAt(v) = BarsAt(u) + One(Stages[u], "barrier")
  BY <1>1, <1>2 DEF BarsAt, One
<1>5. t = 0 => MpisAt(v) = MpisAt(u) + One(Stages[u], "mpi")
  BY <1>1, <1>2 DEF MpisAt, One
<1>6. BegunAt(v) = BegunAt(u) + OneOf(Stages[u], Sends)
  BY <1>1, <1>2 DEF BegunAt, OneOf, Sends
<1>7. EndedAt(v) = EndedAt(u) + One(Stages[u], "wait")
  BY <1>1, <1>2 DEF EndedAt, One
<1>8. BatchAt(v) = BatchAt(u) + One(Stages[u], "idle")
  BY <1>1, <1>2 DEF BatchAt, One
<1>9. QED
  BY <1>1, <1>3, <1>4, <1>5, <1>6, <1>7, <1>8

\* The counts at the end of the table
LEMMA TableEnds ==
  ASSUME NEW R \in Nat, NEW T \in Nat \ {0}, NEW r \in 0..(R - 1), NEW t \in 0..(T - 1)
  PROVE  /\ LocalityLen(R, T, t) \in Nat \ {0}
         /\ TableBars(T, r, t, LocalityLen(R, T, t) + 1) = 2 * R + T
         /\ t = 0 => TableMpis(T, r, LocalityLen(R, T, t) + 1) = 2 * R
<1>1. CASE t = 0
  <2>1. LocalityLen(R, T, t) = 4 * R + T + 1
    BY <1>1 DEF LocalityLen, RoundLen
  <2>2. TableBars(T, r, t, 4 * R + T + 2) = 2 * R + T
    <3>1. TableBars(T, r, t, 4 * R + T + 2) = (4 * R) \div 2 + T
      <4>1. CASE r = R - 1
        <5>1. TableBars(T, r, t, 4 * R + T + 2) = (4 * R + T + 2 - T - 2) \div 2 + T
          BY <1>1, <4>1 DEF TableBars
        <5>2. 4 * R + T + 2 - T - 2 = 4 * R
          OBVIOUS
        <5>3. QED
          BY <5>1, <5>2
      <4>2. CASE r < R - 1
        <5>1. TableBars(T, r, t, 4 * R + T + 2) = (4 * R + T + 2 - T - 2) \div 2 + T
          BY <1>1, <4>2 DEF TableBars
        <5>2. 4 * R + T + 2 - T - 2 = 4 * R
          OBVIOUS
        <5>3. QED
          BY <5>1, <5>2
      <4>3. QED
        BY <4>1, <4>2
    <3>2. (4 * R) \div 2 = 2 * R
      <4>1. 4 * R = 2 * (2 * R)
        OBVIOUS
      <4>2. QED
        BY <4>1
    <3>3. QED
      BY <3>1, <3>2
  <2>3. TableMpis(T, r, 4 * R + T + 2) = 2 * R
    <3>1. TableMpis(T, r, 4 * R + T + 2) = (4 * R + T + 2 - T - 1) \div 2
      BY DEF TableMpis
    <3>2. 4 * R + T + 2 - T - 1 = 2 * (2 * R) + 1
      OBVIOUS
    <3>3. QED
      BY <3>1, <3>2
  <2>4. LocalityLen(R, T, t) + 1 = 4 * R + T + 2 /\ LocalityLen(R, T, t) \in Nat \ {0}
    BY <2>1
  <2>5. QED
    BY <2>2, <2>3, <2>4
<1>2. CASE t # 0
  <2>1. LocalityLen(R, T, t) = 2 * R + T + 1
    BY <1>2 DEF LocalityLen, RoundLen
  <2>2. TableBars(T, r, t, 2 * R + T + 2) = 2 * R + T
    BY <1>2 DEF TableBars
  <2>3. LocalityLen(R, T, t) + 1 = 2 * R + T + 2 /\ LocalityLen(R, T, t) \in Nat \ {0}
    BY <2>1
  <2>4. QED
    BY <1>2, <2>2, <2>3
<1>3. QED
  BY <1>1, <1>2

LEMMA WorkerStep ==
  ASSUME NEW R \in Nat, NEW T \in Nat \ {0}, NEW r \in 0..(R - 1), NEW t \in 0..(T - 1),
         NEW n \in 1..(WorkerLen(R, T, t) - 1),
         NEW op, op = WorkerOp(R, T, r, t, n),
         NEW u, u = StageAt(R, T, t, n), NEW v, v = StageAt(R, T, t, n + 1)
  PROVE  /\ u \in 0..18 /\ v \in 0..19
         /\ \/ u = 0 /\ v \in {0, 1} /\ op = LocalityOp(T, r, t, n) /\ n <= LocalityLen(R, T, t)
            \/ /\ u # 0 /\ op = Stages[u] /\ v = IF t # 0 /\ u \in {1, 6, 12} THEN u + 2 ELSE u + 1
               /\ n > LocalityLen(R, T, t) /\ (t # 0 => u \notin {2, 7, 13})
         /\ Bars(R, T, r, t, n + 1) = Bars(R, T, r, t, n) + One(op, "barrier")
         /\ t = 0 => Mpis(R, T, r, n + 1) = Mpis(R, T, r, n) + One(op, "mpi")
         /\ BegunAt(v) = BegunAt(u) + OneOf(op, Sends)
         /\ EndedAt(v) = EndedAt(u) + One(op, "wait")
         /\ BatchAt(v) = BatchAt(u) + One(op, "idle")
<1> DEFINE l == LocalityLen(R, T, t)
           k == StagesLen(t)
<1>1. /\ l \in Nat \ {0} /\ TableBars(T, r, t, l + 1) = 2 * R + T
      /\ t = 0 => TableMpis(T, r, l + 1) = 2 * R
  BY TableEnds
<1>2. k \in {16, 19} /\ n \in 1..(l + k - 1)
  <2>1. k \in {16, 19}
    BY DEF StagesLen
  <2>2. WorkerLen(R, T, t) = l + k
    BY DEF WorkerLen
  <2>3. QED
    BY <1>1, <2>1, <2>2
<1>3. /\ \A m : m <= l => Bars(R, T, r, t, m) = TableBars(T, r, t, m) /\ StageAt(R, T, t, m) = 0
      /\ \A m : ~(m <= l) => /\ Bars(R, T, r, t, m) = 2 * R + T + BarsAt(StageAt(R, T, t, m))
                             /\ StageAt(R, T, t, m) = StageOf(t, m - l)
  BY DEF Bars, StageAt
<1>4. t = 0 => /\ \A m : m <= l => Mpis(R, T, r, m) = TableMpis(T, r, m)
               /\ \A m : ~(m <= l) => Mpis(R, T, r, m) = 2 * R + MpisAt(StageAt(R, T, 0, m))
  BY DEF Mpis
<1>5. CASE n <= l
  <2>1. op = LocalityOp(T, r, t, n) /\ u = 0
    BY <1>5 DEF WorkerOp, StageAt
  <2>2. op \in {"mpi", "barrier", "row"}
    BY <2>1 DEF LocalityOp
  <2>3. OneOf(op, Sends) = 0 /\ One(op, "wait") = 0 /\ One(op, "idle") = 0
    BY <2>2 DEF OneOf, One, Sends
  <2> HIDE DEF l, k
  <2>4. n \in Nat \ {0} /\ r \in Nat
    BY <1>1, <1>2
  <2>5. /\ TableBars(T, r, t, n + 1) = TableBars(T, r, t, n) + One(op, "barrier")
        /\ t = 0 => TableMpis(T, r, n + 1) = TableMpis(T, r, n) + One(op, "mpi")
    BY <2>1, <2>4, TableBarsStep, TableMpisStep
  <2>6. CASE n < l
    <3>1. n + 1 <= l
      BY <1>1, <2>4, <2>6
    <3>2. v = 0
      BY <1>3, <3>1
    <3>3. Bars(R, T, r, t, n + 1) = Bars(R, T, r, t, n) + One(op, "barrier")
      BY <1>3, <1>5, <2>5, <3>1
    <3>4. t = 0 => Mpis(R, T, r, n + 1) = Mpis(R, T, r, n) + One(op, "mpi")
      BY <1>4, <1>5, <2>5, <3>1
    <3>5. BegunAt(0) = 0 /\ EndedAt(0) = 0 /\ BatchAt(0) = 1
      BY DEF BegunAt, EndedAt, BatchAt
    <3>6. QED
      BY <1>5, <2>1, <2>3, <3>2, <3>3, <3>4, <3>5 DEF l
  <2>7. CASE n = l
    <3>1. ~(n + 1 <= l) /\ n + 1 = l + 1 /\ (n + 1) - l = 1
      BY <1>1, <2>7
    <3>2. StageOf(t, 1) = 1
      BY DEF StageOf
    <3>3. v = 1
      BY <1>3, <3>1, <3>2
    <3>4. BarsAt(1) = 0 /\ MpisAt(1) = 0
      BY DEF BarsAt, MpisAt
    <3>5. Bars(R, T, r, t, n + 1) = Bars(R, T, r, t, n) + One(op, "barrier")
      BY <1>1, <1>3, <1>5, <2>5, <3>1, <3>3, <3>4
    <3>6. t = 0 => Mpis(R, T, r, n + 1) = Mpis(R, T, r, n) + One(op, "mpi")
      BY <1>1, <1>4, <1>5, <2>5, <3>1, <3>3, <3>4
    <3>7. /\ BegunAt(0) = 0 /\ EndedAt(0) = 0 /\ BatchAt(0) = 1
          /\ BegunAt(1) = 0 /\ EndedAt(1) = 0 /\ BatchAt(1) = 1
      BY DEF BegunAt, EndedAt, BatchAt
    <3>8. QED
      BY <1>5, <2>1, <2>3, <3>3, <3>5, <3>6, <3>7 DEF l
  <2>8. QED
    BY <1>1, <1>5, <2>4, <2>6, <2>7
<1>6. CASE ~(n <= l)
  <2> DEFINE x == n - l
  <2>1. x \in 1..(k - 1) /\ (n + 1) - l = x + 1 /\ ~(n + 1 <= l) /\ n > l
    BY <1>1, <1>2, <1>6
  <2>2. u = StageOf(t, x) /\ v = StageOf(t, (n + 1) - l)
    BY <1>3, <1>6, <2>1
  <2>3. op = Stages[u]
    BY <1>6 DEF WorkerOp
  <2> HIDE DEF l, x
  <2>4. v = StageOf(t, x + 1) /\ t \in Nat
    BY <2>1, <2>2
  <2>5. /\ u \in 1..18 /\ v \in 2..19
        /\ v = IF t # 0 /\ u \in {1, 6, 12} THEN u + 2 ELSE u + 1
        /\ t # 0 => u \notin {2, 7, 13}
        /\ BarsAt(v) = BarsAt(u) + One(Stages[u], "barrier")
        /\ t = 0 => MpisAt(v) = MpisAt(u) + One(Stages[u], "mpi")
        /\ BegunAt(v) = BegunAt(u) + OneOf(Stages[u], Sends)
        /\ EndedAt(v) = EndedAt(u) + One(Stages[u], "wait")
        /\ BatchAt(v) = BatchAt(u) + One(Stages[u], "idle")
    BY <2>1, <2>2, <2>4, StageStep
  <2>6. Bars(R, T, r, t, n + 1) = Bars(R, T, r, t, n) + One(op, "barrier")
    <3>1. Bars(R, T, r, t, n + 1) = 2 * R + T + BarsAt(v) /\ Bars(R, T, r, t, n) = 2 * R + T + BarsAt(u)
      BY <1>3, <1>6, <2>1
    <3>2. BarsAt(u) \in Nat /\ One(op, "barrier") \in Nat
      BY DEF BarsAt, One
    <3>3. BarsAt(v) = BarsAt(u) + One(op, "barrier")
      BY <2>3, <2>5
    <3>4. QED
      BY <3>1, <3>2, <3>3
  <2>7. t = 0 => Mpis(R, T, r, n + 1) = Mpis(R, T, r, n) + One(op, "mpi")
    <3> SUFFICES ASSUME t = 0 PROVE Mpis(R, T, r, n + 1) = Mpis(R, T, r, n) + One(op, "mpi")
      OBVIOUS
    <3>1. Mpis(R, T, r, n + 1) = 2 * R + MpisAt(v) /\ Mpis(R, T, r, n) = 2 * R + MpisAt(u)
      BY <1>4, <1>6, <2>1
    <3>2. MpisAt(u) \in Nat /\ One(op, "mpi") \in Nat
      BY DEF MpisAt, One
    <3>3. MpisAt(v) = MpisAt(u) + One(op, "mpi")
      BY <2>3, <2>5
    <3>4. QED
      BY <3>1, <3>2, <3>3
  <2>8. u \in 0..18 /\ v \in 0..19 /\ u # 0
    BY <2>5
  <2>9. QED
    BY <2>1, <2>3, <2>5, <2>6, <2>7, <2>8 DEF l
<1>7. QED
  BY <1>5, <1>6

-----------------------------------------------------------------------------
(***************************************************************************)
(* The stage of a worker, 0 in the table, and the barriers it and its rank     *)
(* have passed.                                                             *)
(***************************************************************************)
stage == [p \in Worker |-> StageAt(S.ranks, S.threads, p[2], place[p])]
bars == [p \in Worker |-> Bars(S.ranks, S.threads, p[1], p[2], place[p])]
mpis == [r \in Rank |-> Mpis(S.ranks, S.threads, r, place[<<r, 0>>])]

LEMMA CountsAreNumbers ==
  ASSUME NEW R \in Nat, NEW T \in Nat \ {0}, NEW r \in 0..(R - 1), NEW t \in 0..(T - 1),
         NEW n \in 1..WorkerLen(R, T, t)
  PROVE  /\ Bars(R, T, r, t, n) \in Nat
         /\ t = 0 => Mpis(R, T, r, n) \in Nat
         /\ StageAt(R, T, t, n) \in 0..19
         /\ StageAt(R, T, t, n) = 0 <=> n <= LocalityLen(R, T, t)
         /\ t # 0 => StageAt(R, T, t, n) \notin {2, 7, 13}
<1> DEFINE l == LocalityLen(R, T, t)
           k == StagesLen(t)
<1>1. l \in Nat \ {0}
  BY TableEnds
<1>2. n \in 1..(l + k) /\ k \in {16, 19}
  <2>1. k \in {16, 19}
    BY DEF StagesLen
  <2>2. WorkerLen(R, T, t) = l + k
    BY DEF WorkerLen
  <2>3. QED
    BY <1>1, <2>1, <2>2
<1>3. n \in Nat \ {0}
  BY <1>1, <1>2
<1>4. /\ StageAt(R, T, t, n) \in 0..19 /\ (StageAt(R, T, t, n) = 0 <=> n <= l)
      /\ t # 0 => StageAt(R, T, t, n) \notin {2, 7, 13}
  <2>1. CASE n <= l
    BY <2>1 DEF StageAt
  <2>2. CASE ~(n <= l)
    <3> DEFINE x == n - l
    <3>1. x \in 1..k
      BY <1>1, <1>2, <2>2
    <3>2. StageAt(R, T, t, n) = StageOf(t, x)
      BY <2>2 DEF StageAt
    <3> HIDE DEF x
    <3>3. StageOf(t, x) \in 1..19 /\ (t # 0 => StageOf(t, x) \notin {2, 7, 13})
      BY <3>1 DEF StageOf, StagesLen
    <3>4. QED
      BY <2>2, <3>2, <3>3
  <2>3. QED
    BY <2>1, <2>2
<1>5. TableBars(T, r, t, n) \in Nat
  <2>1. CASE t # 0
    BY <1>3, <2>1 DEF TableBars
  <2>2. CASE t = 0 /\ n <= 4 * r + 3
    BY <1>3, <2>2 DEF TableBars
  <2>3. CASE t = 0 /\ ~(n <= 4 * r + 3) /\ n <= 4 * r + 4 + T
    BY <1>3, <2>3 DEF TableBars
  <2>4. CASE t = 0 /\ ~(n <= 4 * r + 3) /\ ~(n <= 4 * r + 4 + T)
    <3> DEFINE j == n - T - 2
    <3>1. j \in Nat /\ TableBars(T, r, t, n) = j \div 2 + T
      BY <1>3, <2>4 DEF TableBars
    <3> HIDE DEF j
    <3>2. j \div 2 \in Nat
      BY <3>1
    <3>3. QED
      BY <3>1, <3>2
  <2>5. QED
    BY <2>1, <2>2, <2>3, <2>4
<1>6. t = 0 => TableMpis(T, r, n) \in Nat
  <2>1. CASE n <= 4 * r + 3
    BY <1>3, <2>1 DEF TableMpis
  <2>2. CASE ~(n <= 4 * r + 3) /\ n <= 4 * r + 4 + T
    BY <2>2 DEF TableMpis
  <2>3. CASE ~(n <= 4 * r + 3) /\ ~(n <= 4 * r + 4 + T)
    <3> DEFINE j == n - T - 1
    <3>1. j \in Nat /\ TableMpis(T, r, n) = j \div 2
      BY <1>3, <2>3 DEF TableMpis
    <3> HIDE DEF j
    <3>2. QED
      BY <3>1
  <2>4. QED
    BY <2>1, <2>2, <2>3
<1>7. \A u : BarsAt(u) \in Nat /\ MpisAt(u) \in Nat
  BY DEF BarsAt, MpisAt
<1>8. Bars(R, T, r, t, n) \in Nat
  BY <1>5, <1>7 DEF Bars
<1>9. t = 0 => Mpis(R, T, r, n) \in Nat
  BY <1>6, <1>7 DEF Mpis
<1>10. QED
  BY <1>4, <1>8, <1>9

\* What a worker is at
LEMMA AtStage ==
  ASSUME Placed, NEW p \in Worker
  PROVE  /\ p[1] \in Rank /\ p[2] \in Tid /\ p = <<p[1], p[2]>>
         /\ place[p] \in Nat \ {0}
         /\ stage[p] \in 0..19 /\ bars[p] \in Nat /\ (p[2] # 0 => stage[p] \notin {2, 7, 13})
         /\ stage[p] = 0 => /\ place[p] <= LocalityLen(S.ranks, S.threads, p[2])
                            /\ At(p) = LocalityOp(S.threads, p[1], p[2], place[p])
                            /\ At(p) \in {"mpi", "barrier", "row"}
                            /\ p[2] # 0 => At(p) # "mpi"
                            /\ At(p) = "row" => place[p] = RowPlace(p)
                            /\ bars[p] = TableBars(S.threads, p[1], p[2], place[p])
         /\ stage[p] # 0 => /\ At(p) = Stages[stage[p]]
                            /\ place[p] > LocalityLen(S.ranks, S.threads, p[2])
                            /\ bars[p] = 2 * S.ranks + S.threads + BarsAt(stage[p])
         /\ At(p) = "mpi" => p[2] = 0
         /\ At(p) = "row" => stage[p] = 0
<1> DEFINE R == S.ranks
           T == S.threads
           r == p[1]
           t == p[2]
           n == place[p]
           l == LocalityLen(R, T, t)
<1>1. S \in Setups /\ p \in Process
  BY WorkerIsProcess DEF Placed, Typed
<1>2. p[1] \in Rank /\ p[2] \in Tid /\ p = <<p[1], p[2]>> /\ p[2] # -1
  BY <1>1, ProcessIs
<1>3. R \in Nat /\ T \in Nat \ {0} /\ r \in 0..(R - 1) /\ t \in 0..(T - 1)
  BY <1>1, <1>2, SetupParts DEF Rank, Tid
<1>4. ScriptLen(S, p) = WorkerLen(R, T, t) /\ OpAt(S, p, n) = WorkerOp(R, T, r, t, n)
  BY <1>2 DEF ScriptLen, OpAt
<1>5. n \in 1..WorkerLen(R, T, t) /\ At(p) = WorkerOp(R, T, r, t, n)
  BY <1>1, <1>4, AtPlace DEF Placed
<1>6. stage[p] = StageAt(R, T, t, n) /\ bars[p] = Bars(R, T, r, t, n)
  BY DEF stage, bars
<1>7. l \in Nat \ {0}
  BY <1>3, TableEnds
<1>8. n \in Nat \ {0}
  <2>1. n \in Int /\ n >= 1
    BY <1>5
  <2>2. QED
    BY <2>1
<1> HIDE DEF R, T, r, t, n
<1>9. /\ Bars(R, T, r, t, n) \in Nat /\ StageAt(R, T, t, n) \in 0..19
      /\ (StageAt(R, T, t, n) = 0 <=> n <= l)
      /\ t # 0 => StageAt(R, T, t, n) \notin {2, 7, 13}
  BY <1>3, <1>5, CountsAreNumbers
<1>10. stage[p] = 0 => /\ n <= l /\ At(p) = LocalityOp(T, r, t, n)
                       /\ At(p) \in {"mpi", "barrier", "row"}
                       /\ t # 0 => At(p) # "mpi"
                       /\ At(p) = "row" => n = RowPlace(p)
                       /\ bars[p] = TableBars(T, r, t, n)
  <2> SUFFICES ASSUME stage[p] = 0
               PROVE  /\ n <= l /\ At(p) = LocalityOp(T, r, t, n)
                      /\ At(p) \in {"mpi", "barrier", "row"}
                      /\ t # 0 => At(p) # "mpi"
                      /\ At(p) = "row" => n = RowPlace(p)
                      /\ bars[p] = TableBars(T, r, t, n)
    OBVIOUS
  <2>1. n <= l
    BY <1>6, <1>9
  <2>2. At(p) = LocalityOp(T, r, t, n) /\ bars[p] = TableBars(T, r, t, n)
    BY <1>5, <1>6, <2>1 DEF WorkerOp, Bars
  <2>3. LocalityOp(T, r, t, n) \in {"mpi", "barrier", "row"} /\ (t # 0 => LocalityOp(T, r, t, n) # "mpi")
    BY DEF LocalityOp
  <2>4. LocalityOp(T, r, t, n) = "row" => n = RowPlace(p)
    BY DEF LocalityOp, RowPlace, r, t
  <2>5. QED
    BY <2>1, <2>2, <2>3, <2>4
<1>11. stage[p] # 0 => At(p) = Stages[stage[p]] /\ n > l /\ bars[p] = 2 * R + T + BarsAt(stage[p])
  <2> SUFFICES ASSUME stage[p] # 0
               PROVE  At(p) = Stages[stage[p]] /\ n > l /\ bars[p] = 2 * R + T + BarsAt(stage[p])
    OBVIOUS
  <2>1. ~(n <= l)
    BY <1>6, <1>9
  <2>2. n > l
    BY <1>7, <1>8, <2>1
  <2>3. At(p) = Stages[stage[p]] /\ bars[p] = 2 * R + T + BarsAt(stage[p])
    BY <1>5, <1>6, <2>1 DEF WorkerOp, Bars
  <2>4. QED
    BY <2>2, <2>3
<1>12. At(p) = "mpi" => t = 0
  <2>1. \A u \in 1..19 : Stages[u] = "mpi" => u \in {2, 7, 13}
    BY DEF Stages
  <2>2. stage[p] # 0 => stage[p] \in 1..19
    BY <1>6, <1>9
  <2>3. QED
    BY <1>6, <1>9, <1>10, <1>11, <2>1, <2>2
<1>13. At(p) = "row" => stage[p] = 0
  <2>1. \A u \in 1..19 : Stages[u] # "row"
    BY DEF Stages
  <2>2. stage[p] # 0 => stage[p] \in 1..19
    BY <1>6, <1>9
  <2>3. QED
    BY <1>11, <2>1, <2>2
<1>14. QED
  BY <1>2, <1>6, <1>8, <1>9, <1>10, <1>11, <1>12, <1>13 DEF R, T, r, t, n

LEMMA RankMpis ==
  ASSUME Placed, NEW r \in Rank
  PROVE  <<r, 0>> \in Worker /\ mpis[r] \in Nat /\ mpis[r] = Mpis(S.ranks, S.threads, r, place[<<r, 0>>])
<1>1. S \in Setups /\ S.threads \in Nat \ {0} /\ S.ranks \in Nat
  BY SetupParts DEF Placed, Typed
<1>2. <<r, 0>> \in Worker
  BY <1>1 DEF Worker, WorkerOf, Rank
<1>3. mpis[r] = Mpis(S.ranks, S.threads, r, place[<<r, 0>>])
  BY DEF mpis
<1>4. place[<<r, 0>>] \in 1..WorkerLen(S.ranks, S.threads, 0)
  <2> DEFINE p == <<r, 0>>
  <2>1. p \in Process /\ p[2] = 0
    BY <1>2, WorkerIsProcess
  <2>2. ScriptLen(S, p) = WorkerLen(S.ranks, S.threads, 0)
    BY <2>1 DEF ScriptLen
  <2> HIDE DEF p
  <2>3. place[p] \in 1..ScriptLen(S, p)
    BY <2>1, AtPlace DEF Placed
  <2>4. QED
    BY <2>2, <2>3 DEF p
<1>5. r \in 0..(S.ranks - 1) /\ 0 \in 0..(S.threads - 1)
  BY <1>1 DEF Rank
<1>6. Mpis(S.ranks, S.threads, r, place[<<r, 0>>]) \in Nat
  BY <1>1, <1>4, <1>5, CountsAreNumbers
<1>7. QED
  BY <1>2, <1>3, <1>6

OthersStay(p) ==
    /\ \A q \in Worker : q # p => place'[q] = place[q] /\ stage'[q] = stage[q] /\ bars'[q] = bars[q]
    /\ \A q \in Process : q # p => todo'[q] = todo[q] /\ place'[q] = place[q]
    /\ \A r \in Rank : <<r, 0>> # p => mpis'[r] = mpis[r]

LEMMA MovedOthers ==
  ASSUME Placed, S' = S, NEW p \in Process, Moved(p)
  PROVE  OthersStay(p) /\ place'[p] = place[p] + 1
<1>1. place' = [place EXCEPT ![p] = place[p] + 1] /\ DOMAIN place = Process
  BY DEF Moved, place
<1>2. place'[p] = place[p] + 1 /\ \A q \in Process : q # p => place'[q] = place[q]
  BY <1>1 DEF place
<1>3. \A q \in Process : q # p => todo'[q] = todo[q]
  BY DEF Moved, Proceed, Placed, Typed
<1>4. ASSUME NEW q \in Worker, q # p
      PROVE  place'[q] = place[q] /\ stage'[q] = stage[q] /\ bars'[q] = bars[q]
  <2>1. place'[q] = place[q]
    BY <1>2, <1>4, WorkerIsProcess
  <2>2. stage'[q] = StageAt(S.ranks, S.threads, q[2], place'[q])
    BY SetupStays DEF stage
  <2>3. bars'[q] = Bars(S.ranks, S.threads, q[1], q[2], place'[q])
    BY SetupStays DEF bars
  <2>4. QED
    BY <2>1, <2>2, <2>3 DEF stage, bars
<1>5. ASSUME NEW r \in Rank, <<r, 0>> # p PROVE mpis'[r] = mpis[r]
  <2>1. <<r, 0>> \in Process
    BY RankMpis, WorkerIsProcess
  <2>2. place'[<<r, 0>>] = place[<<r, 0>>]
    BY <1>2, <1>5, <2>1
  <2>3. mpis'[r] = Mpis(S.ranks, S.threads, r, place'[<<r, 0>>])
    BY SetupStays DEF mpis
  <2>4. QED
    BY <2>2, <2>3 DEF mpis
<1>6. QED
  BY <1>2, <1>3, <1>4, <1>5 DEF OthersStay

LEMMA UnmovedAll ==
  ASSUME S' = S, Unmoved
  PROVE  /\ stage' = stage /\ bars' = bars /\ mpis' = mpis /\ place' = place /\ todo' = todo
BY SetupStays DEF Unmoved, stage, bars, mpis

LEMMA WorkerMoves ==
  ASSUME Placed, S' = S, NEW p \in Worker, Moved(p)
  PROVE  /\ stage[p] \in 0..18 /\ stage'[p] \in 0..19
         /\ \/ stage[p] = 0 /\ stage'[p] \in {0, 1}
            \/ /\ stage[p] # 0 /\ At(p) = Stages[stage[p]]
               /\ stage'[p] = IF p[2] # 0 /\ stage[p] \in {1, 6, 12} THEN stage[p] + 2 ELSE stage[p] + 1
         /\ bars'[p] = bars[p] + One(At(p), "barrier")
         /\ p[2] = 0 => mpis'[p[1]] = mpis[p[1]] + One(At(p), "mpi")
         /\ BegunAt(stage'[p]) = BegunAt(stage[p]) + OneOf(At(p), Sends)
         /\ EndedAt(stage'[p]) = EndedAt(stage[p]) + One(At(p), "wait")
         /\ BatchAt(stage'[p]) = BatchAt(stage[p]) + One(At(p), "idle")
<1> DEFINE R == S.ranks
           T == S.threads
           r == p[1]
           t == p[2]
           n == place[p]
           op == At(p)
           u == stage[p]
           v == stage'[p]
<1>1. S \in Setups /\ p \in Process
  BY WorkerIsProcess DEF Placed, Typed
<1>2. p[1] \in Rank /\ p[2] \in Tid /\ p = <<p[1], p[2]>> /\ p[2] # -1
  BY <1>1, ProcessIs
<1>3. R \in Nat /\ T \in Nat \ {0} /\ r \in 0..(R - 1) /\ t \in 0..(T - 1)
  BY <1>1, <1>2, SetupParts DEF Rank, Tid
<1>4. ScriptLen(S, p) = WorkerLen(R, T, t) /\ OpAt(S, p, n) = WorkerOp(R, T, r, t, n)
  BY <1>2 DEF ScriptLen, OpAt
<1>5. ScriptLen(S, p) \in Nat /\ n \in 1..ScriptLen(S, p) /\ n < ScriptLen(S, p) /\ op = OpAt(S, p, n)
  BY <1>1, AtPlace DEF Placed, Moved
<1>6. place'[p] = n + 1
  BY <1>1, MovedOthers
<1>7. u = StageAt(R, T, t, n) /\ bars[p] = Bars(R, T, r, t, n)
  BY DEF stage, bars
<1>8. v = StageAt(R, T, t, n + 1) /\ bars'[p] = Bars(R, T, r, t, n + 1)
  BY <1>6, SetupStays DEF stage, bars
<1>9. t = 0 => mpis[r] = Mpis(R, T, r, n) /\ mpis'[r] = Mpis(R, T, r, n + 1)
  BY <1>2, <1>6, SetupStays DEF mpis
<1> HIDE DEF R, T, r, t, n, op, u, v
<1>10. n \in 1..(WorkerLen(R, T, t) - 1) /\ op = WorkerOp(R, T, r, t, n)
  BY <1>4, <1>5
<1>11. /\ u \in 0..18 /\ v \in 0..19
       /\ \/ u = 0 /\ v \in {0, 1}
          \/ u # 0 /\ op = Stages[u] /\ v = IF t # 0 /\ u \in {1, 6, 12} THEN u + 2 ELSE u + 1
       /\ Bars(R, T, r, t, n + 1) = Bars(R, T, r, t, n) + One(op, "barrier")
       /\ t = 0 => Mpis(R, T, r, n + 1) = Mpis(R, T, r, n) + One(op, "mpi")
       /\ BegunAt(v) = BegunAt(u) + OneOf(op, Sends)
       /\ EndedAt(v) = EndedAt(u) + One(op, "wait")
       /\ BatchAt(v) = BatchAt(u) + One(op, "idle")
  BY <1>3, <1>7, <1>8, <1>10, WorkerStep
<1>12. /\ bars'[p] = bars[p] + One(op, "barrier")
       /\ t = 0 => mpis'[r] = mpis[r] + One(op, "mpi")
  BY <1>7, <1>8, <1>9, <1>11
<1>13. QED
  BY <1>11, <1>12 DEF r, t, op, u, v

\* Main is at 1, 3, 8: sync; 2, 7: schedule; 4, 9: mpi; 5: gather; 6: report; 10: end
LEMMA AtMain ==
  ASSUME Placed, NEW r \in Rank
  PROVE  /\ MainOf(r) \in Process /\ MainOf(r) \notin Worker /\ MainOf(r)[1] = r
         /\ place[MainOf(r)] \in 1..10 /\ At(MainOf(r)) = MainScript[place[MainOf(r)]]
         /\ At(MainOf(r)) # "barrier"
<1> DEFINE p == MainOf(r)
<1>1. p \in Process /\ p \in Main /\ p[2] = -1 /\ p[1] = r
  BY MainIsProcess DEF MainOf
<1>2. S \in Setups
  BY DEF Placed, Typed
<1>3. ScriptLen(S, p) = 10 /\ OpAt(S, p, place[p]) = MainScript[place[p]]
  BY <1>1 DEF ScriptLen, OpAt
<1>4. p \notin Worker
  BY <1>1, <1>2, ProcessIs
<1> HIDE DEF p
<1>5. place[p] \in 1..10 /\ At(p) = MainScript[place[p]]
  BY <1>1, <1>3, AtPlace DEF Placed
<1>6. \A m \in 1..10 : MainScript[m] # "barrier"
  BY DEF MainScript
<1>7. QED
  BY <1>1, <1>4, <1>5, <1>6 DEF p

LEMMA MainIs ==
  ASSUME Placed, NEW p \in Process, p \notin Worker
  PROVE  p[1] \in Rank /\ p = MainOf(p[1])
BY ProcessIs DEF Placed, Typed, MainOf

LEMMA MainMoves ==
  ASSUME Placed, S' = S, NEW r \in Rank, Moved(MainOf(r))
  PROVE  /\ place'[MainOf(r)] = place[MainOf(r)] + 1 /\ place[MainOf(r)] \in 1..9
         /\ MainMpis(place'[MainOf(r)]) = MainMpis(place[MainOf(r)]) + One(At(MainOf(r)), "mpi")
         /\ JobsAt(place'[MainOf(r)]) = JobsAt(place[MainOf(r)]) + One(At(MainOf(r)), "schedule")
         /\ stage' = stage /\ bars' = bars /\ mpis' = mpis
<1> DEFINE p == MainOf(r)
           m == place[p]
<1>1. p \in Process /\ p \notin Worker /\ m \in 1..10 /\ At(p) = MainScript[m] /\ p[2] = -1
  BY AtMain DEF MainOf
<1>2. place'[p] = m + 1 /\ OthersStay(p)
  BY <1>1, MovedOthers
<1>3. m \in 1..9
  <2>1. ScriptLen(S, p) = 10
    BY <1>1 DEF ScriptLen
  <2>2. m < 10
    BY <2>1 DEF Moved
  <2>3. QED
    BY <1>1, <2>2
<1>4. \A q \in Worker : stage'[q] = stage[q] /\ bars'[q] = bars[q]
  BY <1>1, <1>2 DEF OthersStay
<1>5. \A k \in Rank : mpis'[k] = mpis[k]
  <2> TAKE k \in Rank
  <2>1. <<k, 0>> # p
    BY DEF MainOf
  <2>2. QED
    BY <1>2, <2>1 DEF OthersStay
<1>6. stage' = stage /\ bars' = bars /\ mpis' = mpis
  <2>1. stage' = [q \in Worker |-> stage'[q]] /\ stage = [q \in Worker |-> stage[q]]
    BY SetupStays DEF stage
  <2>2. bars' = [q \in Worker |-> bars'[q]] /\ bars = [q \in Worker |-> bars[q]]
    BY SetupStays DEF bars
  <2>3. mpis' = [k \in Rank |-> mpis'[k]] /\ mpis = [k \in Rank |-> mpis[k]]
    BY SetupStays DEF mpis
  <2>4. QED
    BY <1>4, <1>5, <2>1, <2>2, <2>3
<1> HIDE DEF m, p
<1>7. MainMpis(m + 1) = MainMpis(m) + One(MainScript[m], "mpi")
  BY <1>3 DEF MainMpis, One, MainScript
<1>8. JobsAt(m + 1) = JobsAt(m) + One(MainScript[m], "schedule")
  BY <1>3 DEF JobsAt, One, MainScript
<1>9. QED
  BY <1>1, <1>2, <1>3, <1>6, <1>7, <1>8 DEF m, p

-----------------------------------------------------------------------------
(***************************************************************************)
(* What the counters of the processes are, as their places tell.             *)
(***************************************************************************)
Inside(p, name) == IF inside[p] /\ At(p) = name THEN 1 ELSE 0

InsideInv == \A p \in Process : inside[p] => At(p) \in {"barrier", "mpi"}

EnteredInv == \A p \in Worker : entered[p] = bars[p] + Inside(p, "barrier")

MpiInv == \A r \in Rank :
            mpi[r] = mpis[r] + MainMpis(place[MainOf(r)])
                     + Inside(<<r, 0>>, "mpi") + Inside(MainOf(r), "mpi")

StagesInv == \A p \in Worker : /\ begun[p] = BegunAt(stage[p])
                               /\ ended[p] = EndedAt(stage[p])
                               /\ batch[p] = BatchAt(stage[p])

JobsInv == \A r \in Rank : jobs[r] = JobsAt(place[MainOf(r)])

CountInv == InsideInv /\ EnteredInv /\ MpiInv /\ StagesInv /\ JobsInv

\* A worker that is given a job has not come to the end of its script: there are
\* three batches.
LEMMA NotTheLast ==
  ASSUME Placed, CountInv, NEW p \in Worker, NextJob(p)
  PROVE  place[p] < ScriptLen(S, p)
<1> DEFINE R == S.ranks
           T == S.threads
           t == p[2]
           l == LocalityLen(R, T, t)
           k == StagesLen(t)
<1>1. S \in Setups /\ p \in Process
  BY WorkerIsProcess DEF Placed, Typed
<1>2. p[1] \in Rank /\ p[2] \in Tid /\ p[2] # -1
  BY <1>1, ProcessIs
<1>3. R \in Nat /\ T \in Nat \ {0} /\ t \in 0..(T - 1)
  BY <1>1, <1>2, SetupParts DEF Tid
<1>4. batch[p] < jobs[p[1]] /\ At(p) = "idle"
  BY DEF NextJob
<1>5. batch[p] = BatchAt(stage[p]) /\ jobs[p[1]] = JobsAt(place[MainOf(p[1])])
  BY <1>2 DEF CountInv, StagesInv, JobsInv
<1>6. stage[p] # 19
  <2> SUFFICES ASSUME stage[p] = 19 PROVE FALSE
    OBVIOUS
  <2>1. batch[p] = 3
    BY <1>5 DEF BatchAt
  <2>2. jobs[p[1]] \in 1..3
    BY <1>5 DEF JobsAt
  <2>3. QED
    BY <1>4, <2>1, <2>2
<1>7. stage[p] = StageAt(R, T, t, place[p])
  BY DEF stage
<1>8. ScriptLen(S, p) = l + k
  BY <1>2 DEF ScriptLen, WorkerLen
<1>9. l \in Nat \ {0} /\ k \in Nat \ {0} /\ StageOf(t, k) = 19
  <2>1. l \in Nat \ {0}
    <3> DEFINE x == p[1]
    <3>1. x \in 0..(R - 1)
      BY <1>2 DEF Rank
    <3> HIDE DEF R, T, t, x
    <3>2. QED
      BY <1>3, <3>1, TableEnds
  <2> HIDE DEF l, t
  <2>2. QED
    BY <2>1 DEF StagesLen, StageOf, k
<1>10. place[p] # l + k
  <2> SUFFICES ASSUME place[p] = l + k PROVE FALSE
    OBVIOUS
  <2>1. stage[p] = StageAt(R, T, t, l + k)
    BY <1>7
  <2> HIDE DEF k, R, T, t
  <2>2. StageAt(R, T, t, l + k) = StageOf(t, (l + k) - l)
    <3> HIDE DEF l
    <3>1. ~(l + k <= l)
      BY <1>9
    <3>2. QED
      BY <3>1 DEF StageAt, l
  <2> HIDE DEF l
  <2>3. (l + k) - l = k
    BY <1>9
  <2>4. QED
    BY <1>6, <1>9, <2>1, <2>2, <2>3
<1>11. place[p] \in 1..ScriptLen(S, p)
  BY <1>1, AtPlace DEF Placed
<1> HIDE DEF l, k
<1>12. QED
  BY <1>8, <1>9, <1>10, <1>11

LEMMA NextPlaced ==
  ASSUME Placed, CountInv, [Next]_vars
  PROVE  Placed' /\ S' = S
<1>1. CASE UNCHANGED vars
  BY <1>1, StutterPlaces DEF Unmoved
<1>2. ASSUME NEW p \in Worker \cup Main, Enter(p) \/ Leave(p) \/ Local(p)
      PROVE  Placed' /\ S' = S
  BY <1>2, EnterPlaces, LeavePlaces, LocalPlaces DEF Process, Unmoved, Moved
<1>3. ASSUME NEW r \in Rank, Sync(r) \/ Schedule(r) \/ GatherGive(r) \/ GatherEnd(r)
      PROVE  Placed' /\ S' = S
  BY <1>3, SyncPlaces, SchedulePlaces, GatherGivePlaces, GatherEndPlaces DEF Moved, Unmoved
<1>4. ASSUME NEW p \in Worker, NextJob(p) \/ PrintRow(p) \/ send_recv(p) \/ wait_all(p)
      PROVE  Placed' /\ S' = S
  BY <1>4, NotTheLast, NextJobPlaces, PrintRowPlaces, SendRecvPlaces, WaitAllPlaces DEF Moved
<1>5. ASSUME NEW p \in Worker, NEW i \in Slot, Match(p, i) \/ send_callback(p, i) \/ recv_callback(p, i)
      PROVE  Placed' /\ S' = S
  BY <1>5, MatchPlaces, SendCallbackPlaces, RecvCallbackPlaces DEF Unmoved
<1>6. QED
  BY <1>1, <1>2, <1>3, <1>4, <1>5 DEF Next, Done

LEMMA InsideIs == \A p, name : Inside(p, name) \in {0, 1}
BY DEF Inside

LEMMA SmallNumbers == \A m, op, name : MainMpis(m) \in Nat /\ One(op, name) \in {0, 1}
BY DEF MainMpis, One

\* A worker goes on: it leaves the barrier it was in, or does what is none.
LEMMA CountMoved ==
  ASSUME Placed, CountInv, S' = S, NEW p \in Worker, Moved(p),
         inside' = [inside EXCEPT ![p] = FALSE],
         At(p) \in {"barrier", "mpi"} => inside[p],
         entered' = entered, mpi' = mpi, jobs' = jobs,
         begun' = [begun EXCEPT ![p] = begun[p] + OneOf(At(p), Sends)],
         ended' = [ended EXCEPT ![p] = ended[p] + One(At(p), "wait")],
         batch' = [batch EXCEPT ![p] = batch[p] + One(At(p), "idle")]
  PROVE  CountInv'
<1>1. Process' = Process /\ Worker' = Worker /\ Rank' = Rank /\ p \in Process
  BY SetupStays, WorkerIsProcess
<1>2. OthersStay(p) /\ place'[p] = place[p] + 1
  BY <1>1, MovedOthers
<1>3. /\ bars'[p] = bars[p] + One(At(p), "barrier")
      /\ p[2] = 0 => mpis'[p[1]] = mpis[p[1]] + One(At(p), "mpi")
      /\ BegunAt(stage'[p]) = BegunAt(stage[p]) + OneOf(At(p), Sends)
      /\ EndedAt(stage'[p]) = EndedAt(stage[p]) + One(At(p), "wait")
      /\ BatchAt(stage'[p]) = BatchAt(stage[p]) + One(At(p), "idle")
  BY WorkerMoves
<1>4. inside \in [Process -> BOOLEAN] /\ begun \in [Worker -> Nat] /\ ended \in [Worker -> Nat]
      /\ batch \in [Worker -> Nat] /\ entered \in [Worker -> Nat] /\ mpi \in [Rank -> Nat]
  BY DEF Placed, Typed
<1>5. inside'[p] = FALSE /\ \A q \in Process : q # p => inside'[q] = inside[q]
  BY <1>1, <1>4
<1>6. \A q \in Process : q # p => At(q)' = At(q)
  BY <1>2 DEF OthersStay, At
<1>7. \A q \in Process : \A name : q # p => Inside(q, name)' = Inside(q, name)
  BY <1>5, <1>6 DEF Inside
<1>8. \A name : Inside(p, name)' = 0
  BY <1>5 DEF Inside
<1>9. Inside(p, "barrier") = One(At(p), "barrier") /\ Inside(p, "mpi") = One(At(p), "mpi")
  <2>1. At(p) = "barrier" => inside[p]
    OBVIOUS
  <2>2. At(p) = "mpi" => inside[p]
    OBVIOUS
  <2>3. QED
    BY <2>1, <2>2 DEF Inside, One
<1>10. InsideInv'
  BY <1>1, <1>5, <1>6 DEF CountInv, InsideInv
<1>11. EnteredInv'
  <2> SUFFICES ASSUME NEW q \in Worker PROVE entered[q] = bars'[q] + Inside(q, "barrier")'
    BY <1>1 DEF EnteredInv
  <2>1. entered[q] = bars[q] + Inside(q, "barrier") /\ q \in Process
    BY WorkerIsProcess DEF CountInv, EnteredInv
  <2>2. CASE q # p
    BY <1>2, <1>7, <2>1, <2>2 DEF OthersStay
  <2>3. CASE q = p
    <3>1. bars[p] \in Nat /\ One(At(p), "barrier") \in Nat
      BY AtStage DEF One
    <3>2. QED
      BY <1>3, <1>8, <1>9, <2>1, <2>3, <3>1
  <2>4. QED
    BY <2>2, <2>3
<1>12. MpiInv'
  <2> SUFFICES ASSUME NEW r \in Rank
               PROVE  mpi[r] = mpis'[r] + MainMpis(place'[MainOf(r)])
                               + Inside(<<r, 0>>, "mpi")' + Inside(MainOf(r), "mpi")'
    BY <1>1 DEF MpiInv
  <2> DEFINE a == <<r, 0>>
             b == MainOf(r)
  <2>1. mpi[r] = mpis[r] + MainMpis(place[b]) + Inside(a, "mpi") + Inside(b, "mpi")
    BY DEF CountInv, MpiInv
  <2>2. a \in Process /\ b \in Process /\ b # p /\ a[1] = r /\ a[2] = 0
    BY RankMpis, AtMain, WorkerIsProcess
  <2>3. place'[b] = place[b] /\ Inside(b, "mpi")' = Inside(b, "mpi")
    BY <1>2, <1>7, <2>2 DEF OthersStay
  <2>4. CASE a # p
    <3>1. mpis'[r] = mpis[r] /\ Inside(a, "mpi")' = Inside(a, "mpi")
      BY <1>2, <1>7, <2>2, <2>4 DEF OthersStay
    <3>2. QED
      BY <2>1, <2>3, <3>1
  <2>5. CASE a = p
    <3>1. mpis'[r] = mpis[r] + One(At(p), "mpi") /\ Inside(a, "mpi")' = 0
      BY <1>3, <1>8, <2>2, <2>5
    <3>2. Inside(a, "mpi") = One(At(p), "mpi")
      BY <1>9, <2>5
    <3>3. mpis[r] \in Nat /\ One(At(p), "mpi") \in Nat /\ MainMpis(place[b]) \in Nat /\ Inside(b, "mpi") \in Nat
      <4>1. mpis[r] \in Nat
        BY RankMpis
      <4>2. One(At(p), "mpi") \in Nat /\ MainMpis(place[b]) \in Nat
        <5> HIDE DEF b
        <5>1. QED
          BY SmallNumbers
      <4>3. Inside(b, "mpi") \in Nat
        <5> HIDE DEF b
        <5>1. Inside(b, "mpi") \in {0, 1}
          BY InsideIs
        <5>2. QED
          BY <5>1
      <4>4. QED
        BY <4>1, <4>2, <4>3
    <3> HIDE DEF a, b
    <3>4. mpi[r] = mpis'[r] + MainMpis(place'[b]) + Inside(a, "mpi")' + Inside(b, "mpi")'
      BY <2>1, <2>3, <3>1, <3>2, <3>3
    <3>5. QED
      BY <3>4 DEF a, b
  <2>6. QED
    BY <2>4, <2>5
<1>13. StagesInv'
  <2> SUFFICES ASSUME NEW q \in Worker
               PROVE  begun'[q] = BegunAt(stage'[q]) /\ ended'[q] = EndedAt(stage'[q])
                      /\ batch'[q] = BatchAt(stage'[q])
    BY <1>1 DEF StagesInv
  <2>1. begun[q] = BegunAt(stage[q]) /\ ended[q] = EndedAt(stage[q]) /\ batch[q] = BatchAt(stage[q])
    BY DEF CountInv, StagesInv
  <2>2. CASE q # p
    <3>1. begun'[q] = begun[q] /\ ended'[q] = ended[q] /\ batch'[q] = batch[q]
      BY <1>4, <2>2
    <3>2. QED
      BY <1>2, <2>1, <2>2, <3>1 DEF OthersStay
  <2>3. CASE q = p
    <3>1. /\ begun'[p] = begun[p] + OneOf(At(p), Sends) /\ ended'[p] = ended[p] + One(At(p), "wait")
          /\ batch'[p] = batch[p] + One(At(p), "idle")
      BY <1>4
    <3>2. QED
      BY <1>3, <2>1, <2>3, <3>1
  <2>4. QED
    BY <2>2, <2>3
<1>14. JobsInv'
  <2> SUFFICES ASSUME NEW r \in Rank PROVE jobs[r] = JobsAt(place'[MainOf(r)])
    BY <1>1 DEF JobsInv
  <2>1. MainOf(r) \in Process /\ MainOf(r) # p
    BY AtMain
  <2>2. QED
    BY <1>2, <2>1 DEF OthersStay, CountInv, JobsInv
<1>15. QED
  BY <1>10, <1>11, <1>12, <1>13, <1>14 DEF CountInv

LEMMA CountMainMoved ==
  ASSUME Placed, CountInv, S' = S, NEW r \in Rank, Moved(MainOf(r)),
         inside' = [inside EXCEPT ![MainOf(r)] = FALSE],
         At(MainOf(r)) = "mpi" => inside[MainOf(r)],
         entered' = entered, mpi' = mpi,
         jobs' = [jobs EXCEPT ![r] = jobs[r] + One(At(MainOf(r)), "schedule")],
         begun' = begun, ended' = ended, batch' = batch
  PROVE  CountInv'
<1> DEFINE p == MainOf(r)
<1>1. Process' = Process /\ Worker' = Worker /\ Rank' = Rank
  BY SetupStays
<1>2. p \in Process /\ p \notin Worker /\ p[1] = r
  BY AtMain
<1>3. OthersStay(p)
  BY <1>2, MovedOthers
<1>4. /\ MainMpis(place'[p]) = MainMpis(place[p]) + One(At(p), "mpi")
      /\ JobsAt(place'[p]) = JobsAt(place[p]) + One(At(p), "schedule")
      /\ stage' = stage /\ bars' = bars /\ mpis' = mpis
  BY MainMoves
<1>5. inside \in [Process -> BOOLEAN] /\ jobs \in [Rank -> Nat]
  BY DEF Placed, Typed
<1>6. inside'[p] = FALSE /\ \A q \in Process : q # p => inside'[q] = inside[q]
  BY <1>2, <1>5
<1>7. \A q \in Process : q # p => At(q)' = At(q)
  BY <1>3 DEF OthersStay, At
<1>8. \A q \in Process : \A name : q # p => Inside(q, name)' = Inside(q, name)
  BY <1>6, <1>7 DEF Inside
<1>9. Inside(p, "mpi")' = 0
  BY <1>6 DEF Inside
<1>10. Inside(p, "mpi") = One(At(p), "mpi")
  BY DEF Inside, One
<1>11. InsideInv'
  BY <1>1, <1>6, <1>7 DEF CountInv, InsideInv
<1>12. EnteredInv'
  <2> SUFFICES ASSUME NEW q \in Worker PROVE entered[q] = bars[q] + Inside(q, "barrier")'
    BY <1>1, <1>4 DEF EnteredInv
  <2>1. q \in Process /\ q # p
    BY <1>2, WorkerIsProcess
  <2>2. QED
    BY <1>8, <2>1 DEF CountInv, EnteredInv
<1>13. MpiInv'
  <2> SUFFICES ASSUME NEW k \in Rank
               PROVE  mpi[k] = mpis[k] + MainMpis(place'[MainOf(k)])
                               + Inside(<<k, 0>>, "mpi")' + Inside(MainOf(k), "mpi")'
    BY <1>1, <1>4 DEF MpiInv
  <2> DEFINE a == <<k, 0>>
             b == MainOf(k)
  <2>1. mpi[k] = mpis[k] + MainMpis(place[b]) + Inside(a, "mpi") + Inside(b, "mpi")
    BY DEF CountInv, MpiInv
  <2>2. a \in Process /\ b \in Process /\ a # p /\ b[1] = k
    BY <1>2, RankMpis, AtMain, WorkerIsProcess
  <2>3. Inside(a, "mpi")' = Inside(a, "mpi")
    BY <1>8, <2>2
  <2>4. CASE b # p
    <3>1. place'[b] = place[b] /\ Inside(b, "mpi")' = Inside(b, "mpi")
      BY <1>3, <1>8, <2>2, <2>4 DEF OthersStay
    <3>2. QED
      BY <2>1, <2>3, <3>1
  <2>5. CASE b = p
    <3>1. MainMpis(place'[b]) = MainMpis(place[b]) + One(At(p), "mpi") /\ Inside(b, "mpi")' = 0
      BY <1>4, <1>9, <2>5
    <3>2. Inside(b, "mpi") = One(At(p), "mpi")
      BY <1>10, <2>5
    <3>3. mpis[k] \in Nat /\ One(At(p), "mpi") \in Nat /\ MainMpis(place[b]) \in Nat /\ Inside(a, "mpi") \in Nat
      BY RankMpis, InsideIs, SmallNumbers
    <3> HIDE DEF a, b
    <3>4. mpi[k] = mpis[k] + MainMpis(place'[b]) + Inside(a, "mpi")' + Inside(b, "mpi")'
      BY <2>1, <2>3, <3>1, <3>2, <3>3
    <3>5. QED
      BY <3>4 DEF a, b
  <2>6. QED
    BY <2>4, <2>5
<1>14. StagesInv'
  BY <1>1, <1>4 DEF CountInv, StagesInv
<1>15. JobsInv'
  <2> SUFFICES ASSUME NEW k \in Rank PROVE jobs'[k] = JobsAt(place'[MainOf(k)])
    BY <1>1 DEF JobsInv
  <2>1. jobs[k] = JobsAt(place[MainOf(k)])
    BY DEF CountInv, JobsInv
  <2>2. CASE k # r
    <3>1. MainOf(k) \in Process /\ MainOf(k)[1] = k
      BY AtMain
    <3>2. MainOf(k) # p
      BY <1>2, <2>2, <3>1
    <3>3. place'[MainOf(k)] = place[MainOf(k)]
      BY <1>3, <3>1, <3>2 DEF OthersStay
    <3>4. jobs'[k] = jobs[k]
      BY <1>5, <2>2
    <3>5. QED
      BY <2>1, <3>3, <3>4
  <2>3. CASE k = r
    <3>1. jobs'[r] = jobs[r] + One(At(p), "schedule")
      BY <1>5
    <3>2. QED
      BY <1>4, <2>1, <2>3, <3>1
  <2>4. QED
    BY <2>2, <2>3
<1>16. QED
  BY <1>11, <1>12, <1>13, <1>14, <1>15 DEF CountInv

LEMMA CountUnmoved ==
  ASSUME Placed, CountInv, S' = S, Unmoved, inside' = inside, entered' = entered, mpi' = mpi,
         jobs' = jobs, begun' = begun, ended' = ended, batch' = batch
  PROVE  CountInv'
<1>1. stage' = stage /\ bars' = bars /\ mpis' = mpis /\ place' = place /\ todo' = todo
  BY UnmovedAll
<1>2. Process' = Process /\ Worker' = Worker /\ Rank' = Rank
  BY SetupStays
<1>3. \A p, name : Inside(p, name)' = Inside(p, name)
  BY <1>1 DEF Inside, At
<1>4. InsideInv'
  BY <1>1, <1>2 DEF CountInv, InsideInv, At
<1>5. EnteredInv' /\ MpiInv'
  BY <1>1, <1>2, <1>3 DEF CountInv, EnteredInv, MpiInv
<1>6. StagesInv' /\ JobsInv'
  BY <1>1, <1>2 DEF CountInv, StagesInv, JobsInv
<1>7. QED
  BY <1>4, <1>5, <1>6 DEF CountInv

LEMMA CountEnter ==
  ASSUME Placed, CountInv, NEW p \in Process, Enter(p)
  PROVE  CountInv'
<1>0. S' = S /\ Unmoved
  BY EnterPlaces
<1>1. stage' = stage /\ bars' = bars /\ mpis' = mpis /\ place' = place /\ todo' = todo
  BY <1>0, UnmovedAll
<1>2. Process' = Process /\ Worker' = Worker /\ Rank' = Rank
  BY <1>0, SetupStays
<1>3. inside \in [Process -> BOOLEAN] /\ entered \in [Worker -> Nat] /\ mpi \in [Rank -> Nat]
  BY DEF Placed, Typed
<1>4. /\ At(p) \in {"barrier", "mpi"} /\ ~inside[p] /\ inside' = [inside EXCEPT ![p] = TRUE]
      /\ \/ At(p) = "barrier" /\ entered' = [entered EXCEPT ![p] = entered[p] + 1] /\ mpi' = mpi
         \/ At(p) = "mpi" /\ mpi' = [mpi EXCEPT ![p[1]] = mpi[p[1]] + 1] /\ entered' = entered
  BY DEF Enter
<1>5. jobs' = jobs /\ begun' = begun /\ ended' = ended /\ batch' = batch
  BY DEF Enter, batches, phases
<1>6. \A q : At(q)' = At(q)
  BY <1>1 DEF At
<1>7. inside'[p] = TRUE /\ \A q \in Process : q # p => inside'[q] = inside[q]
  BY <1>3, <1>4
<1>8. \A q \in Process : \A name : q # p => Inside(q, name)' = Inside(q, name)
  BY <1>6, <1>7 DEF Inside
<1>9. \A name : Inside(p, name)' = One(At(p), name) /\ Inside(p, name) = 0
  BY <1>4, <1>6, <1>7 DEF Inside, One
<1>10. InsideInv'
  BY <1>2, <1>4, <1>6, <1>7 DEF CountInv, InsideInv
<1>11. EnteredInv'
  <2> SUFFICES ASSUME NEW q \in Worker PROVE entered'[q] = bars[q] + Inside(q, "barrier")'
    BY <1>1, <1>2 DEF EnteredInv
  <2>1. entered[q] = bars[q] + Inside(q, "barrier") /\ q \in Process /\ bars[q] \in Nat
    BY WorkerIsProcess, AtStage DEF CountInv, EnteredInv
  <2>2. CASE q # p
    <3>1. entered'[q] = entered[q]
      BY <1>3, <1>4, <2>2
    <3>2. QED
      BY <1>8, <2>1, <2>2, <3>1
  <2>3. CASE q = p
    <3>1. entered'[q] = entered[q] + One(At(p), "barrier")
      BY <1>3, <1>4, <2>3 DEF One
    <3>2. entered[q] = bars[q]
      BY <1>9, <2>1, <2>3
    <3>3. QED
      BY <1>9, <2>3, <3>1, <3>2
  <2>4. QED
    BY <2>2, <2>3
<1>12. MpiInv'
  <2> SUFFICES ASSUME NEW r \in Rank
               PROVE  mpi'[r] = mpis[r] + MainMpis(place[MainOf(r)])
                                + Inside(<<r, 0>>, "mpi")' + Inside(MainOf(r), "mpi")'
    BY <1>1, <1>2 DEF MpiInv
  <2> DEFINE a == <<r, 0>>
             b == MainOf(r)
             x == mpis[r]
             y == MainMpis(place[b])
  <2>1. mpi[r] = x + y + Inside(a, "mpi") + Inside(b, "mpi")
    BY DEF CountInv, MpiInv
  <2>2. a \in Process /\ b \in Process /\ a \in Worker /\ b \notin Worker /\ a[1] = r /\ b[1] = r
    BY RankMpis, AtMain, WorkerIsProcess
  <2>3. x \in Nat /\ y \in Nat /\ Inside(a, "mpi") \in Nat /\ Inside(b, "mpi") \in Nat
    BY RankMpis, InsideIs DEF MainMpis
  <2> HIDE DEF x, y
  <2>4. CASE p = a
    <3>1. mpi'[r] = mpi[r] + One(At(p), "mpi")
      BY <1>3, <1>4, <2>2, <2>4 DEF One
    <3>2. Inside(a, "mpi")' = One(At(p), "mpi") /\ Inside(a, "mpi") = 0 /\ Inside(b, "mpi")' = Inside(b, "mpi")
      BY <1>8, <1>9, <2>2, <2>4
    <3>3. One(At(p), "mpi") \in Nat
      BY DEF One
    <3> HIDE DEF a, b
    <3>4. mpi'[r] = x + y + Inside(a, "mpi")' + Inside(b, "mpi")'
      BY <2>1, <2>3, <3>1, <3>2, <3>3
    <3>5. QED
      BY <3>4 DEF a, b, x, y
  <2>5. CASE p = b
    <3>1. mpi'[r] = mpi[r] + One(At(p), "mpi")
      BY <1>3, <1>4, <2>2, <2>5 DEF One
    <3>2. Inside(b, "mpi")' = One(At(p), "mpi") /\ Inside(b, "mpi") = 0 /\ Inside(a, "mpi")' = Inside(a, "mpi")
      BY <1>8, <1>9, <2>2, <2>5
    <3>3. One(At(p), "mpi") \in Nat
      BY DEF One
    <3> HIDE DEF a, b
    <3>4. mpi'[r] = x + y + Inside(a, "mpi")' + Inside(b, "mpi")'
      BY <2>1, <2>3, <3>1, <3>2, <3>3
    <3>5. QED
      BY <3>4 DEF a, b, x, y
  <2>6. CASE p # a /\ p # b
    <3>1. Inside(b, "mpi")' = Inside(b, "mpi") /\ Inside(a, "mpi")' = Inside(a, "mpi")
      BY <1>8, <2>2, <2>6
    <3>2. mpi'[r] = mpi[r]
      <4>1. CASE At(p) = "barrier"
        BY <1>4, <4>1
      <4>2. CASE At(p) = "mpi"
        <5>1. p[1] # r
          <6>1. CASE p \in Worker
            BY <2>6, <4>2, <6>1, AtStage
          <6>2. CASE p \notin Worker
            BY <2>6, <6>2, MainIs
          <6>3. QED
            BY <6>1, <6>2
        <5>2. QED
          BY <1>3, <1>4, <4>2, <5>1
      <4>3. QED
        BY <1>4, <4>1, <4>2
    <3>3. QED
      BY <2>1, <3>1, <3>2 DEF x, y
  <2>7. QED
    BY <2>4, <2>5, <2>6
<1>13. StagesInv' /\ JobsInv'
  BY <1>1, <1>2, <1>5 DEF CountInv, StagesInv, JobsInv
<1>14. QED
  BY <1>10, <1>11, <1>12, <1>13 DEF CountInv

LEMMA InitCounts ==
  ASSUME Init
  PROVE  CountInv /\ (\A p \in Worker : stage[p] = 0 /\ bars[p] = 0) /\ (\A r \in Rank : mpis[r] = 0)
         /\ \A p \in Process : place[p] = 1
<1>1. Placed
  BY InitPlaced DEF Placed
<1>2. ASSUME NEW p \in Process PROVE place[p] = 1
  <2>1. todo[p] = Script(S, p) /\ S \in Setups
    BY DEF Init, Process
  <2>2. ScriptLen(S, p) \in Nat /\ Len(Script(S, p)) = ScriptLen(S, p)
    BY <2>1, ProcessIs, ScriptIs
  <2>3. place[p] = ScriptLen(S, p) - Len(todo[p]) + 1
    BY DEF place
  <2> DEFINE l == ScriptLen(S, p)
  <2>4. place[p] = l - l + 1 /\ l \in Nat
    BY <2>1, <2>2, <2>3
  <2> HIDE DEF l
  <2>5. QED
    BY <2>4
<1>3. ASSUME NEW p \in Worker PROVE stage[p] = 0 /\ bars[p] = 0
  <2> DEFINE R == S.ranks
             T == S.threads
             r == p[1]
             t == p[2]
  <2>1. p \in Process /\ S \in Setups /\ p[1] \in Rank /\ p[2] \in Tid
    BY <1>1, WorkerIsProcess, AtStage DEF Placed, Typed
  <2>2. R \in Nat /\ T \in Nat \ {0} /\ r \in 0..(R - 1) /\ t \in 0..(T - 1)
    BY <2>1, SetupParts DEF Rank, Tid
  <2>3. stage[p] = StageAt(R, T, t, 1) /\ bars[p] = Bars(R, T, r, t, 1)
    BY <1>2, <2>1 DEF stage, bars
  <2> HIDE DEF R, T, r, t
  <2>4. LocalityLen(R, T, t) \in Nat \ {0}
    BY <2>2, TableEnds
  <2>5. 1 <= LocalityLen(R, T, t)
    BY <2>4
  <2>6. StageAt(R, T, t, 1) = 0 /\ Bars(R, T, r, t, 1) = TableBars(T, r, t, 1)
    BY <2>5 DEF StageAt, Bars
  <2>7. TableBars(T, r, t, 1) = 0
    <3>1. CASE t # 0
      <4>1. 1 <= 2 * r + t + 2
        BY <2>2
      <4>2. QED
        BY <3>1, <4>1 DEF TableBars
    <3>2. CASE t = 0
      <4>1. 1 <= 4 * r + 3
        BY <2>2
      <4>2. TableBars(T, r, t, 1) = (1 - 1) \div 2
        BY <3>2, <4>1 DEF TableBars
      <4>3. QED
        BY <4>2
    <3>3. QED
      BY <3>1, <3>2
  <2>8. QED
    BY <2>3, <2>6, <2>7
<1>4. ASSUME NEW r \in Rank PROVE mpis[r] = 0
  <2> DEFINE R == S.ranks
             T == S.threads
  <2>1. <<r, 0>> \in Process /\ mpis[r] = Mpis(R, T, r, place[<<r, 0>>])
    BY <1>1, RankMpis, WorkerIsProcess
  <2>2. R \in Nat /\ T \in Nat \ {0} /\ r \in 0..(R - 1) /\ 0 \in 0..(T - 1)
    BY <1>1, SetupParts DEF Rank, Placed, Typed
  <2>3. mpis[r] = Mpis(R, T, r, 1)
    BY <1>2, <2>1
  <2> HIDE DEF R, T
  <2>4. LocalityLen(R, T, 0) \in Nat \ {0}
    BY <2>2, TableEnds
  <2>5. 1 <= LocalityLen(R, T, 0) /\ 1 <= 4 * r + 3
    BY <2>2, <2>4
  <2>6. Mpis(R, T, r, 1) = 1 \div 2
    BY <2>5 DEF Mpis, TableMpis
  <2>7. QED
    BY <2>3, <2>6
<1>5. /\ \A p \in Process : inside[p] = FALSE
      /\ \A p \in Worker : entered[p] = 0 /\ begun[p] = 0 /\ ended[p] = 0 /\ batch[p] = 1
      /\ \A r \in Rank : mpi[r] = 0 /\ jobs[r] = 1
  BY DEF Init, Process
<1>6. BegunAt(0) = 0 /\ EndedAt(0) = 0 /\ BatchAt(0) = 1 /\ JobsAt(1) = 1 /\ MainMpis(1) = 0
  BY DEF BegunAt, EndedAt, BatchAt, JobsAt, MainMpis
<1>7. \A p \in Process : \A name : Inside(p, name) = 0
  BY <1>5 DEF Inside
<1>8. InsideInv
  BY <1>5 DEF InsideInv
<1>9. EnteredInv
  BY <1>3, <1>5, <1>7, WorkerIsProcess DEF EnteredInv
<1>10. MpiInv
  <2> SUFFICES ASSUME NEW r \in Rank
               PROVE  mpi[r] = mpis[r] + MainMpis(place[MainOf(r)])
                               + Inside(<<r, 0>>, "mpi") + Inside(MainOf(r), "mpi")
    BY DEF MpiInv
  <2>1. <<r, 0>> \in Process /\ MainOf(r) \in Process
    BY <1>1, RankMpis, AtMain, WorkerIsProcess
  <2>2. /\ Inside(<<r, 0>>, "mpi") = 0 /\ Inside(MainOf(r), "mpi") = 0
        /\ MainMpis(place[MainOf(r)]) = 0 /\ mpis[r] = 0 /\ mpi[r] = 0
    BY <1>2, <1>4, <1>5, <1>6, <1>7, <2>1
  <2>3. QED
    BY <2>2
<1>11. StagesInv
  BY <1>3, <1>5, <1>6 DEF StagesInv
<1>12. JobsInv
  BY <1>1, <1>2, <1>5, <1>6, AtMain DEF JobsInv
<1>13. QED
  BY <1>2, <1>3, <1>4, <1>8, <1>9, <1>10, <1>11, <1>12 DEF CountInv

\* To add nothing at one place leaves a function alone.
LEMMA AddNothing ==
  ASSUME NEW A, NEW f \in [A -> Nat], NEW a \in A, NEW n, n = 0
  PROVE  f = [f EXCEPT ![a] = f[a] + n]
OBVIOUS

LEMMA NothingElse ==
  ASSUME NEW op
  PROVE  /\ op \notin Sends => OneOf(op, Sends) = 0
         /\ \A name : (op # name => One(op, name) = 0) /\ (op = name => One(op, name) = 1)
         /\ op \in Sends => OneOf(op, Sends) = 1
BY DEF OneOf, One, Sends

\* A worker that neither sends nor waits nor is idle
LEMMA CountWorker ==
  ASSUME Placed, CountInv, S' = S, NEW p \in Worker, Moved(p),
         inside' = [inside EXCEPT ![p] = FALSE],
         At(p) \in {"barrier", "mpi"} => inside[p],
         At(p) \in {"barrier", "mpi", "row", "clear"},
         UNCHANGED <<entered, mpi, jobs, begun, ended, batch>>
  PROVE  CountInv'
<1>1. OneOf(At(p), Sends) = 0 /\ One(At(p), "wait") = 0 /\ One(At(p), "idle") = 0
  BY DEF OneOf, One, Sends
<1>2. begun \in [Worker -> Nat] /\ ended \in [Worker -> Nat] /\ batch \in [Worker -> Nat]
  BY DEF Placed, Typed
<1>3. /\ begun = [begun EXCEPT ![p] = begun[p] + OneOf(At(p), Sends)]
      /\ ended = [ended EXCEPT ![p] = ended[p] + One(At(p), "wait")]
      /\ batch = [batch EXCEPT ![p] = batch[p] + One(At(p), "idle")]
  BY <1>1, <1>2, AddNothing
<1>4. QED
  BY <1>3, CountMoved

\* Nobody is inside who is not at a barrier.
LEMMA Outside ==
  ASSUME Placed, CountInv, NEW p \in Process, At(p) \notin {"barrier", "mpi"}
  PROVE  inside = [inside EXCEPT ![p] = FALSE]
<1>1. inside[p] = FALSE /\ inside \in [Process -> BOOLEAN]
  BY DEF CountInv, InsideInv, Placed, Typed
<1>2. QED
  BY <1>1

LEMMA CountLeave ==
  ASSUME Placed, CountInv, NEW p \in Process, Leave(p)
  PROVE  CountInv'
<1>1. S' = S /\ Moved(p)
  BY LeavePlaces
<1>2. /\ At(p) \in {"barrier", "mpi"} /\ inside[p] /\ inside' = [inside EXCEPT ![p] = FALSE]
      /\ UNCHANGED <<entered, mpi, jobs, begun, ended, batch>>
  BY DEF Leave, batches, phases
<1>3. CASE p \in Worker
  BY <1>1, <1>2, <1>3, CountWorker
<1>4. CASE p \notin Worker
  <2>1. p[1] \in Rank /\ p = MainOf(p[1])
    BY <1>4, MainIs
  <2>2. One(At(p), "schedule") = 0 /\ jobs \in [Rank -> Nat]
    BY <1>2, NothingElse DEF Placed, Typed
  <2>3. jobs' = [jobs EXCEPT ![p[1]] = jobs[p[1]] + One(At(p), "schedule")]
    BY <1>2, <2>1, <2>2, AddNothing
  <2>4. QED
    BY <1>1, <1>2, <2>1, <2>3, CountMainMoved
<1>5. QED
  BY <1>3, <1>4

LEMMA CountLocal ==
  ASSUME Placed, CountInv, NEW p \in Process, Local(p)
  PROVE  CountInv'
<1>1. S' = S /\ Moved(p)
  BY LocalPlaces
<1>2. At(p) \in {"clear", "report"} /\ UNCHANGED <<inside, entered, mpi, jobs, begun, ended, batch>>
  BY DEF Local, barriers, batches, phases
<1>3. inside' = [inside EXCEPT ![p] = FALSE]
  BY <1>2, Outside
<1>4. CASE p \in Worker
  <2>1. At(p) # "report"
    <3>1. \A u \in 1..19 : Stages[u] # "report"
      BY DEF Stages
    <3>2. stage[p] \in 0..19 /\ (stage[p] = 0 => At(p) \in {"mpi", "barrier", "row"})
          /\ (stage[p] # 0 => At(p) = Stages[stage[p]])
      BY <1>4, AtStage
    <3>3. QED
      BY <3>1, <3>2
  <2>2. At(p) = "clear"
    BY <1>2, <2>1
  <2>3. QED
    BY <1>1, <1>2, <1>3, <1>4, <2>2, CountWorker
<1>5. CASE p \notin Worker
  <2>1. p[1] \in Rank /\ p = MainOf(p[1])
    BY <1>5, MainIs
  <2>2. One(At(p), "schedule") = 0 /\ jobs \in [Rank -> Nat]
    BY <1>2, NothingElse DEF Placed, Typed
  <2>3. jobs' = [jobs EXCEPT ![p[1]] = jobs[p[1]] + One(At(p), "schedule")]
    BY <1>2, <2>1, <2>2, AddNothing
  <2>4. QED
    BY <1>1, <1>2, <1>3, <2>1, <2>3, CountMainMoved
<1>6. QED
  BY <1>4, <1>5

\* Main goes on, but from a barrier, and schedules nothing.
LEMMA CountMain ==
  ASSUME Placed, CountInv, S' = S, NEW r \in Rank, Moved(MainOf(r)),
         At(MainOf(r)) \notin {"barrier", "mpi", "schedule"},
         UNCHANGED <<inside, entered, mpi, jobs, begun, ended, batch>>
  PROVE  CountInv'
<1>1. inside' = [inside EXCEPT ![MainOf(r)] = FALSE]
  BY Outside, AtMain
<1>2. One(At(MainOf(r)), "schedule") = 0 /\ jobs \in [Rank -> Nat]
  BY NothingElse DEF Placed, Typed
<1>3. jobs' = [jobs EXCEPT ![r] = jobs[r] + One(At(MainOf(r)), "schedule")]
  BY <1>2, AddNothing
<1>4. QED
  BY <1>1, <1>3, CountMainMoved

LEMMA CountSync ==
  ASSUME Placed, CountInv, NEW r \in Rank, Sync(r) \/ GatherEnd(r)
  PROVE  CountInv'
<1>1. S' = S /\ Moved(MainOf(r))
  BY SyncPlaces, GatherEndPlaces
<1>2. /\ At(MainOf(r)) \notin {"barrier", "mpi", "schedule"}
      /\ UNCHANGED <<inside, entered, mpi, jobs, begun, ended, batch>>
  BY DEF Sync, GatherEnd, barriers, batches, phases
<1>3. QED
  BY <1>1, <1>2, CountMain

LEMMA CountGatherGive ==
  ASSUME Placed, CountInv, NEW r \in Rank, GatherGive(r)
  PROVE  CountInv'
<1>1. S' = S /\ Unmoved
  BY GatherGivePlaces
<1>2. UNCHANGED <<inside, entered, mpi, jobs, begun, ended, batch>>
  BY DEF GatherGive, batches, phases
<1>3. QED
  BY <1>1, <1>2, CountUnmoved

LEMMA CountSchedule ==
  ASSUME Placed, CountInv, NEW r \in Rank, Schedule(r)
  PROVE  CountInv'
<1>1. S' = S /\ Moved(MainOf(r))
  BY SchedulePlaces
<1>2. /\ At(MainOf(r)) = "schedule" /\ jobs' = [jobs EXCEPT ![r] = jobs[r] + 1]
      /\ UNCHANGED <<inside, entered, mpi, begun, ended, batch>>
  BY DEF Schedule, barriers, phases
<1>3. inside' = [inside EXCEPT ![MainOf(r)] = FALSE]
  BY <1>2, Outside, AtMain
<1>4. One(At(MainOf(r)), "schedule") = 1
  BY <1>2, NothingElse
<1>5. QED
  BY <1>1, <1>2, <1>3, <1>4, CountMainMoved

LEMMA CountNextJob ==
  ASSUME Placed, CountInv, NEW p \in Worker, NextJob(p)
  PROVE  CountInv'
<1>1. S' = S /\ Moved(p)
  BY NotTheLast, NextJobPlaces
<1>2. /\ At(p) = "idle" /\ batch' = [batch EXCEPT ![p] = batch[p] + 1]
      /\ UNCHANGED <<inside, entered, mpi, jobs, begun, ended>>
  BY DEF NextJob, barriers, phases
<1>3. inside' = [inside EXCEPT ![p] = FALSE]
  BY <1>2, Outside, WorkerIsProcess
<1>4. OneOf(At(p), Sends) = 0 /\ One(At(p), "wait") = 0 /\ One(At(p), "idle") = 1
  BY <1>2 DEF OneOf, One, Sends
<1>5. begun \in [Worker -> Nat] /\ ended \in [Worker -> Nat]
  BY DEF Placed, Typed
<1>6. /\ begun = [begun EXCEPT ![p] = begun[p] + OneOf(At(p), Sends)]
      /\ ended = [ended EXCEPT ![p] = ended[p] + One(At(p), "wait")]
      /\ batch' = [batch EXCEPT ![p] = batch[p] + One(At(p), "idle")]
  <2>1. begun = [begun EXCEPT ![p] = begun[p] + OneOf(At(p), Sends)]
    BY <1>4, <1>5, AddNothing
  <2>2. ended = [ended EXCEPT ![p] = ended[p] + One(At(p), "wait")]
    BY <1>4, <1>5, AddNothing
  <2>3. QED
    BY <1>2, <1>4, <2>1, <2>2
<1>7. QED
  BY <1>1, <1>2, <1>3, <1>6, CountMoved

LEMMA CountPrintRow ==
  ASSUME Placed, CountInv, NEW p \in Worker, PrintRow(p)
  PROVE  CountInv'
<1>1. S' = S /\ Moved(p)
  BY PrintRowPlaces
<1>2. At(p) = "row" /\ UNCHANGED <<inside, entered, mpi, jobs, begun, ended, batch>>
  BY DEF PrintRow, barriers, batches, phases
<1>3. inside' = [inside EXCEPT ![p] = FALSE]
  BY <1>2, Outside, WorkerIsProcess
<1>4. QED
  BY <1>1, <1>2, <1>3, CountWorker

LEMMA SendsAre == DOMAIN Reps = Sends
BY DEF Reps, Sends

LEMMA CountSendRecv ==
  ASSUME Placed, CountInv, NEW p \in Worker, send_recv(p)
  PROVE  CountInv'
<1>1. S' = S /\ Moved(p)
  BY SendRecvPlaces
<1>2. /\ At(p) \in Sends /\ begun' = [begun EXCEPT ![p] = begun[p] + 1]
      /\ UNCHANGED <<inside, entered, mpi, jobs, ended, batch>>
  BY SendsAre DEF send_recv, barriers, batches
<1>3. At(p) \notin {"barrier", "mpi", "wait", "idle"}
  BY <1>2 DEF Sends
<1>4. inside' = [inside EXCEPT ![p] = FALSE]
  BY <1>2, <1>3, Outside, WorkerIsProcess
<1>5. OneOf(At(p), Sends) = 1 /\ One(At(p), "wait") = 0 /\ One(At(p), "idle") = 0
  BY <1>2, <1>3 DEF OneOf, One
<1>6. batch \in [Worker -> Nat] /\ ended \in [Worker -> Nat]
  BY DEF Placed, Typed
<1>7. /\ begun' = [begun EXCEPT ![p] = begun[p] + OneOf(At(p), Sends)]
      /\ ended = [ended EXCEPT ![p] = ended[p] + One(At(p), "wait")]
      /\ batch = [batch EXCEPT ![p] = batch[p] + One(At(p), "idle")]
  BY <1>2, <1>5, <1>6, AddNothing
<1>8. QED
  BY <1>1, <1>2, <1>3, <1>4, <1>7, CountMoved

LEMMA CountWaitAll ==
  ASSUME Placed, CountInv, NEW p \in Worker, wait_all(p)
  PROVE  CountInv'
<1>1. S' = S /\ Moved(p)
  BY WaitAllPlaces
<1>2. /\ At(p) = "wait" /\ ended' = [ended EXCEPT ![p] = ended[p] + 1]
      /\ UNCHANGED <<inside, entered, mpi, jobs, begun, batch>>
  BY DEF wait_all, barriers, batches
<1>3. inside' = [inside EXCEPT ![p] = FALSE]
  BY <1>2, Outside, WorkerIsProcess
<1>4. OneOf(At(p), Sends) = 0 /\ One(At(p), "wait") = 1 /\ One(At(p), "idle") = 0
  BY <1>2 DEF OneOf, One, Sends
<1>5. begun \in [Worker -> Nat] /\ batch \in [Worker -> Nat]
  BY DEF Placed, Typed
<1>6. /\ begun = [begun EXCEPT ![p] = begun[p] + OneOf(At(p), Sends)]
      /\ ended' = [ended EXCEPT ![p] = ended[p] + One(At(p), "wait")]
      /\ batch = [batch EXCEPT ![p] = batch[p] + One(At(p), "idle")]
  <2>1. begun = [begun EXCEPT ![p] = begun[p] + OneOf(At(p), Sends)]
    BY <1>4, <1>5, AddNothing
  <2>2. batch = [batch EXCEPT ![p] = batch[p] + One(At(p), "idle")]
    BY <1>4, <1>5, AddNothing
  <2>3. QED
    BY <1>2, <1>4, <2>1, <2>2
<1>7. QED
  BY <1>1, <1>2, <1>3, <1>6, CountMoved

\* The steps that move nobody concern the slots only.
Slots == \E p \in Worker, i \in Slot : Match(p, i) \/ send_callback(p, i) \/ recv_callback(p, i)

LEMMA SlotsLeave ==
  ASSUME Placed, Slots \/ UNCHANGED vars
  PROVE  /\ S' = S /\ Unmoved
         /\ UNCHANGED <<inside, entered, mpi, jobs, begun, ended, batch, rows>>
<1>1. S' = S /\ Unmoved
  BY MatchPlaces, SendCallbackPlaces, RecvCallbackPlaces, StutterPlaces DEF Slots
<1>2. UNCHANGED <<inside, entered, mpi, jobs, begun, ended, batch, rows>>
  BY DEF Slots, Match, send_callback, recv_callback, vars, barriers, batches, phases
<1>3. QED
  BY <1>1, <1>2

LEMMA CountSlots ==
  ASSUME Placed, CountInv, Slots \/ UNCHANGED vars
  PROVE  CountInv'
BY SlotsLeave, CountUnmoved

LEMMA CountNext ==
  ASSUME Placed, CountInv, [Next]_vars
  PROVE  CountInv'
<1>1. ASSUME NEW p \in Worker \cup Main, Enter(p) \/ Leave(p) \/ Local(p)
      PROVE  CountInv'
  BY <1>1, CountEnter, CountLeave, CountLocal DEF Process
<1>2. ASSUME NEW r \in Rank, Sync(r) \/ Schedule(r) \/ GatherGive(r) \/ GatherEnd(r)
      PROVE  CountInv'
  BY <1>2, CountSync, CountSchedule, CountGatherGive
<1>3. ASSUME NEW p \in Worker, NextJob(p) \/ PrintRow(p) \/ send_recv(p) \/ wait_all(p)
      PROVE  CountInv'
  BY <1>3, CountNextJob, CountPrintRow, CountSendRecv, CountWaitAll
<1>4. CASE Slots \/ UNCHANGED vars
  BY <1>4, CountSlots
<1>5. QED
  BY <1>1, <1>2, <1>3, <1>4 DEF Next, Done, Slots

-----------------------------------------------------------------------------
(***************************************************************************)
(* Nobody has passed more barriers than anyone he met there has entered, and   *)
(* what comes after the n-th sync of main finds n batches of jobs done.       *)
(***************************************************************************)
Passed(r) == mpis[r] + MainMpis(place[MainOf(r)])

BarSync == \A p, q \in Worker : p[1] = q[1] => bars[q] <= entered[p]

MpiSync == \A r, k \in Rank : Passed(r) <= mpi[k]

BatchOK(m, u) == /\ BatchAt(u) <= JobsAt(m)
                 /\ m >= 2 => u >= 11
                 /\ m >= 4 => u >= 17
                 /\ m >= 9 => u = 19

BatchInv == \A p \in Worker : BatchOK(place[MainOf(p[1])], stage[p])

SyncInv == BarSync /\ MpiSync /\ BatchInv

Counted == Placed /\ CountInv

LEMMA PassedIs ==
  ASSUME Placed, NEW r \in Rank
  PROVE  Passed(r) \in Nat
<1>1. mpis[r] \in Nat
  BY RankMpis
<1>2. MainMpis(place[MainOf(r)]) \in Nat
  BY SmallNumbers
<1>3. QED
  BY <1>1, <1>2 DEF Passed

LEMMA PassedMoves ==
  ASSUME Placed, S' = S, NEW p \in Process, Moved(p), NEW r \in Rank
  PROVE  Passed(r)' = IF r = p[1] THEN Passed(r) + One(At(p), "mpi") ELSE Passed(r)
<1>0. mpis[r] \in Nat /\ MainMpis(place[MainOf(r)]) \in Nat /\ One(At(p), "mpi") \in {0, 1}
  BY RankMpis, SmallNumbers
<1>1. OthersStay(p)
  BY MovedOthers
<1>2. CASE p \in Worker
  <2>1. p = <<p[1], p[2]>> /\ (At(p) = "mpi" => p[2] = 0) /\ (p[2] = 0 => mpis'[p[1]] = mpis[p[1]] + One(At(p), "mpi"))
    BY <1>2, AtStage, WorkerMoves
  <2>2. MainOf(r) \in Process /\ MainOf(r) # p
    BY <1>2, AtMain
  <2>3. place'[MainOf(r)] = place[MainOf(r)]
    BY <1>1, <2>2 DEF OthersStay
  <2>4. CASE p = <<r, 0>>
    <3>1. p[1] = r /\ p[2] = 0
      BY <2>4
    <3>2. mpis'[r] = mpis[r] + One(At(p), "mpi")
      BY <2>1, <3>1
    <3> DEFINE x == One(At(p), "mpi")
               y == MainMpis(place[MainOf(r)])
               z == mpis[r]
    <3>3. Passed(r)' = (z + x) + y /\ Passed(r) = z + y
      BY <2>3, <3>2 DEF Passed
    <3> HIDE DEF x, y, z
    <3>4. x \in Nat /\ y \in Nat /\ z \in Nat
      BY <1>0 DEF x, y, z
    <3>5. Passed(r)' = Passed(r) + x
      BY <3>3, <3>4
    <3>6. QED
      BY <3>1, <3>5 DEF x
  <2>5. CASE p # <<r, 0>>
    <3>1. mpis'[r] = mpis[r]
      BY <1>1, <2>5 DEF OthersStay
    <3>2. Passed(r)' = Passed(r)
      BY <2>3, <3>1 DEF Passed
    <3>3. r = p[1] => One(At(p), "mpi") = 0
      BY <2>1, <2>5 DEF One
    <3>4. Passed(r) \in Nat
      BY PassedIs
    <3>5. QED
      BY <3>2, <3>3, <3>4
  <2>6. QED
    BY <2>4, <2>5
<1>3. CASE p \notin Worker
  <2>1. p[1] \in Rank /\ p = MainOf(p[1])
    BY <1>3, MainIs
  <2>2. /\ MainMpis(place'[p]) = MainMpis(place[p]) + One(At(p), "mpi") /\ mpis' = mpis
    BY <2>1, MainMoves
  <2>3. CASE r = p[1]
    <3> DEFINE x == One(At(p), "mpi")
               y == MainMpis(place[p])
               z == mpis[r]
    <3>1. Passed(r)' = z + (y + x) /\ Passed(r) = z + y
      BY <2>1, <2>2, <2>3 DEF Passed
    <3>2. x \in Nat /\ y \in Nat /\ z \in Nat
      BY <1>0, <2>1, <2>3
    <3> HIDE DEF x, y, z
    <3>3. Passed(r)' = Passed(r) + x
      BY <3>1, <3>2
    <3>4. QED
      BY <2>3, <3>3 DEF x
  <2>4. CASE r # p[1]
    <3>1. MainOf(r) \in Process /\ MainOf(r)[1] = r
      BY AtMain
    <3>2. place'[MainOf(r)] = place[MainOf(r)]
      BY <1>1, <2>4, <3>1 DEF OthersStay
    <3>3. QED
      BY <2>2, <2>4, <3>2 DEF Passed
  <2>5. QED
    BY <2>3, <2>4
<1>4. QED
  BY <1>2, <1>3

LEMMA BarsMove ==
  ASSUME Placed, S' = S, NEW p \in Process, Moved(p), NEW q \in Worker
  PROVE  bars'[q] = IF q = p THEN bars[q] + One(At(p), "barrier") ELSE bars[q]
<1>1. q # p => bars'[q] = bars[q]
  BY MovedOthers DEF OthersStay
<1>2. q = p => bars'[q] = bars[q] + One(At(p), "barrier")
  BY WorkerMoves
<1>3. QED
  BY <1>1, <1>2

LEMMA InitSync ==
  ASSUME Init
  PROVE  SyncInv
<1>1. Placed
  BY InitPlaced DEF Placed
<1>2. /\ \A p \in Worker : stage[p] = 0 /\ bars[p] = 0 /\ entered[p] = 0
      /\ \A r \in Rank : mpis[r] = 0 /\ mpi[r] = 0 /\ jobs[r] = 1 /\ place[MainOf(r)] = 1
  BY <1>1, InitCounts, AtMain DEF Init
<1>3. BarSync
  BY <1>2 DEF BarSync
<1>4. \A r \in Rank : Passed(r) = 0
  BY <1>2 DEF Passed, MainMpis
<1>5. MpiSync
  BY <1>2, <1>4 DEF MpiSync
<1>6. BatchInv
  <2> SUFFICES ASSUME NEW p \in Worker PROVE BatchOK(place[MainOf(p[1])], stage[p])
    BY DEF BatchInv
  <2>1. stage[p] = 0 /\ place[MainOf(p[1])] = 1
    BY <1>1, <1>2, AtStage
  <2>2. BatchOK(1, 0)
    BY DEF BatchOK, BatchAt, JobsAt
  <2>3. QED
    BY <2>1, <2>2
<1>7. QED
  BY <1>3, <1>5, <1>6 DEF SyncInv

\* Who goes on, but from a barrier or to the next job, meets nobody.
LEMMA SyncMoved ==
  ASSUME Placed, SyncInv, S' = S, NEW p \in Process, Moved(p),
         At(p) \notin {"barrier", "mpi"}, entered' = entered, mpi' = mpi
  PROVE  BarSync' /\ MpiSync'
<1>1. One(At(p), "barrier") = 0 /\ One(At(p), "mpi") = 0
  BY DEF One
<1>2. Worker' = Worker /\ Rank' = Rank
  BY SetupStays
<1>3. \A q \in Worker : bars'[q] = bars[q]
  <2> TAKE q \in Worker
  <2>1. bars[q] \in Nat
    BY AtStage
  <2>2. QED
    BY <1>1, <2>1, BarsMove
<1>4. \A r \in Rank : Passed(r)' = Passed(r)
  <2> TAKE r \in Rank
  <2>1. Passed(r) \in Nat
    BY PassedIs
  <2>2. QED
    BY <1>1, <2>1, PassedMoves
<1>5. BarSync'
  BY <1>2, <1>3 DEF SyncInv, BarSync
<1>6. MpiSync'
  BY <1>2, <1>4 DEF SyncInv, MpiSync
<1>7. QED
  BY <1>5, <1>6

LEMMA SyncLeave ==
  ASSUME Counted, SyncInv, NEW p \in Process, Leave(p)
  PROVE  BarSync' /\ MpiSync'
<1>1. S' = S /\ Moved(p) /\ Placed
  BY LeavePlaces DEF Counted
<1>2. /\ At(p) \in {"barrier", "mpi"} /\ inside[p] /\ entered' = entered /\ mpi' = mpi
      /\ IF At(p) = "barrier"
         THEN \A t \in Tid : entered[<<p[1], t>>] >= entered[p]
         ELSE \A r \in Rank : mpi[r] >= mpi[p[1]]
  BY DEF Leave
<1>3. Worker' = Worker /\ Rank' = Rank
  BY <1>1, SetupStays
<1>4. BarSync'
  <2> SUFFICES ASSUME NEW x \in Worker, NEW q \in Worker, x[1] = q[1]
               PROVE  bars'[q] <= entered[x]
    BY <1>2, <1>3 DEF BarSync
  <2>1. bars[q] <= entered[x] /\ bars[q] \in Nat /\ entered[x] \in Nat
    BY <1>1, AtStage DEF SyncInv, BarSync, Placed, Typed
  <2>2. CASE q # p \/ At(p) # "barrier"
    <3>1. bars'[q] = bars[q]
      BY <1>1, <2>1, <2>2, BarsMove DEF One
    <3>2. QED
      BY <2>1, <3>1
  <2>3. CASE q = p /\ At(p) = "barrier"
    <3>1. bars'[q] = bars[q] + 1
      BY <1>1, <2>3, BarsMove DEF One
    <3>2. entered[q] = bars[q] + 1
      BY <1>2, <2>3 DEF Counted, CountInv, EnteredInv, Inside
    <3>3. x = <<p[1], x[2]>> /\ x[2] \in Tid
      BY <1>1, <2>3, AtStage
    <3>4. entered[x] >= entered[q]
      BY <1>2, <2>3, <3>3
    <3>5. QED
      BY <2>1, <3>1, <3>2, <3>4
  <2>4. QED
    BY <2>2, <2>3
<1>5. MpiSync'
  <2> SUFFICES ASSUME NEW r \in Rank, NEW k \in Rank PROVE Passed(r)' <= mpi[k]
    BY <1>2, <1>3 DEF MpiSync
  <2>1. Passed(r) <= mpi[k] /\ Passed(r) \in Nat /\ mpi[k] \in Nat
    BY <1>1, PassedIs DEF SyncInv, MpiSync, Placed, Typed
  <2>2. CASE r # p[1] \/ At(p) # "mpi"
    <3>1. Passed(r)' = Passed(r)
      BY <1>1, <2>1, <2>2, PassedMoves DEF One
    <3>2. QED
      BY <2>1, <3>1
  <2>3. CASE r = p[1] /\ At(p) = "mpi"
    <3>1. Passed(r)' = Passed(r) + 1
      BY <1>1, <2>3, PassedMoves DEF One
    <3>2. mpi[r] >= Passed(r) + 1
      <4>1. mpi[r] = Passed(r) + Inside(<<r, 0>>, "mpi") + Inside(MainOf(r), "mpi")
        BY DEF Counted, CountInv, MpiInv, Passed
      <4>2. Inside(p, "mpi") = 1
        BY <1>2, <2>3 DEF Inside
      <4>3. p = <<r, 0>> \/ p = MainOf(r)
        <5>1. CASE p \in Worker
          BY <1>1, <2>3, <5>1, AtStage
        <5>2. CASE p \notin Worker
          BY <1>1, <2>3, <5>2, MainIs
        <5>3. QED
          BY <5>1, <5>2
      <4>4. Inside(<<r, 0>>, "mpi") \in {0, 1} /\ Inside(MainOf(r), "mpi") \in {0, 1}
        BY InsideIs
      <4> DEFINE y == Inside(<<r, 0>>, "mpi")
                 z == Inside(MainOf(r), "mpi")
      <4>5. y = 1 \/ z = 1
        BY <4>2, <4>3
      <4>6. y \in {0, 1} /\ z \in {0, 1} /\ mpi[r] = Passed(r) + y + z
        BY <4>1, <4>4
      <4> HIDE DEF y, z
      <4>7. QED
        BY <2>1, <4>5, <4>6
    <3>3. mpi[k] >= mpi[r] /\ mpi[r] \in Nat
      BY <1>1, <1>2, <2>3 DEF Placed, Typed
    <3>4. QED
      BY <2>1, <3>1, <3>2, <3>3
  <2>4. QED
    BY <2>2, <2>3
<1>6. QED
  BY <1>4, <1>5

LEMMA SyncEnter ==
  ASSUME Placed, SyncInv, NEW p \in Process, Enter(p)
  PROVE  SyncInv'
<1>1. S' = S /\ Unmoved
  BY EnterPlaces
<1>2. stage' = stage /\ bars' = bars /\ mpis' = mpis /\ place' = place
  BY <1>1, UnmovedAll
<1>3. Worker' = Worker /\ Rank' = Rank
  BY <1>1, SetupStays
<1>4. jobs' = jobs /\ entered \in [Worker -> Nat] /\ mpi \in [Rank -> Nat]
  BY DEF Enter, batches, Placed, Typed
<1>5. \/ entered' = [entered EXCEPT ![p] = entered[p] + 1] /\ mpi' = mpi
      \/ mpi' = [mpi EXCEPT ![p[1]] = mpi[p[1]] + 1] /\ entered' = entered
  BY DEF Enter
<1>6. \A q \in Worker : entered'[q] \in {entered[q], entered[q] + 1}
  BY <1>4, <1>5
<1>7. \A k \in Rank : mpi'[k] \in {mpi[k], mpi[k] + 1}
  BY <1>4, <1>5
<1>8. BarSync'
  <2> SUFFICES ASSUME NEW x \in Worker, NEW q \in Worker, x[1] = q[1]
               PROVE  bars[q] <= entered'[x]
    BY <1>2, <1>3 DEF BarSync
  <2>1. bars[q] <= entered[x] /\ bars[q] \in Nat /\ entered[x] \in Nat
    BY <1>4, AtStage DEF SyncInv, BarSync
  <2>2. QED
    BY <1>6, <2>1
<1>9. MpiSync'
  <2> SUFFICES ASSUME NEW r \in Rank, NEW k \in Rank PROVE Passed(r) <= mpi'[k]
    BY <1>2, <1>3 DEF MpiSync, Passed
  <2>1. Passed(r) <= mpi[k] /\ Passed(r) \in Nat /\ mpi[k] \in Nat
    BY <1>4, PassedIs DEF SyncInv, MpiSync
  <2>2. QED
    BY <1>7, <2>1
<1>10. BatchInv'
  BY <1>2, <1>3 DEF SyncInv, BatchInv
<1>11. QED
  BY <1>8, <1>9, <1>10 DEF SyncInv

\* A worker goes on, to another job only if there is one.
LEMMA BatchMoved ==
  ASSUME Placed, CountInv, SyncInv, S' = S, NEW p \in Worker, Moved(p),
         At(p) = "idle" => BatchAt(stage[p]) < jobs[p[1]]
  PROVE  BatchInv'
<1>1. Worker' = Worker
  BY SetupStays
<1>2. OthersStay(p)
  BY MovedOthers, WorkerIsProcess
<1> SUFFICES ASSUME NEW q \in Worker PROVE BatchOK(place'[MainOf(q[1])], stage'[q])
  BY <1>1 DEF BatchInv
<1>3. BatchOK(place[MainOf(q[1])], stage[q]) /\ q[1] \in Rank
  BY AtStage DEF SyncInv, BatchInv
<1>4. place'[MainOf(q[1])] = place[MainOf(q[1])]
  <2>1. MainOf(q[1]) \in Process /\ MainOf(q[1]) # p
    BY <1>3, AtMain
  <2>2. QED
    BY <1>2, <2>1 DEF OthersStay
<1>5. CASE q # p
  BY <1>2, <1>3, <1>4, <1>5 DEF OthersStay
<1>6. CASE q = p
  <2>1. /\ stage[p] \in 0..18 /\ stage'[p] \in 0..19
        /\ \/ stage[p] = 0 /\ stage'[p] \in {0, 1}
           \/ /\ stage[p] # 0
              /\ stage'[p] = IF p[2] # 0 /\ stage[p] \in {1, 6, 12} THEN stage[p] + 2 ELSE stage[p] + 1
        /\ BatchAt(stage'[p]) = BatchAt(stage[p]) + One(At(p), "idle")
    BY WorkerMoves
  <2>2. jobs[p[1]] = JobsAt(place[MainOf(p[1])])
    BY <1>3, <1>6 DEF CountInv, JobsInv
  <2> DEFINE u == stage[p]
             v == stage'[p]
             m == place[MainOf(p[1])]
  <2>3. BatchAt(v) <= JobsAt(m)
    <3>1. BatchAt(u) \in Nat /\ BatchAt(u) <= JobsAt(m) /\ (At(p) = "idle" => BatchAt(u) < JobsAt(m))
      BY <1>3, <1>6, <2>2 DEF BatchAt, BatchOK
    <3>2. BatchAt(v) = BatchAt(u) + One(At(p), "idle")
      BY <2>1
    <3> HIDE DEF u, v, m
    <3>3. One(At(p), "idle") \in {0, 1} /\ (One(At(p), "idle") = 1 => At(p) = "idle") /\ JobsAt(m) \in Nat
      BY DEF One, JobsAt
    <3>4. QED
      BY <3>1, <3>2, <3>3
  <2>4. u \in 0..18 /\ v \in 0..19 /\ v >= u
    BY <2>1
  <2>5. (m >= 2 => u >= 11) /\ (m >= 4 => u >= 17) /\ (m >= 9 => u = 19)
    BY <1>3, <1>6 DEF BatchOK
  <2> HIDE DEF u, v, m
  <2>6. BatchOK(m, v)
    BY <2>3, <2>4, <2>5 DEF BatchOK
  <2>7. QED
    BY <1>4, <1>6, <2>6 DEF v, m
<1>7. QED
  BY <1>5, <1>6

\* Main goes on, from a sync only when its workers have done what they had to.
LEMMA BatchMainMoved ==
  ASSUME Placed, SyncInv, S' = S, NEW r \in Rank, Moved(MainOf(r)),
         At(MainOf(r)) = "sync" =>
           \A q \in Worker : q[1] = r => /\ stage[q] \in {11, 17, 19}
                                        /\ BatchAt(stage[q]) = JobsAt(place[MainOf(r)])
  PROVE  BatchInv'
<1> DEFINE p == MainOf(r)
           m == place[p]
<1>1. p \in Process /\ At(p) = MainScript[m] /\ p[1] = r
  BY AtMain
<1>2. stage' = stage /\ place'[p] = m + 1 /\ m \in 1..9
  BY MainMoves
<1>3. OthersStay(p) /\ Worker' = Worker
  BY <1>1, MovedOthers, SetupStays
<1> SUFFICES ASSUME NEW q \in Worker PROVE BatchOK(place'[MainOf(q[1])], stage[q])
  BY <1>2, <1>3 DEF BatchInv
<1>4. BatchOK(place[MainOf(q[1])], stage[q]) /\ q[1] \in Rank /\ stage[q] \in 0..19
  BY AtStage DEF SyncInv, BatchInv
<1>5. CASE q[1] # r
  <2>1. MainOf(q[1]) \in Process /\ MainOf(q[1])[1] = q[1]
    BY <1>4, AtMain
  <2>2. MainOf(q[1]) # p
    BY <1>1, <1>5, <2>1
  <2>3. place'[MainOf(q[1])] = place[MainOf(q[1])]
    BY <1>3, <2>1, <2>2 DEF OthersStay
  <2>4. QED
    BY <1>4, <2>3
<1>6. CASE q[1] = r
  <2> DEFINE u == stage[q]
  <2>1. BatchOK(m, u) /\ u \in 0..19
    BY <1>4, <1>6
  <2>2. MainScript[m] = "sync" => u \in {11, 17, 19} /\ BatchAt(u) = JobsAt(m)
    BY <1>1, <1>6
  <2> HIDE DEF u, m, p
  <2>3. MainScript[m] = "sync" <=> m \in {1, 3, 8}
    BY <1>2 DEF MainScript
  <2>4. JobsAt(m) <= JobsAt(m + 1) /\ JobsAt(m) \in Nat /\ JobsAt(m + 1) \in Nat /\ BatchAt(u) \in Nat
    BY <1>2 DEF JobsAt, BatchAt
  <2>5. BatchAt(u) <= JobsAt(m + 1)
    BY <2>1, <2>4 DEF BatchOK
  <2>6. m + 1 >= 2 => u >= 11
    BY <1>2, <2>1, <2>2, <2>3 DEF BatchOK
  <2>7. m + 1 >= 4 => u >= 17
    <3>1. CASE m = 3
      <4>1. JobsAt(m) = 2
        BY <3>1 DEF JobsAt
      <4>2. u # 11
        BY <2>2, <2>3, <3>1, <4>1 DEF BatchAt
      <4>3. QED
        BY <2>2, <2>3, <3>1, <4>2
    <3>2. CASE m # 3
      BY <1>2, <2>1, <3>2 DEF BatchOK
    <3>3. QED
      BY <3>1, <3>2
  <2>8. m + 1 >= 9 => u = 19
    <3>1. CASE m = 8
      <4>1. JobsAt(m) = 3
        BY <3>1 DEF JobsAt
      <4>2. u \notin {11, 17}
        BY <2>2, <2>3, <3>1, <4>1 DEF BatchAt
      <4>3. QED
        BY <2>2, <2>3, <3>1, <4>2
    <3>2. CASE m # 8
      BY <1>2, <2>1, <3>2 DEF BatchOK
    <3>3. QED
      BY <3>1, <3>2
  <2>9. BatchOK(m + 1, u)
    BY <2>5, <2>6, <2>7, <2>8 DEF BatchOK
  <2>10. QED
    BY <1>2, <1>6, <2>9 DEF u, m, p
<1>7. QED
  BY <1>5, <1>6

\* Who is idle is at one of three stages.
LEMMA IdleStages ==
  ASSUME Placed, NEW p \in Worker, At(p) = "idle"
  PROVE  stage[p] \in {11, 17, 19}
<1>1. \A u \in 1..19 : Stages[u] = "idle" => u \in {11, 17, 19}
  BY DEF Stages
<1>2. stage[p] \in 0..19 /\ (stage[p] = 0 => At(p) \in {"mpi", "barrier", "row"})
      /\ (stage[p] # 0 => At(p) = Stages[stage[p]])
  BY AtStage
<1>3. stage[p] # 0 /\ stage[p] \in 1..19
  BY <1>2
<1>4. QED
  BY <1>1, <1>2, <1>3

LEMMA BatchSync ==
  ASSUME Counted, SyncInv, NEW r \in Rank, Sync(r)
  PROVE  BatchInv'
<1>1. S' = S /\ Moved(MainOf(r)) /\ Placed
  BY SyncPlaces DEF Counted
<1>2. \A t \in Tid : At(<<r, t>>) = "idle" /\ batch[<<r, t>>] = jobs[r]
  BY DEF Sync
<1>3. ASSUME NEW q \in Worker, q[1] = r
      PROVE  stage[q] \in {11, 17, 19} /\ BatchAt(stage[q]) = JobsAt(place[MainOf(r)])
  <2>1. q[2] \in Tid /\ q = <<q[1], q[2]>>
    BY <1>1, AtStage
  <2>2. At(q) = "idle" /\ batch[q] = jobs[r]
    BY <1>2, <1>3, <2>1
  <2>3. batch[q] = BatchAt(stage[q]) /\ jobs[r] = JobsAt(place[MainOf(r)])
    BY DEF Counted, CountInv, StagesInv, JobsInv
  <2>4. QED
    BY <1>1, <2>2, <2>3, IdleStages
<1>4. QED
  BY <1>1, <1>3, BatchMainMoved

\* Any other step of main
LEMMA BatchOther ==
  ASSUME Placed, SyncInv, S' = S, NEW p \in Process, p \notin Worker, Moved(p), At(p) # "sync"
  PROVE  BatchInv'
<1>1. p[1] \in Rank /\ p = MainOf(p[1])
  BY MainIs
<1>2. QED
  BY <1>1, BatchMainMoved

LEMMA SyncUnmoved ==
  ASSUME SyncInv, S' = S, Unmoved, UNCHANGED <<entered, mpi>>
  PROVE  SyncInv'
<1>1. stage' = stage /\ bars' = bars /\ mpis' = mpis /\ place' = place
  BY UnmovedAll
<1>2. Worker' = Worker /\ Rank' = Rank
  BY SetupStays
<1>3. BarSync' /\ BatchInv'
  BY <1>1, <1>2 DEF SyncInv, BarSync, BatchInv
<1>4. MpiSync'
  BY <1>1, <1>2 DEF SyncInv, MpiSync, Passed
<1>5. QED
  BY <1>3, <1>4 DEF SyncInv

LEMMA SyncNext ==
  ASSUME Counted, SyncInv, [Next]_vars
  PROVE  SyncInv'
<1>0. Placed /\ CountInv
  BY DEF Counted
<1>1. ASSUME NEW p \in Process, Enter(p) PROVE SyncInv'
  BY <1>0, <1>1, SyncEnter
<1>2. ASSUME NEW p \in Process, Leave(p) PROVE SyncInv'
  <2>1. S' = S /\ Moved(p) /\ jobs' = jobs /\ At(p) \notin {"idle", "sync"}
    BY <1>0, <1>2, LeavePlaces DEF Leave, batches
  <2>2. BatchInv'
    BY <1>0, <2>1, BatchMoved, BatchOther
  <2>3. QED
    BY <1>2, <2>2, SyncLeave DEF SyncInv
<1>3. ASSUME NEW p \in Process, Local(p) PROVE SyncInv'
  <2>1. /\ S' = S /\ Moved(p) /\ jobs' = jobs /\ entered' = entered /\ mpi' = mpi
        /\ At(p) \notin {"barrier", "mpi", "idle", "sync"}
    BY <1>0, <1>3, LocalPlaces DEF Local, batches, barriers
  <2>2. BatchInv'
    BY <1>0, <2>1, BatchMoved, BatchOther
  <2>3. QED
    BY <1>0, <2>1, <2>2, SyncMoved DEF SyncInv
<1>4. ASSUME NEW r \in Rank, Sync(r) PROVE SyncInv'
  <2>1. /\ S' = S /\ Moved(MainOf(r)) /\ entered' = entered /\ mpi' = mpi
        /\ At(MainOf(r)) \notin {"barrier", "mpi"} /\ MainOf(r) \in Process
    BY <1>0, <1>4, SyncPlaces, MainIsProcess DEF Sync, barriers
  <2>2. QED
    BY <1>0, <1>4, <2>1, BatchSync, SyncMoved DEF SyncInv
<1>8. ASSUME NEW r \in Rank, Schedule(r) \/ GatherEnd(r) PROVE SyncInv'
  <2>1. /\ S' = S /\ Moved(MainOf(r)) /\ entered' = entered /\ mpi' = mpi
        /\ At(MainOf(r)) \notin {"barrier", "mpi", "sync"} /\ MainOf(r) \in Process
    BY <1>0, <1>8, SchedulePlaces, GatherEndPlaces, MainIsProcess DEF Schedule, GatherEnd, barriers
  <2>2. MainOf(r) \notin Worker
    BY <1>0, AtMain
  <2>3. BatchInv'
    BY <1>0, <2>1, <2>2, BatchOther
  <2>4. QED
    BY <1>0, <2>1, <2>3, SyncMoved DEF SyncInv
<1>9. ASSUME NEW r \in Rank, GatherGive(r) PROVE SyncInv'
  <2>1. S' = S /\ Unmoved /\ UNCHANGED <<entered, mpi>>
    BY <1>0, <1>9, GatherGivePlaces DEF GatherGive
  <2>2. QED
    BY <2>1, SyncUnmoved
<1>5. ASSUME NEW p \in Worker, NextJob(p) PROVE SyncInv'
  <2>1. /\ S' = S /\ Moved(p) /\ jobs' = jobs /\ entered' = entered /\ mpi' = mpi
        /\ At(p) \notin {"barrier", "mpi"} /\ batch[p] < jobs[p[1]]
    BY <1>0, <1>5, NotTheLast, NextJobPlaces DEF NextJob, barriers
  <2>2. batch[p] = BatchAt(stage[p])
    BY DEF Counted, CountInv, StagesInv
  <2>3. BatchInv'
    BY <1>0, <2>1, <2>2, BatchMoved
  <2>4. QED
    BY <1>0, <2>1, <2>3, SyncMoved, WorkerIsProcess DEF SyncInv
<1>6. ASSUME NEW p \in Worker, PrintRow(p) \/ send_recv(p) \/ wait_all(p) PROVE SyncInv'
  <2>1. S' = S /\ Moved(p)
    BY <1>0, <1>6, PrintRowPlaces, SendRecvPlaces, WaitAllPlaces
  <2>2. At(p) \notin {"barrier", "mpi", "idle"}
    BY <1>6, SendsAre DEF PrintRow, send_recv, wait_all, Sends
  <2>3. jobs' = jobs /\ entered' = entered /\ mpi' = mpi
    BY <1>6 DEF PrintRow, send_recv, wait_all, batches, barriers
  <2>4. BatchInv'
    BY <1>0, <2>1, <2>2, <2>3, BatchMoved
  <2>5. QED
    BY <1>0, <2>1, <2>2, <2>3, <2>4, SyncMoved, WorkerIsProcess DEF SyncInv
<1>7. CASE Slots \/ UNCHANGED vars
  <2>1. S' = S /\ Unmoved /\ UNCHANGED <<entered, mpi>>
    BY <1>0, <1>7, SlotsLeave
  <2>2. QED
    BY <2>1, SyncUnmoved
<1>10. QED
  BY <1>1, <1>2, <1>3, <1>4, <1>5, <1>6, <1>7, <1>8, <1>9 DEF Next, Done, Slots, Process

-----------------------------------------------------------------------------
(***************************************************************************)
(* From the counters to the stages: who has entered that many barriers is       *)
(* that far, and so is the whole of every rank that the MPI barrier let in.     *)
(***************************************************************************)
Met == Counted /\ SyncInv

LEMMA TableBound ==
  ASSUME NEW R \in Nat, NEW T \in Nat \ {0}, NEW r \in 0..(R - 1), NEW t \in 0..(T - 1),
         NEW n \in Nat \ {0}, n <= LocalityLen(R, T, t)
  PROVE  TableBars(T, r, t, n) <= 2 * R + T /\ (t = 0 => TableMpis(T, r, n) <= 2 * R)
<1>0. r \in Nat /\ r + 1 <= R
  OBVIOUS
<1>1. CASE t = 0
  <2>1. n <= 4 * R + T + 1
    BY <1>1 DEF LocalityLen, RoundLen
  <2>2. TableBars(T, r, t, n) <= 2 * R + T
    <3>1. CASE n <= 4 * r + 3
      <4>1. TableBars(T, r, t, n) = (n - 1) \div 2
        BY <1>1, <3>1 DEF TableBars
      <4>2. (n - 1) \div 2 <= 2 * R
        BY <1>0, <3>1
      <4>3. QED
        BY <4>1, <4>2
    <3>2. CASE ~(n <= 4 * r + 3) /\ n <= 4 * r + 4 + T
      <4>1. TableBars(T, r, t, n) = n - 2 * r - 3
        BY <1>1, <3>2 DEF TableBars
      <4>2. QED
        BY <1>0, <3>2, <4>1
    <3>3. CASE ~(n <= 4 * r + 3) /\ ~(n <= 4 * r + 4 + T)
      <4>1. TableBars(T, r, t, n) = (n - T - 2) \div 2 + T
        BY <1>1, <3>3 DEF TableBars
      <4>2. (n - T - 2) \div 2 <= 2 * R /\ (n - T - 2) \div 2 \in Int
        BY <1>0, <2>1, <3>3
      <4>3. QED
        BY <4>1, <4>2
    <3>4. QED
      BY <3>1, <3>2, <3>3
  <2>3. TableMpis(T, r, n) <= 2 * R
    <3>1. CASE n <= 4 * r + 3
      <4>1. TableMpis(T, r, n) = n \div 2
        BY <3>1 DEF TableMpis
      <4>2. n \div 2 <= 2 * R
        BY <1>0, <3>1
      <4>3. QED
        BY <4>1, <4>2
    <3>2. CASE ~(n <= 4 * r + 3) /\ n <= 4 * r + 4 + T
      <4>1. TableMpis(T, r, n) = 2 * r + 1
        BY <3>2 DEF TableMpis
      <4>2. QED
        BY <1>0, <4>1
    <3>3. CASE ~(n <= 4 * r + 3) /\ ~(n <= 4 * r + 4 + T)
      <4>1. TableMpis(T, r, n) = (n - T - 1) \div 2
        BY <3>3 DEF TableMpis
      <4>2. (n - T - 1) \div 2 <= 2 * R
        BY <1>0, <2>1, <3>3
      <4>3. QED
        BY <4>1, <4>2
    <3>4. QED
      BY <3>1, <3>2, <3>3
  <2>4. QED
    BY <2>2, <2>3
<1>2. CASE t # 0
  <2>1. n <= 2 * R + T + 1
    BY <1>2 DEF LocalityLen, RoundLen
  <2>2. TableBars(T, r, t, n) = n - 1 \/ TableBars(T, r, t, n) = n - 2
    BY <1>2 DEF TableBars
  <2>3. QED
    BY <1>2, <2>1, <2>2
<1>3. QED
  BY <1>1, <1>2

\* Who is at what barrier, after the table
LEMMA StagesBarriers ==
  /\ \A u \in 1..19 : Stages[u] = "barrier" <=> u \in {1, 3, 6, 8, 12, 14}
  /\ \A u \in 1..19 : Stages[u] = "mpi" <=> u \in {2, 7, 13}
  BY DEF Stages

LEMMA MetParts ==
  ASSUME Met
  PROVE  /\ Placed /\ S \in Setups /\ S.ranks \in Nat /\ S.threads \in Nat \ {0} /\ S.ranks % 2 = 0
         /\ S.window \in Nat \ {0} /\ 2 * S.ranks + S.threads \in Nat
<1>1. Placed /\ S \in Setups
  BY DEF Met, Counted, Placed, Typed
<1>2. S.ranks \in Nat /\ S.threads \in Nat \ {0} /\ S.window \in Nat \ {0} /\ S.ranks % 2 = 0
  BY <1>1, SetupParts
<1>3. QED
  BY <1>1, <1>2

LEMMA EnteredStage ==
  ASSUME Met, NEW q \in Worker
  PROVE  /\ entered[q] >= 2 * S.ranks + S.threads + 3 => stage[q] >= 6
         /\ entered[q] >= 2 * S.ranks + S.threads + 4 => stage[q] >= 8
         /\ entered[q] >= 2 * S.ranks + S.threads + 5 => stage[q] >= 12
         /\ entered[q] >= 2 * S.ranks + S.threads + 6 => stage[q] >= 14
<1> DEFINE u == stage[q]
           b == bars[q]
           e == entered[q]
           x == Inside(q, "barrier")
           n == 2 * S.ranks + S.threads
<1>1. Placed /\ S \in Setups /\ S.ranks \in Nat /\ S.threads \in Nat \ {0} /\ n \in Nat
  BY MetParts
<1>2. e = b + x /\ x \in {0, 1} /\ b \in Nat /\ u \in 0..19
  BY <1>1, AtStage, InsideIs DEF Met, Counted, CountInv, EnteredInv
<1>3. u = 0 => b <= n
  <2>1. u = 0 => b = TableBars(S.threads, q[1], q[2], place[q]) /\ place[q] <= LocalityLen(S.ranks, S.threads, q[2])
    BY <1>1, AtStage
  <2>2. place[q] \in Nat \ {0} /\ q[1] \in 0..(S.ranks - 1) /\ q[2] \in 0..(S.threads - 1)
    BY <1>1, AtStage DEF Rank, Tid
  <2>3. QED
    BY <1>1, <2>1, <2>2, TableBound
<1>4. u # 0 => b = n + BarsAt(u) /\ At(q) = Stages[u]
  BY <1>1, AtStage
<1>5. x = 1 => At(q) = "barrier"
  BY DEF Inside
<1> HIDE DEF u, b, e, x, n
<1>6. x = 1 => u = 0 \/ u \in {1, 3, 6, 8, 12, 14}
  BY <1>2, <1>4, <1>5, StagesBarriers
<1>7. e >= n + 3 => u >= 6
  BY <1>1, <1>2, <1>3, <1>4, <1>6 DEF BarsAt
<1>8. e >= n + 4 => u >= 8
  BY <1>1, <1>2, <1>3, <1>4, <1>6 DEF BarsAt
<1>9. e >= n + 5 => u >= 12
  BY <1>1, <1>2, <1>3, <1>4, <1>6 DEF BarsAt
<1>10. e >= n + 6 => u >= 14
  BY <1>1, <1>2, <1>3, <1>4, <1>6 DEF BarsAt
<1>11. QED
  BY <1>7, <1>8, <1>9, <1>10 DEF u, e, n

\* What the MPI barrier tells of a rank: its thread 0 has come to it, or main has.
LEMMA MpiStage ==
  ASSUME Met, NEW r \in Rank, place[MainOf(r)] < 4
  PROVE  /\ mpi[r] >= 2 * S.ranks + 2 => stage[<<r, 0>>] >= 7
         /\ mpi[r] >= 2 * S.ranks + 3 => stage[<<r, 0>>] >= 13
         /\ mpi[r] < 2 * S.ranks + 4
<1> DEFINE z == <<r, 0>>
           u == stage[z]
           m == mpis[r]
           x == Inside(z, "mpi")
           n == 2 * S.ranks
<1>1. Placed /\ S \in Setups /\ S.ranks \in Nat /\ S.threads \in Nat \ {0} /\ n \in Nat
  BY MetParts
<1>2. z \in Worker /\ m \in Nat /\ m = Mpis(S.ranks, S.threads, r, place[z])
  BY <1>1, RankMpis
<1>3. mpi[r] = m + x /\ x \in {0, 1}
  <2>1. mpi[r] = m + MainMpis(place[MainOf(r)]) + x + Inside(MainOf(r), "mpi")
    BY DEF Met, Counted, CountInv, MpiInv
  <2>2. place[MainOf(r)] \in {1, 2, 3}
    BY <1>1, AtMain
  <2>3. MainMpis(place[MainOf(r)]) = 0
    BY <2>2 DEF MainMpis
  <2>4. At(MainOf(r)) \in {"sync", "schedule"}
    BY <1>1, <2>2, AtMain DEF MainScript
  <2>5. Inside(MainOf(r), "mpi") = 0
    BY <2>4 DEF Inside
  <2>6. x \in {0, 1}
    BY InsideIs
  <2> HIDE DEF m, x
  <2>7. QED
    BY <1>2, <2>1, <2>3, <2>5, <2>6
<1>4. u \in 0..19
  BY <1>1, <1>2, AtStage
<1>5. u = 0 => m <= n
  <2>1. u = 0 => place[z] <= LocalityLen(S.ranks, S.threads, 0)
    <3>1. z[2] = 0
      OBVIOUS
    <3>2. QED
      BY <1>1, <1>2, <3>1, AtStage
  <2>2. place[z] \in Nat \ {0} /\ r \in 0..(S.ranks - 1) /\ 0 \in 0..(S.threads - 1)
    BY <1>1, <1>2, AtStage DEF Rank
  <2>3. place[z] <= LocalityLen(S.ranks, S.threads, 0) => TableMpis(S.threads, r, place[z]) <= n
    BY <1>1, <2>2, TableBound
  <2>4. QED
    BY <1>2, <2>1, <2>3 DEF Mpis
<1>6. u # 0 => m = n + MpisAt(u) /\ At(z) = Stages[u]
  <2>1. u = StageAt(S.ranks, S.threads, 0, place[z])
    BY <1>2 DEF stage
  <2>2. u # 0 => place[z] > LocalityLen(S.ranks, S.threads, 0) /\ At(z) = Stages[u]
    <3>1. z[2] = 0
      OBVIOUS
    <3>2. QED
      BY <1>1, <1>2, <3>1, AtStage
  <2>3. place[z] \in Nat \ {0} /\ LocalityLen(S.ranks, S.threads, 0) \in Nat
    BY <1>1, <1>2, AtStage DEF LocalityLen, RoundLen
  <2>4. QED
    BY <1>2, <2>1, <2>2, <2>3 DEF Mpis
<1>7. x = 1 => At(z) = "mpi"
  BY DEF Inside
<1> HIDE DEF z, u, m, x, n
<1>8. x = 1 => u = 0 \/ u \in {2, 7, 13}
  BY <1>4, <1>6, <1>7, StagesBarriers
<1>9. mpi[r] >= n + 2 => u >= 7
  BY <1>1, <1>2, <1>3, <1>4, <1>5, <1>6, <1>8 DEF MpisAt
<1>10. mpi[r] >= n + 3 => u >= 13
  BY <1>1, <1>2, <1>3, <1>4, <1>5, <1>6, <1>8 DEF MpisAt
<1>11. mpi[r] < n + 4
  BY <1>1, <1>2, <1>3, <1>4, <1>5, <1>6, <1>8 DEF MpisAt
<1>12. QED
  BY <1>9, <1>10, <1>11 DEF z, u, n

\* Main goes on when all its workers have done their second batch.
LEMMA MainStage ==
  ASSUME Met, NEW r \in Rank, place[MainOf(r)] >= 4, NEW q \in Worker, q[1] = r
  PROVE  stage[q] >= 17
BY DEF Met, SyncInv, BatchInv, BatchOK

LEMMA FromMpiToStage ==
  ASSUME Met, NEW q \in Worker
  PROVE  /\ mpi[q[1]] >= 2 * S.ranks + 2 => stage[q] >= 6
         /\ mpi[q[1]] >= 2 * S.ranks + 3 => stage[q] >= 12
         /\ mpi[q[1]] >= 2 * S.ranks + 4 => stage[q] >= 17
<1> DEFINE k == q[1]
           z == <<k, 0>>
           u == stage[z]
           n == 2 * S.ranks + S.threads
<1>1. Placed /\ S \in Setups /\ S.ranks \in Nat /\ S.threads \in Nat \ {0}
  BY SetupParts DEF Met, Counted, Placed, Typed
<1>2. k \in Rank /\ stage[q] \in 0..19 /\ z \in Worker /\ z[1] = k
  BY <1>1, AtStage, RankMpis
<1>3. place[MainOf(k)] \in 1..10 /\ mpi[k] \in Nat
  BY <1>1, <1>2, AtMain DEF Placed, Typed
<1>4. CASE place[MainOf(k)] >= 4
  <2>1. stage[q] >= 17
    BY <1>2, <1>4, MainStage
  <2>2. QED
    BY <1>2, <2>1
<1>5. CASE place[MainOf(k)] < 4
  <2>1. /\ mpi[k] >= 2 * S.ranks + 2 => u >= 7
        /\ mpi[k] >= 2 * S.ranks + 3 => u >= 13
        /\ mpi[k] < 2 * S.ranks + 4
    BY <1>2, <1>5, MpiStage
  <2>2. u \in 0..19 /\ (u # 0 => bars[z] = n + BarsAt(u)) /\ bars[z] \in Nat
    BY <1>1, <1>2, AtStage
  <2>3. bars[z] <= entered[q] /\ entered[q] \in Nat
    BY <1>2 DEF Met, SyncInv, BarSync, Counted, Placed, Typed
  <2>4. entered[q] >= n + 3 => stage[q] >= 6
    BY EnteredStage
  <2>5. entered[q] >= n + 5 => stage[q] >= 12
    BY EnteredStage
  <2>6. n \in Nat
    BY <1>1
  <2> HIDE DEF u, z, n, k
  <2>7. mpi[k] >= 2 * S.ranks + 2 => entered[q] >= n + 3
    BY <2>1, <2>2, <2>3, <2>6 DEF BarsAt
  <2>8. mpi[k] >= 2 * S.ranks + 3 => entered[q] >= n + 5
    BY <2>1, <2>2, <2>3, <2>6 DEF BarsAt
  <2>9. ~(mpi[k] >= 2 * S.ranks + 4)
    BY <1>1, <1>3, <2>1
  <2>10. QED
    BY <2>4, <2>5, <2>7, <2>8, <2>9 DEF k
<1>6. QED
  BY <1>3, <1>4, <1>5

\* Whoever is that far has been let in by the MPI barrier of his rank.
LEMMA FromStageToMpi ==
  ASSUME Met, NEW p \in Worker, NEW r \in Rank
  PROVE  /\ stage[p] >= 9 => mpi[r] >= 2 * S.ranks + 2
         /\ stage[p] >= 15 => mpi[r] >= 2 * S.ranks + 3
<1> DEFINE k == p[1]
           z == <<k, 0>>
           u == stage[z]
           n == 2 * S.ranks + S.threads
<1>1. Placed /\ S \in Setups /\ S.ranks \in Nat /\ S.threads \in Nat \ {0} /\ n \in Nat
  BY MetParts
<1>2. k \in Rank /\ stage[p] \in 0..19 /\ z \in Worker /\ z[1] = k
  BY <1>1, AtStage, RankMpis
<1>3. (stage[p] # 0 => bars[p] = n + BarsAt(stage[p])) /\ bars[p] \in Nat
  BY <1>1, AtStage
<1>4. bars[p] <= entered[z] /\ entered[z] \in Nat
  BY <1>2 DEF Met, SyncInv, BarSync, Counted, Placed, Typed
<1>5. /\ entered[z] >= n + 4 => u >= 8
      /\ entered[z] >= n + 6 => u >= 14
  BY <1>2, EnteredStage
<1>6. u \in 0..19 /\ z[2] = 0
  BY <1>1, <1>2, AtStage
<1>7. Passed(k) <= mpi[r] /\ Passed(k) \in Nat /\ mpi[r] \in Nat
  BY <1>1, <1>2, PassedIs DEF Met, SyncInv, MpiSync, Placed, Typed
<1>8. mpis[k] <= Passed(k) /\ mpis[k] \in Nat
  <2>1. Passed(k) = mpis[k] + MainMpis(place[MainOf(k)]) /\ MainMpis(place[MainOf(k)]) \in Nat
    BY SmallNumbers DEF Passed
  <2>2. mpis[k] \in Nat
    BY <1>1, <1>2, RankMpis
  <2>3. QED
    BY <2>1, <2>2
<1>9. u # 0 => mpis[k] = 2 * S.ranks + MpisAt(u)
  <2>1. u = StageAt(S.ranks, S.threads, 0, place[z])
    BY <1>2 DEF stage
  <2>2. u # 0 => place[z] > LocalityLen(S.ranks, S.threads, 0)
    BY <1>1, <1>2, <1>6, AtStage
  <2>3. place[z] \in Nat \ {0} /\ LocalityLen(S.ranks, S.threads, 0) \in Nat
    BY <1>1, <1>2, AtStage DEF LocalityLen, RoundLen
  <2>4. mpis[k] = Mpis(S.ranks, S.threads, k, place[z])
    BY <1>1, <1>2, RankMpis
  <2>5. QED
    BY <2>1, <2>2, <2>3, <2>4 DEF Mpis
<1> HIDE DEF k, z, u, n
<1>10. stage[p] >= 9 => mpi[r] >= 2 * S.ranks + 2
  <2> SUFFICES ASSUME stage[p] >= 9 PROVE mpi[r] >= 2 * S.ranks + 2
    OBVIOUS
  <2>1. bars[p] >= n + 4
    BY <1>1, <1>2, <1>3 DEF BarsAt
  <2>2. u >= 8
    BY <1>1, <1>3, <1>4, <1>5, <2>1
  <2>3. mpis[k] >= 2 * S.ranks + 2
    BY <1>1, <1>6, <1>9, <2>2 DEF MpisAt
  <2>4. QED
    BY <1>1, <1>7, <1>8, <2>3
<1>11. stage[p] >= 15 => mpi[r] >= 2 * S.ranks + 3
  <2> SUFFICES ASSUME stage[p] >= 15 PROVE mpi[r] >= 2 * S.ranks + 3
    OBVIOUS
  <2>1. bars[p] >= n + 6
    BY <1>1, <1>2, <1>3 DEF BarsAt
  <2>2. u >= 14
    BY <1>1, <1>3, <1>4, <1>5, <2>1
  <2>3. mpis[k] >= 2 * S.ranks + 3
    BY <1>1, <1>6, <1>9, <2>2 DEF MpisAt
  <2>4. QED
    BY <1>1, <1>7, <1>8, <2>3
<1>12. QED
  BY <1>10, <1>11

\* stage 9: warm_up is about to start
LEMMA Apart ==
  ASSUME Met, NEW p \in Worker, NEW q \in Worker
  PROVE  /\ begun[p] <= ended[q] + 1
         /\ stage[p] >= 9 => ended[q] >= 1
         /\ stage[p] >= 15 => ended[q] >= 2
<1>1. Placed /\ S \in Setups /\ q[1] \in Rank /\ stage[p] \in 0..19 /\ stage[q] \in 0..19
  BY AtStage DEF Met, Counted, Placed, Typed
<1>2. begun[p] = BegunAt(stage[p]) /\ ended[q] = EndedAt(stage[q])
  BY DEF Met, Counted, CountInv, StagesInv
<1>3. stage[p] >= 9 => stage[q] >= 6
  BY <1>1, FromStageToMpi, FromMpiToStage
<1>4. stage[p] >= 15 => stage[q] >= 12
  BY <1>1, FromStageToMpi, FromMpiToStage
<1>5. QED
  BY <1>1, <1>2, <1>3, <1>4 DEF BegunAt, EndedAt

-----------------------------------------------------------------------------
(***************************************************************************)
(* The rows: who has printed his has passed all barriers before it, and who    *)
(* has not has not entered any after it.                                     *)
(***************************************************************************)
LEMMA RowBars ==
  ASSUME NEW T \in Nat \ {0}, NEW r \in Nat, NEW t \in 0..(T - 1), NEW n \in Nat \ {0},
         NEW b, b = TableBars(T, r, t, n)
  PROVE  /\ t = 0 /\ n = 4 * r + 3 => b = 2 * r + 1
         /\ t # 0 /\ n = 2 * r + t + 2 => b = 2 * r + t + 1
         /\ t = 0 /\ n > 4 * r + 3 => b >= 2 * r + 1
         /\ t # 0 /\ n > 2 * r + t + 2 => b >= 2 * r + t + 1
<1>1. CASE t # 0
  <2>1. n <= 2 * r + t + 2 => b = n - 1
    BY <1>1 DEF TableBars
  <2>2. ~(n <= 2 * r + t + 2) => b = n - 2
    BY <1>1 DEF TableBars
  <2>3. QED
    BY <1>1, <2>1, <2>2
<1>2. CASE t = 0
  <2>1. n <= 4 * r + 3 => b = (n - 1) \div 2
    BY <1>2 DEF TableBars
  <2>2. ~(n <= 4 * r + 3) /\ n <= 4 * r + 4 + T => b = n - 2 * r - 3
    BY <1>2 DEF TableBars
  <2>3. ~(n <= 4 * r + 3) /\ ~(n <= 4 * r + 4 + T) => b = (n - T - 2) \div 2 + T
    BY <1>2 DEF TableBars
  <2>4. (4 * r + 3 - 1) \div 2 = 2 * r + 1
    <3>1. 4 * r + 3 - 1 = 2 * (2 * r + 1)
      OBVIOUS
    <3>2. QED
      BY <3>1
  <2>5. n > 4 * r + 4 + T => (n - T - 2) \div 2 >= 2 * r + 1 /\ (n - T - 2) \div 2 \in Int
    OBVIOUS
  <2>6. QED
    BY <1>2, <2>1, <2>2, <2>3, <2>4, <2>5
<1>3. QED
  BY <1>1, <1>2

\* What thread 0 does in the meantime: the MPI barrier before the rows of its
\* rank, and the one after them.
LEMMA RowMpis ==
  ASSUME NEW T \in Nat \ {0}, NEW r \in Nat, NEW n \in Nat \ {0},
         NEW b, b = TableBars(T, r, 0, n), NEW m, m = TableMpis(T, r, n)
  PROVE  /\ b >= 2 * r + 1 => m >= 2 * r + 1
         /\ b >= 2 * r /\ LocalityOp(T, r, 0, n) = "barrier" => m >= 2 * r + 1
         /\ m >= 2 * r + 2 => b >= 2 * r + 1 + T
<1>1. CASE n <= 4 * r + 3
  <2>1. b = (n - 1) \div 2 /\ m = n \div 2
    BY <1>1 DEF TableBars, TableMpis
  <2>2. LocalityOp(T, r, 0, n) = "barrier" => n % 2 = 0
    BY <1>1 DEF LocalityOp
  <2>3. QED
    BY <1>1, <2>1, <2>2
<1>2. CASE ~(n <= 4 * r + 3) /\ n <= 4 * r + 4 + T
  <2>1. m = 2 * r + 1
    BY <1>2 DEF TableMpis
  <2>2. QED
    BY <2>1
<1>3. CASE ~(n <= 4 * r + 3) /\ ~(n <= 4 * r + 4 + T)
  <2>1. b = (n - T - 2) \div 2 + T /\ m = (n - T - 1) \div 2
    BY <1>3 DEF TableBars, TableMpis
  <2>2. (n - T - 1) \div 2 >= 2 * r + 1 /\ (n - T - 1) \div 2 \in Int
    BY <1>3
  <2>3. (n - T - 2) \div 2 >= 2 * r + 1 /\ (n - T - 2) \div 2 \in Int
    BY <1>3
  <2>4. QED
    BY <2>1, <2>2, <2>3
<1>4. QED
  BY <1>1, <1>2, <1>3

LEMMA RowCounts ==
  ASSUME Met, NEW q \in Worker
  PROVE  /\ place[q] > RowPlace(q) => bars[q] >= 2 * q[1] + 1 + q[2]
         /\ At(q) = "row" => /\ place[q] = RowPlace(q) /\ stage[q] = 0
                             /\ entered[q] = 2 * q[1] + 1 + q[2]
<1> DEFINE R == S.ranks
           T == S.threads
           r == q[1]
           t == q[2]
           n == place[q]
           b == bars[q]
<1>1. Placed /\ R \in Nat /\ T \in Nat \ {0}
  BY MetParts
<1>2. r \in 0..(R - 1) /\ t \in 0..(T - 1) /\ n \in Nat \ {0} /\ stage[q] \in 0..19 /\ b \in Nat
  BY <1>1, AtStage DEF Rank, Tid
<1>3. stage[q] = 0 => b = TableBars(T, r, t, n)
  BY <1>1, AtStage
<1>4. stage[q] # 0 => b = 2 * R + T + BarsAt(stage[q])
  BY <1>1, AtStage
<1>5. At(q) = "row" => stage[q] = 0 /\ n = RowPlace(q)
  BY <1>1, AtStage
<1>6. At(q) = "row" => entered[q] = b
  <2> SUFFICES ASSUME At(q) = "row" PROVE entered[q] = b
    OBVIOUS
  <2>1. entered[q] = b + Inside(q, "barrier")
    BY DEF Met, Counted, CountInv, EnteredInv
  <2>2. Inside(q, "barrier") = 0
    BY DEF Inside
  <2>3. QED
    BY <1>2, <2>1, <2>2
<1>7. RowPlace(q) = IF t = 0 THEN 4 * r + 3 ELSE 2 * r + t + 2
  BY DEF RowPlace
<1> HIDE DEF R, T, r, t, n, b
<1>8. BarsAt(stage[q]) \in Nat
  BY DEF BarsAt
<1>9. ASSUME n > RowPlace(q) PROVE b >= 2 * r + 1 + t
  <2>1. CASE stage[q] = 0
    <3>1. /\ t = 0 /\ n > 4 * r + 3 => b >= 2 * r + 1
          /\ t # 0 /\ n > 2 * r + t + 2 => b >= 2 * r + t + 1
      BY <1>1, <1>2, <1>3, <2>1, RowBars
    <3>2. QED
      BY <1>1, <1>2, <1>7, <1>9, <3>1
  <2>2. CASE stage[q] # 0
    BY <1>1, <1>2, <1>4, <1>8, <2>2
  <2>3. QED
    BY <2>1, <2>2
<1>10. ASSUME At(q) = "row" PROVE b = 2 * r + 1 + t
  <2>1. /\ t = 0 /\ n = 4 * r + 3 => b = 2 * r + 1
        /\ t # 0 /\ n = 2 * r + t + 2 => b = 2 * r + t + 1
    BY <1>1, <1>2, <1>3, <1>5, <1>10, RowBars
  <2>2. QED
    BY <1>1, <1>2, <1>5, <1>7, <1>10, <2>1
<1>11. QED
  BY <1>5, <1>6, <1>9, <1>10 DEF r, t, n, b

\* What thread 0 has passed that was let in the barrier before the rows of its rank
LEMMA RowsLetIn ==
  ASSUME Met, NEW r \in Rank
  PROVE  /\ entered[<<r, 0>>] >= 2 * r + 1 => mpis[r] >= 2 * r + 1
         /\ mpis[r] >= 2 * r + 2 => bars[<<r, 0>>] >= 2 * r + 1 + S.threads
<1> DEFINE R == S.ranks
           T == S.threads
           z == <<r, 0>>
           n == place[z]
           b == bars[z]
           m == mpis[r]
           x == Inside(z, "barrier")
<1>1. Placed /\ R \in Nat /\ T \in Nat \ {0}
  BY MetParts
<1>2. z \in Worker /\ m \in Nat /\ m = Mpis(R, T, r, n)
  BY <1>1, RankMpis
<1>3. r \in Nat /\ r + 1 <= R
  BY <1>1 DEF Rank
<1>4. z[1] = r /\ z[2] = 0
  OBVIOUS
<1>5. stage[z] \in 0..19 /\ b \in Nat /\ n \in Nat \ {0}
  BY <1>1, <1>2, AtStage
<1>6. entered[z] = b + x /\ x \in {0, 1} /\ (x = 1 => At(z) = "barrier")
  <2>1. entered[z] = b + x
    BY <1>2 DEF Met, Counted, CountInv, EnteredInv
  <2>2. QED
    BY <2>1, InsideIs DEF Inside
<1>7. stage[z] = 0 => b = TableBars(T, r, 0, n) /\ m = TableMpis(T, r, n) /\ At(z) = LocalityOp(T, r, 0, n)
  <2>1. stage[z] = 0 => /\ b = TableBars(T, r, 0, n) /\ At(z) = LocalityOp(T, r, 0, n)
                        /\ n <= LocalityLen(R, T, 0)
    BY <1>1, <1>2, <1>4, AtStage
  <2>2. QED
    BY <1>2, <2>1 DEF Mpis
<1>8. stage[z] # 0 => b = 2 * R + T + BarsAt(stage[z]) /\ m = 2 * R + MpisAt(stage[z])
  <2>1. stage[z] # 0 => b = 2 * R + T + BarsAt(stage[z]) /\ n > LocalityLen(R, T, 0)
    BY <1>1, <1>2, <1>4, AtStage
  <2>2. stage[z] = StageAt(R, T, 0, n)
    BY <1>2, <1>4 DEF stage
  <2>3. LocalityLen(R, T, 0) \in Nat
    BY <1>1 DEF LocalityLen, RoundLen
  <2>4. QED
    BY <1>2, <1>5, <2>1, <2>2, <2>3 DEF Mpis
<1>9. BarsAt(stage[z]) \in Nat /\ MpisAt(stage[z]) \in Nat
  BY DEF BarsAt, MpisAt
<1> HIDE DEF R, T, z, n, b, m, x
<1>10. stage[z] = 0 => /\ b >= 2 * r + 1 => m >= 2 * r + 1
                       /\ b >= 2 * r /\ At(z) = "barrier" => m >= 2 * r + 1
                       /\ m >= 2 * r + 2 => b >= 2 * r + 1 + T
  BY <1>1, <1>3, <1>5, <1>7, RowMpis
<1>11. entered[z] >= 2 * r + 1 => m >= 2 * r + 1
  <2>1. CASE stage[z] = 0
    BY <1>2, <1>3, <1>5, <1>6, <1>10, <2>1
  <2>2. CASE stage[z] # 0
    BY <1>1, <1>3, <1>8, <1>9, <2>2
  <2>3. QED
    BY <2>1, <2>2
<1>12. m >= 2 * r + 2 => b >= 2 * r + 1 + T
  <2>1. CASE stage[z] = 0
    BY <1>10, <2>1
  <2>2. CASE stage[z] # 0
    BY <1>1, <1>3, <1>8, <1>9, <2>2
  <2>3. QED
    BY <2>1, <2>2
<1>13. QED
  BY <1>11, <1>12 DEF T, z, b, m

\* Who is about to print his row is after all who have.
LEMMA RowIsNext ==
  ASSUME Met, NEW p \in Worker, At(p) = "row", NEW q \in Worker, place[q] > RowPlace(q)
  PROVE  q[1] < p[1] \/ (q[1] = p[1] /\ q[2] < p[2])
<1> DEFINE R == S.ranks
           T == S.threads
           r == p[1]
           k == q[1]
<1>1. Placed /\ R \in Nat /\ T \in Nat \ {0}
  BY MetParts
<1>2. r \in 0..(R - 1) /\ p[2] \in 0..(T - 1) /\ k \in 0..(R - 1) /\ q[2] \in 0..(T - 1) /\ r \in Rank /\ k \in Rank
  BY <1>1, AtStage DEF Rank, Tid
<1>3. bars[q] >= 2 * k + 1 + q[2] /\ bars[q] \in Nat
  BY <1>1, RowCounts, AtStage
<1>4. entered[p] = 2 * r + 1 + p[2] /\ stage[p] = 0
  BY RowCounts
<1>5. BarSync /\ MpiSync
  BY DEF Met, SyncInv
<1>6. CASE k = r
  <2>1. bars[q] <= entered[p]
    BY <1>5, <1>6 DEF BarSync
  <2>2. q[2] <= p[2]
    BY <1>1, <1>2, <1>3, <1>4, <1>6, <2>1
  <2>3. q[2] # p[2]
    <3> SUFFICES ASSUME q[2] = p[2] PROVE FALSE
      OBVIOUS
    <3>1. p = <<p[1], p[2]>> /\ q = <<q[1], q[2]>>
      BY <1>1, AtStage
    <3>2. p = q
      BY <1>6, <3>1
    <3>3. place[p] = RowPlace(p) /\ place[p] \in Nat
      BY <1>1, RowCounts, AtStage
    <3>4. QED
      BY <3>2, <3>3
  <2>4. QED
    BY <1>2, <1>6, <2>2, <2>3
<1>7. CASE k > r
  <2>1. <<k, 0>> \in Worker /\ <<r, 0>> \in Worker
    BY <1>1, <1>2, RankMpis
  <2>2. bars[q] <= entered[<<k, 0>>] /\ entered[<<k, 0>>] \in Nat
    BY <1>1, <1>5, <2>1 DEF BarSync, Placed, Typed
  <2>3. mpis[k] >= 2 * k + 1
    <3>1. entered[<<k, 0>>] >= 2 * k + 1
      BY <1>2, <1>3, <2>2
    <3>2. QED
      BY <1>2, <3>1, RowsLetIn
  <2>4. mpi[r] >= 2 * k + 1 /\ mpi[r] \in Nat
    <3>1. Passed(k) <= mpi[r] /\ Passed(k) \in Nat /\ mpi[r] \in Nat
      BY <1>1, <1>2, <1>5, PassedIs DEF MpiSync, Placed, Typed
    <3>2. mpis[k] <= Passed(k) /\ mpis[k] \in Nat
      <4>1. Passed(k) = mpis[k] + MainMpis(place[MainOf(k)]) /\ MainMpis(place[MainOf(k)]) \in Nat
        BY SmallNumbers DEF Passed
      <4>2. mpis[k] \in Nat
        BY <1>1, <1>2, RankMpis
      <4>3. QED
        BY <4>1, <4>2
    <3>3. QED
      BY <1>2, <2>3, <3>1, <3>2
  <2>5. place[MainOf(r)] \in {1, 2, 3}
    <3>1. place[MainOf(r)] \in 1..10
      BY <1>1, <1>2, AtMain
    <3>2. ~(place[MainOf(r)] >= 4)
      BY <1>2, <1>4, MainStage
    <3>3. QED
      BY <3>1, <3>2
  <2>6. mpi[r] = mpis[r] + Inside(<<r, 0>>, "mpi")
    <3>1. mpi[r] = mpis[r] + MainMpis(place[MainOf(r)]) + Inside(<<r, 0>>, "mpi") + Inside(MainOf(r), "mpi")
      BY <1>2 DEF Met, Counted, CountInv, MpiInv
    <3>2. MainMpis(place[MainOf(r)]) = 0
      BY <2>5 DEF MainMpis
    <3>3. Inside(MainOf(r), "mpi") = 0
      <4>1. At(MainOf(r)) \in {"sync", "schedule"}
        BY <1>1, <1>2, <2>5, AtMain DEF MainScript
      <4>2. QED
        BY <4>1 DEF Inside
    <3>4. mpis[r] \in Nat /\ Inside(<<r, 0>>, "mpi") \in {0, 1}
      BY <1>1, <1>2, RankMpis, InsideIs
    <3>5. QED
      BY <3>1, <3>2, <3>3, <3>4
  <2>7. mpis[r] >= 2 * r + 2
    <3>1. mpis[r] \in Nat /\ Inside(<<r, 0>>, "mpi") \in {0, 1}
      BY <1>1, <1>2, RankMpis, InsideIs
    <3>2. QED
      BY <1>2, <1>7, <2>4, <2>6, <3>1
  <2>8. bars[<<r, 0>>] >= 2 * r + 1 + T
    BY <1>2, <2>7, RowsLetIn
  <2>9. bars[<<r, 0>>] <= entered[p]
    BY <1>2, <1>5, <2>1 DEF BarSync
  <2>10. bars[<<r, 0>>] \in Nat
    BY <1>1, <2>1, AtStage
  <2>11. QED
    BY <1>1, <1>2, <1>4, <2>8, <2>9, <2>10
<1>8. QED
  BY <1>1, <1>2, <1>6, <1>7

\* The places of the processes do not go back.
LEMMA PlacesGrow ==
  ASSUME Placed, CountInv, [Next]_vars, NEW q \in Process
  PROVE  place'[q] >= place[q] /\ place[q] \in Nat
<1>1. S' = S /\ (Unmoved \/ \E p \in Process : Moved(p))
  <2>1. ASSUME NEW p \in Process, Enter(p) \/ Leave(p) \/ Local(p) PROVE S' = S /\ (Unmoved \/ Moved(p))
    BY <2>1, EnterPlaces, LeavePlaces, LocalPlaces
  <2>2. ASSUME NEW r \in Rank, Sync(r) \/ Schedule(r) \/ GatherEnd(r)
        PROVE  S' = S /\ Moved(MainOf(r)) /\ MainOf(r) \in Process
    BY <2>2, SyncPlaces, SchedulePlaces, GatherEndPlaces, MainIsProcess
  <2>3. ASSUME NEW p \in Worker, NextJob(p) \/ PrintRow(p) \/ send_recv(p) \/ wait_all(p)
        PROVE  S' = S /\ Moved(p) /\ p \in Process
    BY <2>3, NotTheLast, NextJobPlaces, PrintRowPlaces, SendRecvPlaces, WaitAllPlaces, WorkerIsProcess
  <2>4. ASSUME NEW p \in Worker, NEW i \in Slot, Match(p, i) \/ send_callback(p, i) \/ recv_callback(p, i)
        PROVE  S' = S /\ Unmoved
    BY <2>4, MatchPlaces, SendCallbackPlaces, RecvCallbackPlaces
  <2>5. UNCHANGED vars \/ (\E r \in Rank : GatherGive(r)) => S' = S /\ Unmoved
    BY StutterPlaces, GatherGivePlaces
  <2>6. QED
    BY <2>1, <2>2, <2>3, <2>4, <2>5 DEF Next, Done, Process
<1>2. place[q] \in Nat
  BY AtPlace DEF Placed
<1>3. CASE Unmoved
  BY <1>2, <1>3 DEF Unmoved
<1>4. ASSUME NEW p \in Process, Moved(p) PROVE place'[q] >= place[q]
  <2>1. CASE q = p
    BY <1>1, <1>2, <1>4, <2>1, MovedOthers
  <2>2. CASE q # p
    <3>1. place'[q] = place[q]
      BY <1>1, <1>4, <2>2, MovedOthers DEF OthersStay
    <3>2. QED
      BY <1>2, <3>1
  <2>3. QED
    BY <2>1, <2>2
<1>5. QED
  BY <1>1, <1>2, <1>3, <1>4

RowsInv == \A k \in DOMAIN rows : place[rows[k]] > RowPlace(rows[k])

LEMMA RowsNext ==
  ASSUME Met, RowsInv, RowsInOrder, [Next]_vars
  PROVE  RowsInv' /\ RowsInOrder'
<1>1. Placed /\ Placed' /\ S' = S
  BY MetParts, NextPlaced DEF Met, Counted
<1>2. rows \in Seq(Worker) /\ rows' \in Seq(Worker)
  <2>1. Worker' = Worker
    BY <1>1, SetupStays
  <2>2. QED
    BY <1>1, <2>1 DEF Placed, Typed
<1>3. \A q \in Worker : place[q] > RowPlace(q) => place'[q] > RowPlace(q)
  <2> SUFFICES ASSUME NEW q \in Worker, place[q] > RowPlace(q) PROVE place'[q] > RowPlace(q)
    OBVIOUS
  <2>1. place'[q] >= place[q] /\ place[q] \in Nat /\ q \in Process
    BY <1>1, WorkerIsProcess, PlacesGrow DEF Met, Counted
  <2>2. place'[q] \in Nat
    <3>1. q \in Process'
      BY <1>1, <2>1, SetupStays
    <3>2. place'[q] \in 1..ScriptLen(S, q)'
      BY <1>1, <3>1 DEF Placed, PlaceInv
    <3>3. QED
      BY <3>2
  <2>3. RowPlace(q) \in Int
    <3>1. q[1] \in Int /\ q[2] \in Int
      BY <1>1, AtStage DEF Rank, Tid
    <3>2. QED
      BY <3>1 DEF RowPlace
  <2>4. QED
    BY <2>1, <2>2, <2>3
<1>4. CASE rows' = rows
  <2>1. RowsInv'
    BY <1>2, <1>3, <1>4 DEF RowsInv
  <2>2. RowsInOrder'
    BY <1>4 DEF RowsInOrder
  <2>3. QED
    BY <2>1, <2>2
<1>5. ASSUME NEW p \in Worker, PrintRow(p) PROVE RowsInv' /\ RowsInOrder'
  <2>1. At(p) = "row" /\ rows' = Append(rows, p)
    BY <1>5 DEF PrintRow
  <2>2. Moved(p) /\ p \in Process
    BY <1>1, <1>5, PrintRowPlaces, WorkerIsProcess
  <2>3. place'[p] > RowPlace(p)
    <3>1. place'[p] = place[p] + 1
      BY <1>1, <2>2, MovedOthers
    <3>2. place[p] = RowPlace(p) /\ place[p] \in Nat
      BY <1>1, <2>1, RowCounts, AtStage
    <3>3. QED
      BY <3>1, <3>2
  <2> DEFINE n == Len(rows)
  <2>4. n \in Nat /\ DOMAIN rows = 1..n /\ DOMAIN rows' = 1..(n + 1)
    BY <1>2, <2>1
  <2>5. (\A k \in 1..n : rows'[k] = rows[k] /\ rows[k] \in Worker) /\ rows'[n + 1] = p
    BY <1>2, <2>1
  <2> HIDE DEF n
  <2>6. RowsInv'
    <3> SUFFICES ASSUME NEW k \in 1..(n + 1) PROVE place'[rows'[k]] > RowPlace(rows'[k])
      BY <2>4 DEF RowsInv, RowPlace
    <3>1. CASE k = n + 1
      BY <2>3, <2>5, <3>1
    <3>2. CASE k # n + 1
      <4>1. k \in 1..n
        BY <2>4, <3>2
      <4>2. place[rows[k]] > RowPlace(rows[k])
        BY <2>4, <4>1 DEF RowsInv
      <4>3. QED
        BY <1>3, <2>5, <4>1, <4>2
    <3>3. QED
      BY <3>1, <3>2
  <2>7. RowsInOrder'
    <3> SUFFICES ASSUME NEW j \in 1..(n + 1), NEW k \in 1..(n + 1), j < k
                 PROVE  \/ rows'[j][1] < rows'[k][1]
                        \/ rows'[j][1] = rows'[k][1] /\ rows'[j][2] < rows'[k][2]
      BY <2>4 DEF RowsInOrder
    <3>1. j \in 1..n
      BY <2>4
    <3>2. CASE k = n + 1
      <4>1. place[rows[j]] > RowPlace(rows[j]) /\ rows[j] \in Worker /\ rows'[j] = rows[j]
        BY <2>4, <2>5, <3>1 DEF RowsInv
      <4>2. \/ rows[j][1] < p[1]
            \/ rows[j][1] = p[1] /\ rows[j][2] < p[2]
        BY <2>1, <4>1, RowIsNext
      <4>3. QED
        BY <2>5, <3>2, <4>1, <4>2
    <3>3. CASE k # n + 1
      <4>1. k \in 1..n
        BY <2>4, <3>3
      <4>2. \/ rows[j][1] < rows[k][1]
            \/ rows[j][1] = rows[k][1] /\ rows[j][2] < rows[k][2]
        BY <2>4, <3>1, <4>1 DEF RowsInOrder
      <4>3. QED
        BY <2>5, <3>1, <4>1, <4>2
    <3>4. QED
      BY <3>2, <3>3
  <2>8. QED
    BY <2>6, <2>7
<1>6. ASSUME NEW p \in Process, Enter(p) \/ Leave(p) \/ Local(p) PROVE rows' = rows
  BY <1>6 DEF Enter, Leave, Local
<1>7. ASSUME NEW r \in Rank, Sync(r) \/ Schedule(r) \/ GatherGive(r) \/ GatherEnd(r)
      PROVE  rows' = rows
  BY <1>7 DEF Sync, Schedule, GatherGive, GatherEnd
<1>8. ASSUME NEW p \in Worker, NextJob(p) \/ send_recv(p) \/ wait_all(p) PROVE rows' = rows
  BY <1>8 DEF NextJob, send_recv, wait_all
<1>9. Slots \/ UNCHANGED vars => rows' = rows
  BY <1>1, SlotsLeave
<1>10. QED
  BY <1>4, <1>5, <1>6, <1>7, <1>8, <1>9 DEF Next, Done, Slots, Process

LEMMA InitRows == Init => RowsInv /\ RowsInOrder
  BY DEF Init, RowsInv, RowsInOrder

-----------------------------------------------------------------------------
(***************************************************************************)
(* The peers: every worker is the peer of its peer.                          *)
(***************************************************************************)
LEMMA OneRemainder ==
  ASSUME NEW n \in Nat \ {0}, NEW q \in {1, 2}, NEW r \in 0..(n - 1)
  PROVE  (r + n * q) % n = r
<1> DEFINE a == r + n * q
           k == a \div n
           m == a % n
<1>1. a \in Int /\ a = n * q + r
  OBVIOUS
<1> HIDE DEF a
<1>2. k \in Int /\ m \in 0..(n - 1) /\ a = n * k + m
  BY <1>1
<1> HIDE DEF k, m
<1>3. n * (k - q) = r - m /\ n * (q - k) = m - r
  BY <1>1, <1>2
<1>4. \A x \in Int : x >= 1 => n * x >= n
  OBVIOUS
<1>5. ~(k - q >= 1) /\ ~(q - k >= 1)
  BY <1>2, <1>3, <1>4
<1>6. k = q
  BY <1>2, <1>5
<1>7. QED
  BY <1>1, <1>2, <1>6 DEF m, a

Peer(p) == <<m_peer_rank(p[1]), p[2]>>

LEMMA PeerRank ==
  ASSUME Met, NEW r \in Rank
  PROVE  /\ m_peer_rank(r) \in Rank /\ m_peer_rank(r) # r
         /\ m_peer_rank(m_peer_rank(r)) = r
<1> DEFINE R == S.ranks
           h == R \div 2
<1>1. R \in Nat /\ R % 2 = 0 /\ r \in 0..(R - 1)
  BY MetParts DEF Rank
<1>2. h \in Nat /\ R = 2 * h /\ h >= 1
  BY <1>1
<1>3. \A k : m_peer_rank(k) = (k + h + R) % R
  BY DEF m_peer_rank
<1> HIDE DEF R, h
<1>4. ASSUME NEW k \in 0..(R - 1), k < h PROVE (k + h + R) % R = k + h
  <2>1. k + h \in 0..(R - 1) /\ R \in Nat \ {0}
    BY <1>1, <1>2, <1>4
  <2>2. ((k + h) + R * 1) % R = k + h
    BY <2>1, OneRemainder
  <2>3. (k + h) + R * 1 = k + h + R
    BY <1>1, <1>2
  <2>4. QED
    BY <2>2, <2>3
<1>5. ASSUME NEW k \in 0..(R - 1), ~(k < h) PROVE (k + h + R) % R = k - h
  <2>1. k - h \in 0..(R - 1) /\ R \in Nat \ {0}
    BY <1>1, <1>2, <1>5
  <2>2. ((k - h) + R * 2) % R = k - h
    BY <2>1, OneRemainder
  <2>3. (k - h) + R * 2 = k + h + R
    BY <1>1, <1>2
  <2>4. QED
    BY <2>2, <2>3
<1>6. CASE r < h
  <2>1. m_peer_rank(r) = r + h
    BY <1>1, <1>3, <1>4, <1>6
  <2>2. r + h \in 0..(R - 1) /\ ~(r + h < h) /\ r + h # r /\ (r + h) - h = r
    BY <1>1, <1>2, <1>6
  <2>3. m_peer_rank(r + h) = (r + h) - h
    BY <1>3, <1>5, <2>2
  <2>4. QED
    BY <2>1, <2>2, <2>3 DEF Rank, R
<1>7. CASE ~(r < h)
  <2>1. m_peer_rank(r) = r - h
    BY <1>1, <1>3, <1>5, <1>7
  <2>2. r - h \in 0..(R - 1) /\ r - h < h /\ r - h # r /\ (r - h) + h = r
    BY <1>1, <1>2, <1>7
  <2>3. m_peer_rank(r - h) = (r - h) + h
    BY <1>3, <1>4, <2>2
  <2>4. QED
    BY <2>1, <2>2, <2>3 DEF Rank, R
<1>8. QED
  BY <1>6, <1>7

LEMMA PeerIs ==
  ASSUME Met, NEW p \in Worker
  PROVE  Peer(p) \in Worker /\ Peer(p) # p /\ Peer(Peer(p)) = p
<1>1. p[1] \in Rank /\ p[2] \in Tid /\ p = <<p[1], p[2]>>
  BY MetParts, AtStage
<1>2. m_peer_rank(p[1]) \in Rank /\ m_peer_rank(p[1]) # p[1] /\ m_peer_rank(m_peer_rank(p[1])) = p[1]
  BY <1>1, PeerRank
<1>3. Peer(p)[1] = m_peer_rank(p[1]) /\ Peer(p)[2] = p[2]
  BY DEF Peer
<1>4. Peer(p) \in Worker
  BY <1>1, <1>2 DEF Peer, Worker, WorkerOf, Rank, Tid
<1>5. Peer(p) # p
  BY <1>2, <1>3
<1>6. Peer(Peer(p)) = <<m_peer_rank(Peer(p)[1]), Peer(p)[2]>>
  BY DEF Peer
<1>7. QED
  BY <1>1, <1>2, <1>3, <1>4, <1>5, <1>6

(***************************************************************************)
(* The tags of the slots of a rank differ as long as it has no more than 1000  *)
(* threads: they are the number of the thread and 1000 times that of the slot. *)
(***************************************************************************)
TagsSuffice == \A s \in Setups : s.threads <= 1000 \/ s.window = 1

LEMMA OwnTag ==
  ASSUME TagsSuffice, Met, NEW t \in Tid, NEW u \in Tid, NEW i \in Slot, NEW j \in Slot, tag(t, i) = tag(u, j)
  PROVE  t = u /\ i = j
<1>1. /\ S.threads \in Nat \ {0} /\ S.window \in Nat \ {0} /\ (S.threads <= 1000 \/ S.window = 1)
  BY MetParts DEF TagsSuffice
<1>2. t \in 0..(S.threads - 1) /\ u \in 0..(S.threads - 1) /\ i \in 0..(S.window - 1) /\ j \in 0..(S.window - 1)
  BY DEF Tid, Slot
<1>3. t + i * 1000 = u + j * 1000
  BY DEF tag
<1>4. QED
  BY <1>1, <1>2, <1>3

-----------------------------------------------------------------------------
(***************************************************************************)
(* The slots.  A thread is in a phase while it waits for its messages.        *)
(***************************************************************************)
Waits == {5, 10, 16}

LEMMA WaitStages ==
  ASSUME Met, NEW p \in Worker
  PROVE  /\ At(p) = "wait" <=> stage[p] \in Waits
         /\ At(p) \in Sends <=> stage[p] \in {4, 9, 15}
         /\ begun[p] \in 0..3 /\ ended[p] \in 0..3
         /\ stage[p] \in Waits => begun[p] \in 1..3 /\ begun[p] = ended[p] + 1
         /\ stage[p] \notin Waits => begun[p] = ended[p]
         /\ At(p) \in Sends => begun[p] \in 0..2
<1>1. Placed
  BY MetParts
<1>2. stage[p] \in 0..19
  BY <1>1, AtStage
<1>3. begun[p] = BegunAt(stage[p]) /\ ended[p] = EndedAt(stage[p])
  BY DEF Met, Counted, CountInv, StagesInv
<1>4. \A u \in 1..19 : /\ Stages[u] = "wait" <=> u \in Waits
                       /\ Stages[u] \in Sends <=> u \in {4, 9, 15}
  BY DEF Stages, Waits, Sends
<1>5. stage[p] = 0 => At(p) \notin Sends /\ At(p) # "wait"
  BY <1>1, AtStage DEF Sends
<1>6. stage[p] # 0 => At(p) = Stages[stage[p]]
  BY <1>1, AtStage
<1>7. (At(p) = "wait" <=> stage[p] \in Waits) /\ (At(p) \in Sends <=> stage[p] \in {4, 9, 15})
  BY <1>2, <1>4, <1>5, <1>6 DEF Waits
<1>8. QED
  BY <1>2, <1>3, <1>7 DEF Waits, BegunAt, EndedAt

\* How far a slot counts in phase b
Limit(b) == IF b = 1 THEN 1 ELSE IF b = 2 THEN WarmReps ELSE IF S.nrep = 0 THEN 1 ELSE S.nrep

LEMMA LimitIs ==
  ASSUME Met, NEW p \in Worker, begun[p] \in 1..3
  PROVE  /\ Limit(begun[p]) \in Nat \ {0} /\ Repeat(p) \in Nat
         /\ Limit(begun[p]) = IF Repeat(p) = 0 THEN 1 ELSE Repeat(p)
<1>1. S.nrep \in Nat /\ WarmReps \in Nat \ {0}
  BY MetParts, SetupParts, WarmRepsAssumption
<1>2. Repeat(p) = IF begun[p] = 1 THEN 1 ELSE IF begun[p] = 2 THEN WarmReps ELSE S.nrep
  <2>1. PhaseNames[1] = "check" /\ PhaseNames[2] = "warm_up" /\ PhaseNames[3] = "main_loop"
    BY DEF PhaseNames
  <2>2. Reps["check"] = 1 /\ Reps["warm_up"] = WarmReps /\ Reps["main_loop"] = S.nrep
    BY DEF Reps
  <2>3. begun[p] = 1 \/ begun[p] = 2 \/ begun[p] = 3
    OBVIOUS
  <2>4. QED
    BY <2>1, <2>2, <2>3 DEF Repeat
<1>3. begun[p] = 1 \/ begun[p] = 2 \/ begun[p] = 3
  OBVIOUS
<1>4. QED
  BY <1>1, <1>2, <1>3 DEF Limit

\* What is known of the phases that threads are in
LEMMA PhaseFacts ==
  ASSUME Met, NEW p \in Worker
  PROVE  /\ begun[p] \in 0..3 /\ ended[p] \in 0..3
         /\ begun[p] = ended[p] \/ begun[p] = ended[p] + 1
         /\ At(p) = "wait" <=> begun[p] = ended[p] + 1
         /\ At(p) \in Sends => begun[p] = ended[p] /\ begun[p] \in 0..2
         /\ \A q \in Worker : begun[p] <= ended[q] + 1
         /\ At(p) \in Sends => \A q \in Worker : begun[p] <= ended[q]
<1>1. /\ begun[p] \in 0..3 /\ ended[p] \in 0..3
      /\ begun[p] = ended[p] \/ begun[p] = ended[p] + 1
      /\ At(p) = "wait" <=> begun[p] = ended[p] + 1
      /\ At(p) \in Sends => begun[p] = ended[p] /\ begun[p] \in 0..2
  <2>1. stage[p] \in Waits => begun[p] \in 1..3 /\ begun[p] = ended[p] + 1
    BY WaitStages
  <2>2. stage[p] \notin Waits => begun[p] = ended[p]
    BY WaitStages
  <2>3. At(p) = "wait" <=> stage[p] \in Waits
    BY WaitStages
  <2>4. At(p) \in Sends => stage[p] \in {4, 9, 15} /\ begun[p] \in 0..2
    BY WaitStages
  <2>5. begun[p] \in 0..3 /\ ended[p] \in 0..3
    BY WaitStages
  <2>6. QED
    BY <2>1, <2>2, <2>3, <2>4, <2>5 DEF Waits
<1>2. \A q \in Worker : begun[p] <= ended[q] + 1
  BY Apart
<1>3. ASSUME At(p) \in Sends, NEW q \in Worker PROVE begun[p] <= ended[q]
  <2>1. stage[p] \in {4, 9, 15}
    BY <1>3, WaitStages
  <2>2. begun[p] = BegunAt(stage[p])
    BY DEF Met, Counted, CountInv, StagesInv
  <2>3. ended[q] \in 0..3
    BY WaitStages
  <2>4. (stage[p] >= 9 => ended[q] >= 1) /\ (stage[p] >= 15 => ended[q] >= 2)
    BY Apart
  <2>5. QED
    BY <2>1, <2>2, <2>3, <2>4 DEF BegunAt
<1>4. QED
  BY <1>1, <1>2, <1>3

(***************************************************************************)
(* What the steps do to the slots.                                          *)
(***************************************************************************)
Same(x, j) == /\ sending'[x][j] = sending[x][j] /\ waiting'[x][j] = waiting[x][j]
              /\ sent'[x][j] = sent[x][j] /\ arrived'[x][j] = arrived[x][j]

LEMMA SlotTypes ==
  ASSUME Met, NEW p \in Worker, NEW i \in Slot
  PROVE  /\ sending[p][i] \in Nat /\ waiting[p][i] \in Nat /\ submitted[p] \in Nat
         /\ sent[p][i] \in Seq(Nat \X Nat) /\ arrived[p][i] \in Seq(Nat \X Nat)
<1>1. /\ sending \in [Worker -> [Slot -> Nat]] /\ waiting \in [Worker -> [Slot -> Nat]]
      /\ sent \in [Worker -> [Slot -> Seq(Nat \X Nat)]] /\ arrived \in [Worker -> [Slot -> Seq(Nat \X Nat)]]
      /\ submitted \in [Worker -> Nat]
  BY DEF Met, Counted, Placed, Typed
<1>2. QED
  BY <1>1

LEMMA SlotFunctions ==
  ASSUME Met
  PROVE  /\ sending \in [Worker -> [Slot -> Nat]] /\ waiting \in [Worker -> [Slot -> Nat]]
         /\ sent \in [Worker -> [Slot -> Seq(Nat \X Nat)]]
         /\ arrived \in [Worker -> [Slot -> Seq(Nat \X Nat)]]
         /\ submitted \in [Worker -> Nat] /\ begun \in [Worker -> Nat] /\ ended \in [Worker -> Nat]
  BY DEF Met, Counted, Placed, Typed

LEMMA SendRecvDoes ==
  ASSUME Met, NEW p \in Worker, send_recv(p)
  PROVE  /\ S' = S /\ ended' = ended /\ At(p) \in Sends
         /\ begun'[p] = begun[p] + 1 /\ \A x \in Worker : x # p => begun'[x] = begun[x]
         /\ submitted'[p] = S.window /\ \A x \in Worker : x # p => submitted'[x] = submitted[x]
         /\ \A x \in Worker, j \in Slot : x # p => Same(x, j)
         /\ \A j \in Slot : /\ sending'[p][j] = 1 /\ waiting'[p][j] = 1 /\ arrived'[p][j] = arrived[p][j]
                            /\ sent'[p][j] = Append(sent[p][j], <<begun[p] + 1, 1>>)
<1>1. /\ sending \in [Worker -> [Slot -> Nat]] /\ waiting \in [Worker -> [Slot -> Nat]]
      /\ sent \in [Worker -> [Slot -> Seq(Nat \X Nat)]]
      /\ arrived \in [Worker -> [Slot -> Seq(Nat \X Nat)]]
      /\ submitted \in [Worker -> Nat] /\ begun \in [Worker -> Nat] /\ ended \in [Worker -> Nat]
  BY SlotFunctions
<1>2. /\ S' = S /\ ended' = ended /\ At(p) \in Sends /\ arrived' = arrived
      /\ begun' = [begun EXCEPT ![p] = begun[p] + 1]
      /\ submitted' = [submitted EXCEPT ![p] = S.window]
      /\ sending' = [sending EXCEPT ![p] = [i \in Slot |-> 1]]
      /\ waiting' = [waiting EXCEPT ![p] = [i \in Slot |-> 1]]
      /\ sent' = [sent EXCEPT ![p] = [i \in Slot |-> Append(sent[p][i], <<begun'[p], 1>>)]]
  BY SendsAre DEF send_recv
<1>3. begun'[p] = begun[p] + 1 /\ \A x \in Worker : x # p => begun'[x] = begun[x]
  BY <1>1, <1>2
<1>4. submitted'[p] = S.window /\ \A x \in Worker : x # p => submitted'[x] = submitted[x]
  BY <1>1, <1>2
<1>5. \A x \in Worker : x # p => /\ sending'[x] = sending[x] /\ waiting'[x] = waiting[x]
                                 /\ sent'[x] = sent[x] /\ arrived'[x] = arrived[x]
  BY <1>1, <1>2
<1>6. \A j \in Slot : /\ sending'[p][j] = 1 /\ waiting'[p][j] = 1 /\ arrived'[p][j] = arrived[p][j]
                      /\ sent'[p][j] = Append(sent[p][j], <<begun[p] + 1, 1>>)
  <2>1. /\ sending'[p] = [i \in Slot |-> 1] /\ waiting'[p] = [i \in Slot |-> 1]
        /\ sent'[p] = [i \in Slot |-> Append(sent[p][i], <<begun'[p], 1>>)]
    BY <1>1, <1>2
  <2>2. QED
    BY <1>2, <1>3, <2>1
<1>7. QED
  BY <1>2, <1>3, <1>4, <1>5, <1>6 DEF Same

\* One slot of a function of workers and slots gets another value.
LEMMA OneSlot ==
  ASSUME NEW A, NEW B, NEW X, NEW f \in [A -> [B -> X]], NEW a \in A, NEW b \in B, NEW v,
         NEW g, g = [f EXCEPT ![a][b] = v]
  PROVE  /\ g[a][b] = v
         /\ \A x \in A, y \in B : x # a \/ y # b => g[x][y] = f[x][y]
  OBVIOUS

LEMMA MatchDoes ==
  ASSUME TagsSuffice, Met, NEW p \in Worker, NEW i \in Slot, Match(p, i)
  PROVE  /\ S' = S /\ begun' = begun /\ ended' = ended /\ submitted' = submitted
         /\ sending' = sending /\ waiting' = waiting
         /\ waiting[p][i] # 0 /\ arrived[p][i] = <<>> /\ sent[Peer(p)][i] # <<>>
         /\ arrived'[p][i] = <<Head(sent[Peer(p)][i])>>
         /\ sent'[Peer(p)][i] = Tail(sent[Peer(p)][i])
         /\ \A x \in Worker, j \in Slot : x # p \/ j # i => arrived'[x][j] = arrived[x][j]
         /\ \A x \in Worker, j \in Slot : x # Peer(p) \/ j # i => sent'[x][j] = sent[x][j]
<1>1. /\ sending \in [Worker -> [Slot -> Nat]] /\ waiting \in [Worker -> [Slot -> Nat]]
      /\ sent \in [Worker -> [Slot -> Seq(Nat \X Nat)]]
      /\ arrived \in [Worker -> [Slot -> Seq(Nat \X Nat)]]
      /\ submitted \in [Worker -> Nat] /\ begun \in [Worker -> Nat] /\ ended \in [Worker -> Nat]
  BY SlotFunctions
<1>2. /\ S' = S /\ begun' = begun /\ ended' = ended /\ submitted' = submitted
      /\ sending' = sending /\ waiting' = waiting
      /\ waiting[p][i] # 0 /\ arrived[p][i] = <<>>
  BY DEF Match, phases
<1>3. PICK q \in Worker, k \in Slot :
        /\ q[1] = m_peer_rank(p[1]) /\ tag(q[2], k) = tag(p[2], i)
        /\ sent[q][k] # <<>>
        /\ arrived' = [arrived EXCEPT ![p][i] = <<Head(sent[q][k])>>]
        /\ sent' = [sent EXCEPT ![q][k] = Tail(sent[q][k])]
  BY DEF Match
<1>4. q[2] = p[2] /\ k = i
  BY <1>3, MetParts, AtStage, OwnTag
<1>5. q = Peer(p)
  <2>1. q = <<q[1], q[2]>>
    BY MetParts, AtStage
  <2>2. QED
    BY <1>3, <1>4, <2>1 DEF Peer
<1>6. /\ sent[Peer(p)][i] # <<>> /\ Peer(p) \in Worker
      /\ arrived' = [arrived EXCEPT ![p][i] = <<Head(sent[Peer(p)][i])>>]
      /\ sent' = [sent EXCEPT ![Peer(p)][i] = Tail(sent[Peer(p)][i])]
  BY <1>3, <1>4, <1>5
<1>7. /\ arrived'[p][i] = <<Head(sent[Peer(p)][i])>>
      /\ \A x \in Worker, j \in Slot : x # p \/ j # i => arrived'[x][j] = arrived[x][j]
  BY <1>1, <1>6, OneSlot
<1>8. /\ sent'[Peer(p)][i] = Tail(sent[Peer(p)][i])
      /\ \A x \in Worker, j \in Slot : x # Peer(p) \/ j # i => sent'[x][j] = sent[x][j]
  BY <1>1, <1>6, OneSlot
<1>9. QED
  BY <1>2, <1>6, <1>7, <1>8

LEMMA SendCallbackDoes ==
  ASSUME Met, NEW p \in Worker, NEW i \in Slot, send_callback(p, i)
  PROVE  /\ S' = S /\ begun' = begun /\ ended' = ended /\ waiting' = waiting /\ arrived' = arrived
         /\ begun[p] = ended[p] + 1 /\ sending[p][i] # 0
         /\ \A x \in Worker, j \in Slot : x # p \/ j # i =>
              sending'[x][j] = sending[x][j] /\ sent'[x][j] = sent[x][j]
         /\ \/ /\ sending[p][i] < Repeat(p) /\ sending'[p][i] = sending[p][i] + 1
               /\ sent'[p][i] = Append(sent[p][i], <<begun[p], sending[p][i] + 1>>)
               /\ submitted'[p] = submitted[p] + 1
               /\ \A x \in Worker : x # p => submitted'[x] = submitted[x]
            \/ /\ ~(sending[p][i] < Repeat(p)) /\ sending'[p][i] = 0
               /\ sent' = sent /\ submitted' = submitted
<1>1. /\ sending \in [Worker -> [Slot -> Nat]] /\ waiting \in [Worker -> [Slot -> Nat]]
      /\ sent \in [Worker -> [Slot -> Seq(Nat \X Nat)]]
      /\ arrived \in [Worker -> [Slot -> Seq(Nat \X Nat)]]
      /\ submitted \in [Worker -> Nat] /\ begun \in [Worker -> Nat] /\ ended \in [Worker -> Nat]
  BY SlotFunctions
<1>2. /\ S' = S /\ begun' = begun /\ ended' = ended /\ waiting' = waiting /\ arrived' = arrived
      /\ At(p) = "wait" /\ sending[p][i] # 0
  BY DEF send_callback, phases
<1>3. begun[p] = ended[p] + 1
  BY <1>2, PhaseFacts
<1>4. CASE sending[p][i] < Repeat(p)
  <2>1. /\ sending' = [sending EXCEPT ![p][i] = sending[p][i] + 1]
        /\ sent' = [sent EXCEPT ![p][i] = Append(sent[p][i], <<begun[p], sending'[p][i]>>)]
        /\ submitted' = [submitted EXCEPT ![p] = submitted[p] + 1]
    BY <1>4 DEF send_callback
  <2>2. /\ sending'[p][i] = sending[p][i] + 1
        /\ \A x \in Worker, j \in Slot : x # p \/ j # i => sending'[x][j] = sending[x][j]
    BY <1>1, <2>1, OneSlot
  <2>3. /\ sent'[p][i] = Append(sent[p][i], <<begun[p], sending'[p][i]>>)
        /\ \A x \in Worker, j \in Slot : x # p \/ j # i => sent'[x][j] = sent[x][j]
    BY <1>1, <2>1, OneSlot
  <2>4. submitted'[p] = submitted[p] + 1 /\ \A x \in Worker : x # p => submitted'[x] = submitted[x]
    BY <1>1, <2>1
  <2>5. QED
    BY <1>2, <1>3, <1>4, <2>2, <2>3, <2>4
<1>5. CASE ~(sending[p][i] < Repeat(p))
  <2>1. sending' = [sending EXCEPT ![p][i] = 0] /\ sent' = sent /\ submitted' = submitted
    BY <1>5 DEF send_callback
  <2>2. /\ sending'[p][i] = 0
        /\ \A x \in Worker, j \in Slot : x # p \/ j # i => sending'[x][j] = sending[x][j]
    BY <1>1, <2>1, OneSlot
  <2>3. QED
    BY <1>2, <1>3, <1>5, <2>1, <2>2
<1>6. QED
  BY <1>4, <1>5

LEMMA RecvCallbackDoes ==
  ASSUME Met, NEW p \in Worker, NEW i \in Slot, recv_callback(p, i)
  PROVE  /\ S' = S /\ begun' = begun /\ ended' = ended /\ sending' = sending /\ sent' = sent
         /\ submitted' = submitted
         /\ begun[p] = ended[p] + 1 /\ arrived[p][i] # <<>> /\ arrived'[p][i] = <<>>
         /\ \A x \in Worker, j \in Slot : x # p \/ j # i =>
              arrived'[x][j] = arrived[x][j] /\ waiting'[x][j] = waiting[x][j]
         /\ \/ waiting[p][i] < Repeat(p) /\ waiting'[p][i] = waiting[p][i] + 1
            \/ ~(waiting[p][i] < Repeat(p)) /\ waiting'[p][i] = 0
<1>1. /\ sending \in [Worker -> [Slot -> Nat]] /\ waiting \in [Worker -> [Slot -> Nat]]
      /\ sent \in [Worker -> [Slot -> Seq(Nat \X Nat)]]
      /\ arrived \in [Worker -> [Slot -> Seq(Nat \X Nat)]]
      /\ submitted \in [Worker -> Nat] /\ begun \in [Worker -> Nat] /\ ended \in [Worker -> Nat]
  BY SlotFunctions
<1>2. /\ S' = S /\ begun' = begun /\ ended' = ended /\ sending' = sending /\ sent' = sent
      /\ submitted' = submitted /\ At(p) = "wait" /\ arrived[p][i] # <<>>
      /\ arrived' = [arrived EXCEPT ![p][i] = <<>>]
      /\ waiting' = [waiting EXCEPT ![p][i] = IF waiting[p][i] < Repeat(p) THEN waiting[p][i] + 1 ELSE 0]
  BY DEF recv_callback, phases
<1>3. begun[p] = ended[p] + 1
  BY <1>2, PhaseFacts
<1>4. /\ arrived'[p][i] = <<>>
      /\ \A x \in Worker, j \in Slot : x # p \/ j # i => arrived'[x][j] = arrived[x][j]
  BY <1>1, <1>2, OneSlot
<1>5. /\ waiting'[p][i] = IF waiting[p][i] < Repeat(p) THEN waiting[p][i] + 1 ELSE 0
      /\ \A x \in Worker, j \in Slot : x # p \/ j # i => waiting'[x][j] = waiting[x][j]
  BY <1>1, <1>2, OneSlot
<1>6. QED
  BY <1>2, <1>3, <1>4, <1>5

LEMMA WaitAllDoes ==
  ASSUME Met, NEW p \in Worker, wait_all(p)
  PROVE  /\ S' = S /\ begun' = begun /\ submitted' = submitted
         /\ begun[p] = ended[p] + 1 /\ ended'[p] = begun[p]
         /\ \A x \in Worker : x # p => ended'[x] = ended[x]
         /\ sending' = sending /\ waiting' = waiting /\ sent' = sent /\ arrived' = arrived
         /\ \A i \in Slot : sending[p][i] = 0 /\ waiting[p][i] = 0
<1>1. /\ sending \in [Worker -> [Slot -> Nat]] /\ waiting \in [Worker -> [Slot -> Nat]]
      /\ sent \in [Worker -> [Slot -> Seq(Nat \X Nat)]]
      /\ arrived \in [Worker -> [Slot -> Seq(Nat \X Nat)]]
      /\ submitted \in [Worker -> Nat] /\ begun \in [Worker -> Nat] /\ ended \in [Worker -> Nat]
  BY SlotFunctions
<1>2. /\ S' = S /\ begun' = begun /\ submitted' = submitted /\ At(p) = "wait"
      /\ sending' = sending /\ waiting' = waiting /\ sent' = sent /\ arrived' = arrived
      /\ \A i \in Slot : sending[p][i] = 0 /\ waiting[p][i] = 0
      /\ ended' = [ended EXCEPT ![p] = ended[p] + 1]
  BY DEF wait_all, slots
<1>3. begun[p] = ended[p] + 1
  BY <1>2, PhaseFacts
<1>4. ended'[p] = begun[p] /\ \A x \in Worker : x # p => ended'[x] = ended[x]
  BY <1>1, <1>2, <1>3
<1>5. QED
  BY <1>2, <1>3, <1>4

\* All other steps leave the slots and phases alone.
LEMMA OthersDo ==
  ASSUME Met, [Next]_vars
  PROVE  \/ \E p \in Worker : send_recv(p) \/ wait_all(p)
         \/ \E p \in Worker, i \in Slot : Match(p, i) \/ send_callback(p, i) \/ recv_callback(p, i)
         \/ S' = S /\ UNCHANGED <<begun, ended, sending, waiting, sent, arrived, submitted>>
<1>1. ASSUME NEW p \in Process, Enter(p) \/ Leave(p) \/ Local(p)
      PROVE  S' = S /\ UNCHANGED <<begun, ended, sending, waiting, sent, arrived, submitted>>
  BY <1>1 DEF Enter, Leave, Local, phases, slots
<1>2. ASSUME NEW r \in Rank, Sync(r) \/ Schedule(r) \/ GatherGive(r) \/ GatherEnd(r)
      PROVE  S' = S /\ UNCHANGED <<begun, ended, sending, waiting, sent, arrived, submitted>>
  BY <1>2 DEF Sync, Schedule, GatherGive, GatherEnd, phases, slots
<1>3. ASSUME NEW p \in Worker, NextJob(p) \/ PrintRow(p)
      PROVE  S' = S /\ UNCHANGED <<begun, ended, sending, waiting, sent, arrived, submitted>>
  BY <1>3 DEF NextJob, PrintRow, phases, slots
<1>4. UNCHANGED vars => S' = S /\ UNCHANGED <<begun, ended, sending, waiting, sent, arrived, submitted>>
  BY DEF vars, phases, slots
<1>5. QED
  BY <1>1, <1>2, <1>3, <1>4 DEF Next, Done, Process

-----------------------------------------------------------------------------
(***************************************************************************)
(* A slot counts to the repetitions of the phase and has room for one message. *)
(***************************************************************************)
SlotOK(p, i) ==
    /\ begun[p] = ended[p] => sending[p][i] = 0 /\ waiting[p][i] = 0
    /\ begun[p] # ended[p] => sending[p][i] <= Limit(begun[p]) /\ waiting[p][i] <= Limit(begun[p])
    /\ arrived[p][i] = <<>> \/ (waiting[p][i] # 0 /\ Len(arrived[p][i]) = 1)
    /\ \A k \in DOMAIN sent[p][i] : sent[p][i][k][1] \in 1..3

SlotInv == \A p \in Worker, i \in Slot : SlotOK(p, i)

LEMMA LimitStays == ASSUME S' = S PROVE \A b : Limit(b)' = Limit(b)
  BY DEF Limit

\* A slot that nothing happens to
LEMMA SlotStays ==
  ASSUME Met, S' = S, NEW p \in Worker, NEW i \in Slot, SlotOK(p, i), Same(p, i),
         begun'[p] = begun[p], ended'[p] = ended[p]
  PROVE  SlotOK(p, i)'
<1>1. \A b : Limit(b)' = Limit(b)
  BY LimitStays
<1>2. QED
  BY <1>1 DEF SlotOK, Same

\* What a sequence holds that another message is appended to
LEMMA Appended ==
  ASSUME NEW q \in Seq(Nat \X Nat), NEW b \in 1..3, NEW n \in Nat,
         \A k \in DOMAIN q : q[k][1] \in 1..3
  PROVE  \A k \in DOMAIN Append(q, <<b, n>>) : Append(q, <<b, n>>)[k][1] \in 1..3
<1> DEFINE a == Append(q, <<b, n>>)
<1>1. <<b, n>> \in Nat \X Nat
  OBVIOUS
<1>2. Len(q) \in Nat /\ DOMAIN q = 1..Len(q) /\ DOMAIN a = 1..(Len(q) + 1)
  BY <1>1
<1>3. (\A k \in 1..Len(q) : a[k] = q[k]) /\ a[Len(q) + 1] = <<b, n>>
  BY <1>1
<1> HIDE DEF a
<1>4. ASSUME NEW k \in DOMAIN a PROVE a[k][1] \in 1..3
  <2>1. CASE k = Len(q) + 1
    BY <1>3, <2>1
  <2>2. CASE k # Len(q) + 1
    <3>1. k \in 1..Len(q)
      BY <1>2, <2>2
    <3>2. QED
      BY <1>2, <1>3, <3>1
  <2>3. QED
    BY <2>1, <2>2
<1>5. QED
  BY <1>4 DEF a

LEMMA TailIs ==
  ASSUME NEW X, NEW q \in Seq(X), q # <<>>
  PROVE  /\ Tail(q) \in Seq(X) /\ Len(q) >= 1 /\ Len(Tail(q)) = Len(q) - 1
         /\ \A k \in 1..Len(Tail(q)) : Tail(q)[k] = q[k + 1]
         /\ Head(q) = q[1] /\ Head(q) \in X
  OBVIOUS

LEMMA SlotNext ==
  ASSUME Met, SlotInv, [Next]_vars, S' = S
  PROVE  SlotInv'
<1>0. Worker' = Worker /\ Slot' = Slot
  BY SetupStays
<1> SUFFICES ASSUME NEW x \in Worker, NEW j \in Slot PROVE SlotOK(x, j)'
  BY <1>0 DEF SlotInv
<1>1. SlotOK(x, j)
  BY DEF SlotInv
<1>2. \A b : Limit(b)' = Limit(b)
  BY LimitStays
<1>3. ASSUME NEW p \in Worker, send_recv(p) PROVE SlotOK(x, j)'
  <2>1. /\ ended' = ended /\ At(p) \in Sends
        /\ begun'[p] = begun[p] + 1 /\ \A y \in Worker : y # p => begun'[y] = begun[y]
        /\ \A y \in Worker, k \in Slot : y # p => Same(y, k)
        /\ \A k \in Slot : /\ sending'[p][k] = 1 /\ waiting'[p][k] = 1 /\ arrived'[p][k] = arrived[p][k]
                           /\ sent'[p][k] = Append(sent[p][k], <<begun[p] + 1, 1>>)
    BY <1>3, SendRecvDoes
  <2>2. CASE x # p
    BY <1>1, <2>1, <2>2, SlotStays
  <2>3. CASE x = p
    <3>1. begun[p] = ended[p] /\ begun[p] \in 0..2
      BY <2>1, PhaseFacts
    <3>2. begun'[p] \in 1..3 /\ begun'[p] # ended'[p]
      BY <2>1, <3>1
    <3>3. Limit(begun'[p]) >= 1
      <4>1. WarmReps \in Nat \ {0} /\ S.nrep \in Nat
        BY MetParts, SetupParts, WarmRepsAssumption
      <4>2. QED
        BY <3>2, <4>1 DEF Limit
    <3>4. arrived[p][j] = <<>>
      BY <1>1, <2>3, <3>1 DEF SlotOK
    <3>5. \A k \in DOMAIN sent'[p][j] : sent'[p][j][k][1] \in 1..3
      <4>1. \A k \in DOMAIN sent[p][j] : sent[p][j][k][1] \in 1..3
        BY <1>1, <2>3 DEF SlotOK
      <4>2. sent[p][j] \in Seq(Nat \X Nat) /\ begun[p] + 1 \in 1..3
        BY <3>1, SlotTypes
      <4>3. sent'[p][j] = Append(sent[p][j], <<begun[p] + 1, 1>>)
        BY <2>1
      <4>4. QED
        BY <4>1, <4>2, <4>3, Appended
    <3>6. sending'[p][j] = 1 /\ waiting'[p][j] = 1 /\ arrived'[p][j] = <<>>
      BY <2>1, <3>4
    <3>7. Limit(begun[p])' = Limit(begun'[p])
      BY <1>2 DEF Limit
    <3>8. QED
      BY <2>3, <3>2, <3>3, <3>5, <3>6, <3>7 DEF SlotOK
  <2>4. QED
    BY <2>2, <2>3
<1>4. ASSUME NEW p \in Worker, wait_all(p) PROVE SlotOK(x, j)'
  <2>1. /\ begun' = begun /\ ended'[p] = begun[p]
        /\ \A y \in Worker : y # p => ended'[y] = ended[y]
        /\ sending' = sending /\ waiting' = waiting /\ sent' = sent /\ arrived' = arrived
        /\ sending[p][j] = 0 /\ waiting[p][j] = 0
    BY <1>4, WaitAllDoes
  <2>2. CASE x # p
    BY <1>1, <2>1, <2>2, SlotStays DEF Same
  <2>3. CASE x = p
    BY <1>1, <2>1, <2>3 DEF SlotOK
  <2>4. QED
    BY <2>2, <2>3
<1>5. ASSUME NEW p \in Worker, NEW i \in Slot, Match(p, i) PROVE SlotOK(x, j)'
  <2>1. /\ begun' = begun /\ ended' = ended /\ sending' = sending /\ waiting' = waiting
        /\ waiting[p][i] # 0 /\ arrived[p][i] = <<>>
    BY <1>5 DEF Match, phases
  <2>2. PICK q \in Worker, k \in Slot :
          /\ sent[q][k] # <<>>
          /\ arrived' = [arrived EXCEPT ![p][i] = <<Head(sent[q][k])>>]
          /\ sent' = [sent EXCEPT ![q][k] = Tail(sent[q][k])]
    BY <1>5 DEF Match
  <2>3. sent \in [Worker -> [Slot -> Seq(Nat \X Nat)]] /\ arrived \in [Worker -> [Slot -> Seq(Nat \X Nat)]]
    BY SlotFunctions
  <2>4. /\ arrived'[p][i] = <<Head(sent[q][k])>>
        /\ \A y \in Worker, l \in Slot : y # p \/ l # i => arrived'[y][l] = arrived[y][l]
    BY <2>2, <2>3, OneSlot
  <2>5. /\ sent'[q][k] = Tail(sent[q][k])
        /\ \A y \in Worker, l \in Slot : y # q \/ l # k => sent'[y][l] = sent[y][l]
    BY <2>2, <2>3, OneSlot
  <2>6. arrived'[x][j] = <<>> \/ (waiting'[x][j] # 0 /\ Len(arrived'[x][j]) = 1)
    <3>1. CASE x = p /\ j = i
      BY <2>1, <2>4, <3>1
    <3>2. CASE x # p \/ j # i
      BY <1>1, <2>1, <2>4, <3>2 DEF SlotOK
    <3>3. QED
      BY <3>1, <3>2
  <2>7. \A n \in DOMAIN sent'[x][j] : sent'[x][j][n][1] \in 1..3
    <3>1. CASE x = q /\ j = k
      <4>1. sent[q][k] \in Seq(Nat \X Nat)
        BY SlotTypes
      <4>2. Tail(sent[q][k]) \in Seq(Nat \X Nat) /\ Len(sent[q][k]) \in Nat
            /\ Len(Tail(sent[q][k])) = Len(sent[q][k]) - 1
            /\ \A n \in 1..Len(Tail(sent[q][k])) : Tail(sent[q][k])[n] = sent[q][k][n + 1]
        BY <2>2, <4>1, TailIs
      <4>3. DOMAIN Tail(sent[q][k]) = 1..(Len(sent[q][k]) - 1) /\ DOMAIN sent[q][k] = 1..Len(sent[q][k])
        BY <4>1, <4>2
      <4>4. ASSUME NEW n \in 1..(Len(sent[q][k]) - 1) PROVE Tail(sent[q][k])[n][1] \in 1..3
        <5>1. n + 1 \in DOMAIN sent[q][k]
          BY <4>2, <4>3
        <5>2. sent[q][k][n + 1][1] \in 1..3
          BY <1>1, <3>1, <5>1 DEF SlotOK
        <5>3. QED
          BY <4>2, <5>2
      <4>5. QED
        BY <2>5, <3>1, <4>3, <4>4
    <3>2. CASE x # q \/ j # k
      BY <1>1, <2>5, <3>2 DEF SlotOK
    <3>3. QED
      BY <3>1, <3>2
  <2>8. QED
    BY <1>1, <1>2, <2>1, <2>6, <2>7 DEF SlotOK
<1>6. ASSUME NEW p \in Worker, NEW i \in Slot, send_callback(p, i) PROVE SlotOK(x, j)'
  <2>1. /\ begun' = begun /\ ended' = ended /\ waiting' = waiting /\ arrived' = arrived
        /\ begun[p] = ended[p] + 1 /\ sending[p][i] # 0
        /\ \A y \in Worker, k \in Slot : y # p \/ k # i =>
             sending'[y][k] = sending[y][k] /\ sent'[y][k] = sent[y][k]
        /\ \/ /\ sending[p][i] < Repeat(p) /\ sending'[p][i] = sending[p][i] + 1
              /\ sent'[p][i] = Append(sent[p][i], <<begun[p], sending[p][i] + 1>>)
           \/ sending'[p][i] = 0 /\ sent' = sent
    BY <1>6, SendCallbackDoes
  <2>2. CASE x # p \/ j # i
    BY <1>1, <2>1, <2>2, SlotStays DEF Same
  <2>3. CASE x = p /\ j = i
    <3>1. begun[p] \in 1..3 /\ begun[p] # ended[p]
      BY <2>1, PhaseFacts
    <3>2. /\ Limit(begun[p]) \in Nat \ {0} /\ Repeat(p) \in Nat
          /\ Limit(begun[p]) = IF Repeat(p) = 0 THEN 1 ELSE Repeat(p)
      BY <3>1, LimitIs
    <3>3. sending[p][i] \in Nat /\ sent[p][i] \in Seq(Nat \X Nat)
      BY SlotTypes
    <3>4. sending'[p][i] <= Limit(begun[p])
      BY <2>1, <3>2, <3>3
    <3>5. \A k \in DOMAIN sent'[p][i] : sent'[p][i][k][1] \in 1..3
      <4>1. \A k \in DOMAIN sent[p][i] : sent[p][i][k][1] \in 1..3
        BY <1>1, <2>3 DEF SlotOK
      <4>2. sending[p][i] + 1 \in Nat
        BY <3>3
      <4>3. \A k \in DOMAIN Append(sent[p][i], <<begun[p], sending[p][i] + 1>>) :
              Append(sent[p][i], <<begun[p], sending[p][i] + 1>>)[k][1] \in 1..3
        BY <3>1, <3>3, <4>1, <4>2, Appended
      <4>4. QED
        BY <2>1, <4>1, <4>3
    <3>6. QED
      BY <1>1, <1>2, <2>1, <2>3, <3>1, <3>4, <3>5 DEF SlotOK
  <2>4. QED
    BY <2>2, <2>3
<1>7. ASSUME NEW p \in Worker, NEW i \in Slot, recv_callback(p, i) PROVE SlotOK(x, j)'
  <2>1. /\ begun' = begun /\ ended' = ended /\ sending' = sending /\ sent' = sent
        /\ begun[p] = ended[p] + 1 /\ arrived'[p][i] = <<>>
        /\ \A y \in Worker, k \in Slot : y # p \/ k # i =>
             arrived'[y][k] = arrived[y][k] /\ waiting'[y][k] = waiting[y][k]
        /\ \/ waiting[p][i] < Repeat(p) /\ waiting'[p][i] = waiting[p][i] + 1
           \/ waiting'[p][i] = 0
    BY <1>7, RecvCallbackDoes
  <2>2. CASE x # p \/ j # i
    BY <1>1, <2>1, <2>2, SlotStays DEF Same
  <2>3. CASE x = p /\ j = i
    <3>1. begun[p] \in 1..3 /\ begun[p] # ended[p]
      BY <2>1, PhaseFacts
    <3>2. /\ Limit(begun[p]) \in Nat \ {0} /\ Repeat(p) \in Nat
          /\ Limit(begun[p]) = IF Repeat(p) = 0 THEN 1 ELSE Repeat(p)
      BY <3>1, LimitIs
    <3>3. waiting[p][i] \in Nat
      BY SlotTypes
    <3>4. waiting'[p][i] <= Limit(begun[p])
      BY <2>1, <3>2, <3>3
    <3>5. QED
      BY <1>1, <1>2, <2>1, <2>3, <3>1, <3>4 DEF SlotOK
  <2>4. QED
    BY <2>2, <2>3
<1>8. ASSUME UNCHANGED <<begun, ended, sending, waiting, sent, arrived>> PROVE SlotOK(x, j)'
  BY <1>1, <1>8, SlotStays DEF Same
<1>9. QED
  BY <1>3, <1>4, <1>5, <1>6, <1>7, <1>8, OthersDo

LEMMA InitSlots ==
  ASSUME Init
  PROVE  SlotInv
<1> SUFFICES ASSUME NEW p \in Worker, NEW i \in Slot PROVE SlotOK(p, i)
  BY DEF SlotInv
<1>1. begun[p] = 0 /\ ended[p] = 0
  BY DEF Init
<1>2. sending[p][i] = 0 /\ waiting[p][i] = 0 /\ sent[p][i] = <<>> /\ arrived[p][i] = <<>>
  BY DEF Init
<1>3. QED
  BY <1>1, <1>2 DEF SlotOK

LEMMA MaxIs ==
  ASSUME NEW n \in Nat
  PROVE  Max({1, n}) = IF n = 0 THEN 1 ELSE n
<1>1. Max({1, n}) = CHOOSE x \in {1, n} : \A y \in {1, n} : x >= y
  BY DEF Max
<1>2. CASE n = 0
  <2>1. \A x \in {1, n} : (\A y \in {1, n} : x >= y) <=> x = 1
    BY <1>2
  <2>2. QED
    BY <1>1, <1>2, <2>1
<1>3. CASE n # 0
  <2>1. \A x \in {1, n} : (\A y \in {1, n} : x >= y) <=> x = n
    BY <1>3
  <2>2. QED
    BY <1>1, <1>3, <2>1
<1>4. QED
  BY <1>2, <1>3

LEMMA TypesOK ==
  ASSUME Met, SlotInv
  PROVE  TypeOK
<1>1. \A p \in Worker \cup Main : todo[p] # <<>>
  BY MetParts, AtPlace DEF Placed, Process
<1>2. /\ inside \in [Worker \cup Main -> BOOLEAN] /\ gathered \in [Rank -> BOOLEAN]
      /\ \A k \in DOMAIN rows : rows[k] \in Worker
  <2>1. inside \in [Process -> BOOLEAN] /\ gathered \in [Rank -> BOOLEAN] /\ rows \in Seq(Worker)
    BY DEF Met, Counted, Placed, Typed
  <2>2. QED
    BY <2>1 DEF Process
<1>3. ASSUME NEW p \in Worker, NEW i \in Slot
      PROVE  /\ {sending[p][i], waiting[p][i]} \subseteq
                  0..(IF begun[p] = 0 THEN 0 ELSE Max({1, Repeat(p)}))
             /\ Len(arrived[p][i]) <= 1
             /\ \A k \in DOMAIN sent[p][i] : sent[p][i][k][1] \in 1..3
  <2>1. SlotOK(p, i)
    BY DEF SlotInv
  <2>2. sending[p][i] \in Nat /\ waiting[p][i] \in Nat
    BY SlotTypes
  <2>3. begun[p] \in 0..3 /\ ended[p] \in 0..3 /\ (begun[p] = ended[p] \/ begun[p] = ended[p] + 1)
    BY PhaseFacts
  <2>4. CASE begun[p] = 0
    <3>1. sending[p][i] = 0 /\ waiting[p][i] = 0
      BY <2>1, <2>3, <2>4 DEF SlotOK
    <3>2. QED
      BY <2>1, <2>4, <3>1 DEF SlotOK
  <2>5. CASE begun[p] # 0
    <3>1. begun[p] \in 1..3
      BY <2>3, <2>5
    <3>2. /\ Limit(begun[p]) \in Nat \ {0} /\ Repeat(p) \in Nat
          /\ Limit(begun[p]) = Max({1, Repeat(p)})
      BY <3>1, LimitIs, MaxIs
    <3>3. sending[p][i] <= Limit(begun[p]) /\ waiting[p][i] <= Limit(begun[p])
      BY <2>1, <3>2 DEF SlotOK
    <3>4. Len(arrived[p][i]) <= 1 /\ \A k \in DOMAIN sent[p][i] : sent[p][i][k][1] \in 1..3
      <4>1. \A k \in DOMAIN sent[p][i] : sent[p][i][k][1] \in 1..3
        BY <2>1 DEF SlotOK
      <4>2. arrived[p][i] = <<>> \/ Len(arrived[p][i]) = 1
        BY <2>1 DEF SlotOK
      <4>3. arrived[p][i] = <<>> => Len(arrived[p][i]) = 0
        OBVIOUS
      <4>4. Len(arrived[p][i]) <= 1
        <5> DEFINE l == Len(arrived[p][i])
        <5>1. l \in {0, 1}
          BY <4>2, <4>3
        <5> HIDE DEF l
        <5>2. l <= 1
          BY <5>1
        <5>3. QED
          BY <5>2 DEF l
      <4>5. QED
        BY <4>1, <4>4
    <3> DEFINE M == Max({1, Repeat(p)})
    <3>5. M \in Nat /\ sending[p][i] <= M /\ waiting[p][i] <= M
      BY <3>2, <3>3
    <3> HIDE DEF M
    <3>6. {sending[p][i], waiting[p][i]} \subseteq 0..M
      BY <2>2, <3>5
    <3>7. QED
      BY <2>5, <3>4, <3>6 DEF M
  <2>6. QED
    BY <2>4, <2>5
<1>4. QED
  BY <1>1, <1>2, <1>3 DEF TypeOK

-----------------------------------------------------------------------------
(***************************************************************************)
(* The channels.  Sub is how many messages a slot has submitted in its phase,   *)
(* Got how many of them its receives have taken: between those, in order, is    *)
(* what the slot of the peer has sent.                                       *)
(***************************************************************************)
Sub(p, i) == IF begun[p] = 0 THEN 0
             ELSE IF sending[p][i] # 0 THEN sending[p][i] ELSE Limit(begun[p])
Got(p, i) == IF begun[p] = 0 THEN 0
             ELSE IF waiting[p][i] = 0 THEN Limit(begun[p])
             ELSE IF arrived[p][i] = <<>> THEN waiting[p][i] - 1 ELSE waiting[p][i]

\* These are messages k + 1 to n of phase b.
IsMessages(q, b, k, n) ==
    q \in Seq(Nat \X Nat) /\ Len(q) = n - k /\ \A j \in 1..(n - k) : q[j] = <<b, k + j>>

Channel(b, c, k, n, msgs) ==
    /\ b = c => k <= n /\ IsMessages(msgs, b, k, n)
    /\ b > c => IsMessages(msgs, b, 0, n)
    /\ b < c => msgs = <<>> /\ k = 0

ChannelOK(p, i) ==
    Channel(begun[Peer(p)], begun[p], Got(p, i), Sub(Peer(p), i), sent[Peer(p)][i])

AlikeOK(p, i) == arrived[p][i] # <<>> => arrived[p][i] = <<<<begun[p], waiting[p][i]>>>>

ChannelInv == \A p \in Worker, i \in Slot : ChannelOK(p, i) /\ AlikeOK(p, i)

LEMMA NoMessages ==
  ASSUME NEW b, NEW k \in Nat, NEW n \in Nat, k <= n, NEW q, IsMessages(q, b, k, n)
  PROVE  q = <<>> <=> k = n
<1>1. q \in Seq(Nat \X Nat) /\ Len(q) = n - k
  BY DEF IsMessages
<1>2. q = <<>> <=> Len(q) = 0
  BY <1>1
<1>3. QED
  BY <1>1, <1>2

LEMMA EmptyMessages ==
  ASSUME NEW b, NEW n \in Nat
  PROVE  IsMessages(<<>>, b, n, n)
  BY DEF IsMessages

LEMMA AppendMessage ==
  ASSUME NEW b \in Nat, NEW k \in Nat, NEW n \in Nat, k <= n, NEW q, IsMessages(q, b, k, n),
         NEW x, x = n + 1
  PROVE  IsMessages(Append(q, <<b, x>>), b, k, x)
<1> DEFINE m == <<b, x>>
           a == Append(q, m)
<1>1. /\ q \in Seq(Nat \X Nat) /\ Len(q) = n - k /\ n - k \in Nat
      /\ \A j \in 1..(n - k) : q[j] = <<b, k + j>>
  BY DEF IsMessages
<1>2. m \in Nat \X Nat
  OBVIOUS
<1>3. x \in Nat /\ k <= x /\ x - k = n - k + 1
  OBVIOUS
<1> HIDE DEF m
<1>4. a \in Seq(Nat \X Nat) /\ Len(a) = n - k + 1
  BY <1>1, <1>2
<1>5. (\A j \in 1..(n - k) : a[j] = q[j]) /\ a[n - k + 1] = m
  <2>0. q \in Seq(Nat \X Nat)
    BY <1>1
  <2>1. (\A j \in 1..Len(q) : a[j] = q[j]) /\ a[Len(q) + 1] = m
    BY <1>2, <2>0
  <2>2. QED
    BY <1>1, <2>1
<1> HIDE DEF a
<1>6. ASSUME NEW j \in 1..(n - k + 1) PROVE a[j] = <<b, k + j>>
  <2>1. CASE j = n - k + 1
    <3>1. k + j = x
      BY <2>1
    <3>2. QED
      BY <1>5, <2>1, <3>1 DEF m
  <2>2. CASE j # n - k + 1
    <3>1. j \in 1..(n - k)
      BY <1>1, <2>2
    <3>2. QED
      BY <1>1, <1>5, <3>1
  <2>3. QED
    BY <2>1, <2>2
<1>7. IsMessages(a, b, k, x)
  BY <1>3, <1>4, <1>6 DEF IsMessages
<1>8. QED
  BY <1>7 DEF a, m

LEMMA TakeMessage ==
  ASSUME NEW b \in Nat, NEW k \in Nat, NEW n \in Nat, k < n, NEW q, IsMessages(q, b, k, n),
         NEW x, x = k + 1
  PROVE  Head(q) = <<b, x>> /\ IsMessages(Tail(q), b, x, n)
<1> DEFINE a == Tail(q)
<1>1. k <= n /\ n - k \in Nat \ {0} /\ n - k - 1 \in Nat /\ k # n
  OBVIOUS
<1>2. /\ q \in Seq(Nat \X Nat) /\ Len(q) = n - k
      /\ \A j \in 1..(n - k) : q[j] = <<b, k + j>>
  BY DEF IsMessages
<1>3. q # <<>>
  BY <1>1, NoMessages
<1>4. /\ a \in Seq(Nat \X Nat) /\ Len(a) = n - k - 1 /\ Head(q) = q[1]
      /\ \A j \in 1..(n - k - 1) : a[j] = q[j + 1]
  BY <1>1, <1>2, <1>3, TailIs
<1>5. x \in Nat /\ x <= n /\ n - x = n - k - 1
  OBVIOUS
<1>6. 1 \in 1..(n - k)
  BY <1>1
<1> HIDE DEF a
<1>7. ASSUME NEW j \in 1..(n - k - 1) PROVE a[j] = <<b, x + j>>
  <2>1. j + 1 \in 1..(n - k) /\ k + (j + 1) = x + j
    BY <1>1
  <2>2. QED
    BY <1>2, <1>4, <2>1
<1>8. IsMessages(a, b, x, n)
  BY <1>4, <1>5, <1>7 DEF IsMessages
<1>9. Head(q) = <<b, x>>
  BY <1>2, <1>4, <1>6
<1>10. QED
  BY <1>8, <1>9 DEF a

LEMMA ChannelSends ==
  ASSUME NEW b \in Nat, NEW c \in Nat, NEW k \in Nat, NEW n \in Nat, NEW msgs,
         Channel(b, c, k, n, msgs), c <= b, NEW x, x = n + 1
  PROVE  Channel(b, c, k, x, Append(msgs, <<b, x>>))
<1>1. CASE b = c
  <2>1. k <= n /\ IsMessages(msgs, b, k, n)
    BY <1>1 DEF Channel
  <2>2. IsMessages(Append(msgs, <<b, x>>), b, k, x)
    BY <2>1, AppendMessage
  <2>3. k <= x
    BY <2>1
  <2>4. QED
    BY <1>1, <2>2, <2>3 DEF Channel
<1>2. CASE b # c
  <2>1. IsMessages(msgs, b, 0, n) /\ b > c /\ 0 <= n
    BY <1>2 DEF Channel
  <2>2. IsMessages(Append(msgs, <<b, x>>), b, 0, x)
    BY <2>1, AppendMessage
  <2>3. QED
    BY <2>1, <2>2 DEF Channel
<1>3. QED
  BY <1>1, <1>2

LEMMA ChannelReceives ==
  ASSUME NEW b \in Nat, NEW c \in Nat, NEW k \in Nat, NEW n \in Nat, NEW msgs,
         Channel(b, c, k, n, msgs), b <= c, msgs # <<>>, NEW x, x = k + 1
  PROVE  b = c /\ Head(msgs) = <<c, x>> /\ Channel(b, c, x, n, Tail(msgs))
<1>1. b = c
  BY DEF Channel
<1>2. k <= n /\ IsMessages(msgs, b, k, n)
  BY <1>1 DEF Channel
<1>3. k < n
  <2>1. k # n
    BY <1>2, NoMessages
  <2>2. QED
    BY <1>2, <2>1
<1>4. Head(msgs) = <<b, x>> /\ IsMessages(Tail(msgs), b, x, n)
  BY <1>2, <1>3, TakeMessage
<1>5. x <= n
  BY <1>3
<1>6. QED
  BY <1>1, <1>4, <1>5 DEF Channel

\* The sender begins a phase.
LEMMA ChannelBegins ==
  ASSUME NEW b \in Nat, NEW c \in Nat, NEW k \in Nat, NEW n \in Nat, NEW msgs,
         Channel(b, c, k, n, msgs), c = b \/ c = b + 1, c = b => k = n,
         NEW x \in Nat, x = b + 1
  PROVE  Channel(x, c, k, 1, Append(msgs, <<x, 1>>))
<1>1. msgs = <<>>
  <2>1. CASE c = b
    <3>1. IsMessages(msgs, b, n, n)
      BY <2>1 DEF Channel
    <3>2. QED
      BY <3>1, NoMessages
  <2>2. CASE c = b + 1
    <3>1. b < c
      BY <2>2
    <3>2. QED
      BY <3>1 DEF Channel
  <2>3. QED
    BY <2>1, <2>2
<1>2. IsMessages(Append(msgs, <<x, 1>>), x, 0, 1)
  <2>1. 1 = 0 + 1 /\ 0 <= 0
    OBVIOUS
  <2>2. IsMessages(msgs, x, 0, 0)
    BY <1>1, EmptyMessages
  <2>3. QED
    BY <2>1, <2>2, AppendMessage
<1>3. CASE c = b
  BY <1>2, <1>3 DEF Channel
<1>4. CASE c = b + 1
  <2>1. k = 0
    BY <1>4 DEF Channel
  <2>2. QED
    BY <1>2, <1>4, <2>1 DEF Channel
<1>5. QED
  BY <1>3, <1>4

\* The receiver begins a phase.
LEMMA ChannelAwaits ==
  ASSUME NEW b \in Nat, NEW c \in Nat, NEW k \in Nat, NEW n \in Nat, NEW msgs,
         Channel(b, c, k, n, msgs), b = c \/ b = c + 1, b = c => k = n,
         NEW x \in Nat, x = c + 1
  PROVE  Channel(b, x, 0, n, msgs)
<1>1. CASE b = c
  <2>1. IsMessages(msgs, b, n, n)
    BY <1>1 DEF Channel
  <2>2. msgs = <<>>
    BY <2>1, NoMessages
  <2>3. QED
    BY <1>1, <2>2 DEF Channel
<1>2. CASE b = c + 1
  <2>1. IsMessages(msgs, b, 0, n)
    BY <1>2 DEF Channel
  <2>2. QED
    BY <1>2, <2>1 DEF Channel
<1>3. QED
  BY <1>1, <1>2

LEMMA SubGot ==
  ASSUME Met, SlotInv, NEW p \in Worker, NEW i \in Slot
  PROVE  Sub(p, i) \in Nat /\ Got(p, i) \in Nat
<1>1. sending[p][i] \in Nat /\ waiting[p][i] \in Nat
  BY SlotTypes
<1>2. begun[p] # 0 => Limit(begun[p]) \in Nat
  BY PhaseFacts, LimitIs
<1>3. QED
  BY <1>1, <1>2 DEF Sub, Got

LEMMA SubStays ==
  ASSUME S' = S, NEW p, NEW i, begun'[p] = begun[p], sending'[p][i] = sending[p][i]
  PROVE  Sub(p, i)' = Sub(p, i)
  BY LimitStays DEF Sub

LEMMA GotStays ==
  ASSUME S' = S, NEW p, NEW i, begun'[p] = begun[p],
         waiting'[p][i] = waiting[p][i], arrived'[p][i] = arrived[p][i]
  PROVE  Got(p, i)' = Got(p, i)
  BY LimitStays DEF Got

LEMMA PeerStays ==
  ASSUME S' = S
  PROVE  \A p : Peer(p)' = Peer(p)
  BY DEF Peer, m_peer_rank

\* A channel that nothing happens to
LEMMA ChannelStays ==
  ASSUME S' = S, NEW p, NEW i, ChannelOK(p, i), begun'[p] = begun[p],
         begun'[Peer(p)] = begun[Peer(p)],
         waiting'[p][i] = waiting[p][i], arrived'[p][i] = arrived[p][i],
         sending'[Peer(p)][i] = sending[Peer(p)][i], sent'[Peer(p)][i] = sent[Peer(p)][i]
  PROVE  ChannelOK(p, i)'
<1>1. Got(p, i)' = Got(p, i)
  BY GotStays
<1>2. Sub(Peer(p), i)' = Sub(Peer(p), i)
  <2> DEFINE q == Peer(p)
  <2>1. begun'[q] = begun[q] /\ sending'[q][i] = sending[q][i] /\ q' = q
    BY PeerStays
  <2> HIDE DEF q
  <2>2. Sub(q, i)' = Sub(q, i)
    BY <2>1, LimitStays DEF Sub
  <2>3. QED
    BY <2>2 DEF q
<1>3. QED
  BY <1>1, <1>2, PeerStays DEF ChannelOK

\* Who has ended his phase has submitted, and received, all of it.
LEMMA EndedCounts ==
  ASSUME Met, SlotInv, NEW p \in Worker, NEW i \in Slot, begun[p] = ended[p]
  PROVE  /\ Sub(p, i) = IF begun[p] = 0 THEN 0 ELSE Limit(begun[p])
         /\ Got(p, i) = IF begun[p] = 0 THEN 0 ELSE Limit(begun[p])
<1>1. sending[p][i] = 0 /\ waiting[p][i] = 0
  BY DEF SlotInv, SlotOK
<1>2. QED
  BY <1>1 DEF Sub, Got

LEMMA ChannelSendRecv ==
  ASSUME Met, SlotInv, ChannelInv, NEW p \in Worker, send_recv(p), NEW x \in Worker, NEW j \in Slot
  PROVE  ChannelOK(x, j)' /\ AlikeOK(x, j)'
<1> DEFINE y == Peer(x)
<1>1. /\ S' = S /\ At(p) \in Sends
      /\ begun'[p] = begun[p] + 1 /\ \A q \in Worker : q # p => begun'[q] = begun[q]
      /\ \A q \in Worker, k \in Slot : q # p => Same(q, k)
      /\ sending'[p][j] = 1 /\ waiting'[p][j] = 1 /\ arrived'[p][j] = arrived[p][j]
      /\ sent'[p][j] = Append(sent[p][j], <<begun[p] + 1, 1>>)
  BY SendRecvDoes
<1>2. y \in Worker /\ y # x /\ Peer(y) = x
  BY PeerIs
<1>3. y' = y
  BY <1>1, PeerStays
<1>4. ChannelOK(x, j) /\ AlikeOK(x, j) /\ SlotOK(x, j)
  BY DEF ChannelInv, SlotInv
<1>5. begun[p] = ended[p] /\ begun[p] \in 0..2
  BY <1>1, PhaseFacts
<1>6. \A q \in Worker : /\ begun[q] = begun[p] \/ begun[q] = begun[p] + 1
                        /\ begun[q] = begun[p] => begun[q] = ended[q]
  <2> SUFFICES ASSUME NEW q \in Worker
               PROVE  /\ begun[q] = begun[p] \/ begun[q] = begun[p] + 1
                      /\ begun[q] = begun[p] => begun[q] = ended[q]
    OBVIOUS
  <2>1. begun[q] \in 0..3 /\ ended[q] \in 0..3 /\ (begun[q] = ended[q] \/ begun[q] = ended[q] + 1)
    BY PhaseFacts
  <2>2. begun[q] <= ended[p] + 1
    BY PhaseFacts
  <2>3. begun[p] <= ended[q]
    BY <1>1, PhaseFacts
  <2>4. QED
    BY <1>5, <2>1, <2>2, <2>3
<1> DEFINE b == begun[y]
           c == begun[x]
           k == Got(x, j)
           n == Sub(y, j)
           msgs == sent[y][j]
<1>7. b \in Nat /\ c \in Nat /\ k \in Nat /\ n \in Nat /\ Channel(b, c, k, n, msgs)
  <2>1. k \in Nat /\ n \in Nat
    BY <1>2, SubGot
  <2>2. b \in Nat /\ c \in Nat
    <3>1. begun[x] \in 0..3
      BY PhaseFacts
    <3>2. begun[y] \in 0..3
      BY <1>2, PhaseFacts
    <3>3. QED
      BY <3>1, <3>2
  <2>3. QED
    BY <1>4, <2>1, <2>2 DEF ChannelOK
<1>8. b = c /\ b = begun[p] => k = n
  <2> SUFFICES ASSUME b = c, b = begun[p] PROVE k = n
    OBVIOUS
  <2>1. begun[x] = ended[x] /\ begun[y] = ended[y]
    BY <1>2, <1>6
  <2>2. k = IF c = 0 THEN 0 ELSE Limit(c)
    BY <2>1, EndedCounts
  <2>3. n = IF b = 0 THEN 0 ELSE Limit(b)
    BY <1>2, <2>1, EndedCounts
  <2>4. QED
    BY <2>2, <2>3
<1>9. CASE x = p
  <2>1. begun'[x] = c + 1 /\ begun'[y] = b /\ Same(y, j)
    BY <1>1, <1>2, <1>9
  <2>2. b = c \/ b = c + 1
    BY <1>2, <1>6, <1>9
  <2>3. arrived'[x][j] = <<>>
    <3>1. waiting[x][j] = 0
      BY <1>4, <1>5, <1>9 DEF SlotOK
    <3>2. QED
      BY <1>1, <1>4, <1>9, <3>1 DEF SlotOK
  <2>4. Got(x, j)' = 0
    <3>1. begun'[x] # 0 /\ waiting'[x][j] = 1
      BY <1>1, <1>7, <1>9, <2>1
    <3>2. QED
      BY <2>3, <3>1 DEF Got
  <2>5. Sub(y, j)' = n
    <3>1. Sub(y, j)' = Sub(y, j)
      <4> HIDE DEF y
      <4>1. QED
        BY <1>1, <1>3, <2>1, LimitStays DEF Sub, Same
    <3>2. QED
      BY <3>1
  <2>6. sent'[y][j] = msgs
    BY <2>1 DEF Same
  <2> HIDE DEF b, c, k, n, msgs
  <2>7. Channel(b, c + 1, 0, n, msgs)
    <3>1. c + 1 \in Nat
      BY <1>7
    <3>2. b = c => k = n
      BY <1>8, <1>9 DEF c
    <3>3. QED
      BY <1>7, <2>2, <3>1, <3>2, ChannelAwaits
  <2> HIDE DEF y
  <2>8. ChannelOK(x, j)'
    BY <1>3, <2>1, <2>4, <2>5, <2>6, <2>7 DEF ChannelOK, y
  <2>9. AlikeOK(x, j)'
    BY <2>3 DEF AlikeOK
  <2>10. QED
    BY <2>8, <2>9
<1>10. CASE y = p
  <2>1. begun'[x] = c /\ begun'[y] = b + 1 /\ Same(x, j)
    BY <1>1, <1>2, <1>10
  <2>2. c = b \/ c = b + 1
    BY <1>6, <1>10
  <2>3. Got(x, j)' = k
    BY <1>1, <2>1, LimitStays DEF Got, Same
  <2>4. Sub(y, j)' = 1
    <3>1. begun'[y] # 0 /\ sending'[y][j] = 1
      BY <1>1, <1>7, <1>10, <2>1
    <3> HIDE DEF y
    <3>2. QED
      BY <1>3, <3>1 DEF Sub
  <2>5. sent'[y][j] = Append(msgs, <<b + 1, 1>>)
    BY <1>1, <1>10
  <2> HIDE DEF b, c, k, n, msgs
  <2>6. Channel(b + 1, c, k, 1, Append(msgs, <<b + 1, 1>>))
    <3>1. b + 1 \in Nat
      BY <1>7
    <3>2. c = b => k = n
      BY <1>8, <1>10 DEF b
    <3>3. QED
      BY <1>7, <2>2, <3>1, <3>2, ChannelBegins
  <2>7. ChannelOK(x, j)'
    <3> HIDE DEF y
    <3>1. QED
      BY <1>3, <2>1, <2>3, <2>4, <2>5, <2>6 DEF ChannelOK, y
  <2>8. AlikeOK(x, j)'
    BY <1>4, <2>1 DEF AlikeOK, Same, c
  <2>9. QED
    BY <2>7, <2>8
<1>11. CASE x # p /\ y # p
  <2>1. Same(x, j) /\ Same(y, j) /\ begun'[x] = begun[x] /\ begun'[y] = begun[y]
    BY <1>1, <1>2, <1>11
  <2>2. ChannelOK(x, j)'
    BY <1>1, <1>4, <2>1, ChannelStays DEF Same
  <2>3. AlikeOK(x, j)'
    BY <1>4, <2>1 DEF AlikeOK, Same
  <2>4. QED
    BY <2>2, <2>3
<1>12. QED
  BY <1>9, <1>10, <1>11

LEMMA ChannelMatch ==
  ASSUME TagsSuffice, Met, SlotInv, ChannelInv, NEW p \in Worker, NEW i \in Slot, Match(p, i),
         NEW x \in Worker, NEW j \in Slot
  PROVE  ChannelOK(x, j)' /\ AlikeOK(x, j)'
<1> DEFINE y == Peer(x)
<1>1. /\ S' = S /\ begun' = begun /\ ended' = ended
      /\ sending' = sending /\ waiting' = waiting
      /\ waiting[p][i] # 0 /\ arrived[p][i] = <<>> /\ sent[Peer(p)][i] # <<>>
      /\ arrived'[p][i] = <<Head(sent[Peer(p)][i])>>
      /\ sent'[Peer(p)][i] = Tail(sent[Peer(p)][i])
      /\ \A q \in Worker, k \in Slot : q # p \/ k # i => arrived'[q][k] = arrived[q][k]
      /\ \A q \in Worker, k \in Slot : q # Peer(p) \/ k # i => sent'[q][k] = sent[q][k]
  BY MatchDoes
<1>2. y \in Worker /\ y # x /\ Peer(y) = x /\ Peer(Peer(p)) = p
  BY PeerIs
<1>3. y' = y
  BY <1>1, PeerStays
<1>4. ChannelOK(x, j) /\ AlikeOK(x, j) /\ SlotOK(x, j)
  BY DEF ChannelInv, SlotInv
<1>5. CASE x # p \/ j # i
  <2>1. arrived'[x][j] = arrived[x][j]
    BY <1>1, <1>5
  <2>2. sent'[y][j] = sent[y][j]
    <3>1. y = Peer(p) => x = p
      BY <1>2
    <3>2. QED
      BY <1>1, <1>2, <1>5, <3>1
  <2>3. ChannelOK(x, j)'
    BY <1>1, <1>4, <2>1, <2>2, ChannelStays
  <2>4. AlikeOK(x, j)'
    BY <1>1, <1>4, <2>1 DEF AlikeOK
  <2>5. QED
    BY <2>3, <2>4
<1>6. CASE x = p /\ j = i
  <2> DEFINE b == begun[y]
             c == begun[x]
             k == Got(x, j)
             n == Sub(y, j)
             msgs == sent[y][j]
             w == waiting[x][j]
  <2>1. c \in 0..3 /\ ended[x] \in 0..3 /\ (c = ended[x] \/ c = ended[x] + 1)
    BY PhaseFacts
  <2>2. c # ended[x] /\ c # 0 /\ c = ended[x] + 1
    <3>1. c # ended[x]
      BY <1>1, <1>4, <1>6 DEF SlotOK
    <3>2. QED
      BY <2>1, <3>1
  <2>3. b <= c /\ b \in Nat /\ c \in Nat
    <3>1. b <= ended[x] + 1
      BY <1>2, PhaseFacts
    <3>2. b \in 0..3
      BY <1>2, PhaseFacts
    <3>3. QED
      BY <2>1, <2>2, <3>1, <3>2
  <2>4. k \in Nat /\ n \in Nat /\ Channel(b, c, k, n, msgs)
    BY <1>2, <1>4, SubGot DEF ChannelOK
  <2>5. msgs # <<>> /\ w # 0 /\ arrived[x][j] = <<>>
    BY <1>1, <1>6
  <2>6. w \in Nat
    BY SlotTypes
  <2>7. k = w - 1
    BY <2>2, <2>5 DEF Got
  <2>8. w = k + 1
    <3> HIDE DEF k, w
    <3>1. QED
      BY <2>6, <2>7
  <2>9. arrived'[x][j] = <<Head(msgs)>> /\ sent'[y][j] = Tail(msgs)
    BY <1>1, <1>6
  <2>10. Got(x, j)' = w
    <3>1. arrived'[x][j] # <<>>
      BY <2>9
    <3>2. begun'[x] = c /\ waiting'[x][j] = w
      BY <1>1
    <3> HIDE DEF c, w
    <3>3. QED
      BY <2>2, <2>5, <3>1, <3>2 DEF Got
  <2>11. Sub(y, j)' = n
    <3>1. Sub(y, j)' = Sub(y, j)
      <4> HIDE DEF y
      <4>1. QED
        BY <1>1, <1>3, LimitStays DEF Sub
    <3>2. QED
      BY <3>1
  <2>12. begun'[x] = c /\ begun'[y] = b /\ waiting'[x][j] = w
    BY <1>1
  <2> HIDE DEF b, c, k, n, msgs, w
  <2>13. b = c /\ Head(msgs) = <<c, w>> /\ Channel(b, c, w, n, Tail(msgs))
    BY <2>3, <2>4, <2>5, <2>8, ChannelReceives
  <2>14. AlikeOK(x, j)'
    BY <2>9, <2>12, <2>13 DEF AlikeOK
  <2> HIDE DEF y
  <2>15. ChannelOK(x, j)'
    BY <1>3, <2>9, <2>10, <2>11, <2>12, <2>13 DEF ChannelOK, y
  <2>16. QED
    BY <2>14, <2>15
<1>7. QED
  BY <1>5, <1>6

LEMMA ChannelSendCallback ==
  ASSUME Met, SlotInv, ChannelInv, NEW p \in Worker, NEW i \in Slot, send_callback(p, i),
         NEW x \in Worker, NEW j \in Slot
  PROVE  ChannelOK(x, j)' /\ AlikeOK(x, j)'
<1> DEFINE y == Peer(x)
<1>1. /\ S' = S /\ begun' = begun /\ ended' = ended /\ waiting' = waiting /\ arrived' = arrived
      /\ begun[p] = ended[p] + 1 /\ sending[p][i] # 0
      /\ \A q \in Worker, k \in Slot : q # p \/ k # i =>
           sending'[q][k] = sending[q][k] /\ sent'[q][k] = sent[q][k]
      /\ \/ /\ sending[p][i] < Repeat(p) /\ sending'[p][i] = sending[p][i] + 1
            /\ sent'[p][i] = Append(sent[p][i], <<begun[p], sending[p][i] + 1>>)
         \/ ~(sending[p][i] < Repeat(p)) /\ sending'[p][i] = 0 /\ sent' = sent
  BY SendCallbackDoes
<1>2. y \in Worker /\ y # x /\ Peer(y) = x
  BY PeerIs
<1>3. y' = y
  BY <1>1, PeerStays
<1>4. ChannelOK(x, j) /\ AlikeOK(x, j)
  BY DEF ChannelInv
<1>5. AlikeOK(x, j)'
  BY <1>1, <1>4 DEF AlikeOK
<1>6. CASE y # p \/ j # i
  <2>1. sending'[y][j] = sending[y][j] /\ sent'[y][j] = sent[y][j]
    BY <1>1, <1>2, <1>6
  <2>2. ChannelOK(x, j)'
    BY <1>1, <1>4, <2>1, ChannelStays
  <2>3. QED
    BY <1>5, <2>2
<1>7. CASE y = p /\ j = i
  <2> DEFINE b == begun[y]
             c == begun[x]
             k == Got(x, j)
             n == Sub(y, j)
             msgs == sent[y][j]
             s == sending[y][j]
  <2>1. b \in 1..3 /\ b = ended[y] + 1
    <3>1. b \in 0..3 /\ ended[y] \in 0..3
      BY <1>2, PhaseFacts
    <3>2. b = ended[y] + 1
      BY <1>1, <1>7
    <3>3. QED
      BY <3>1, <3>2
  <2>2. c <= b /\ c \in Nat /\ b \in Nat
    <3>1. c <= ended[y] + 1 /\ c \in 0..3
      BY <1>2, PhaseFacts
    <3>2. QED
      BY <2>1, <3>1
  <2>3. k \in Nat /\ n \in Nat /\ Channel(b, c, k, n, msgs)
    BY <1>2, <1>4, SubGot DEF ChannelOK
  <2>4. n = s /\ s # 0 /\ s \in Nat
    <3>1. s # 0 /\ s \in Nat
      BY <1>1, <1>7, SlotTypes
    <3>2. QED
      BY <2>1, <3>1 DEF Sub
  <2>5. Got(x, j)' = k
    BY <1>1, LimitStays DEF Got
  <2>6. begun'[y] = b /\ begun'[x] = c
    BY <1>1
  <2>8. CASE s < Repeat(y)
    <3>1. sending'[y][j] = s + 1 /\ sent'[y][j] = Append(msgs, <<b, s + 1>>)
      BY <1>1, <1>7, <2>8
    <3>2. Sub(y, j)' = s + 1
      <4>1. s + 1 # 0
        BY <2>4
      <4> HIDE DEF y, s, b
      <4>2. begun'[y] # 0
        BY <2>1, <2>6
      <4>3. QED
        BY <1>3, <3>1, <4>1, <4>2 DEF Sub
    <3> HIDE DEF b, c, k, n, msgs, s
    <3>3. Channel(b, c, k, s + 1, Append(msgs, <<b, s + 1>>))
      <4>1. s + 1 = n + 1
        BY <2>4
      <4>2. QED
        BY <2>2, <2>3, <4>1, ChannelSends
    <3> HIDE DEF y
    <3>4. ChannelOK(x, j)'
      BY <1>3, <2>5, <2>6, <3>1, <3>2, <3>3 DEF ChannelOK, y
    <3>5. QED
      BY <1>5, <3>4
  <2>9. CASE ~(s < Repeat(y))
    <3>1. sending'[y][j] = 0 /\ sent'[y][j] = msgs
      BY <1>1, <1>7, <2>9
    <3>2. Limit(b) = s
      <4>1. /\ Limit(b) \in Nat \ {0} /\ Repeat(y) \in Nat
            /\ Limit(b) = IF Repeat(y) = 0 THEN 1 ELSE Repeat(y)
        BY <1>2, <2>1, LimitIs
      <4>2. s <= Limit(b)
        <5>1. SlotOK(y, j) /\ b # ended[y]
          <6>1. b # ended[y]
            <7>1. ended[y] \in 0..3
              BY <1>2, PhaseFacts
            <7>2. QED
              BY <2>1, <7>1
          <6>2. QED
            BY <1>2, <6>1 DEF SlotInv
        <5>2. QED
          BY <5>1 DEF SlotOK
      <4> HIDE DEF s, b
      <4>3. QED
        BY <2>4, <2>9, <4>1, <4>2
    <3>3. Sub(y, j)' = n
      <4>1. Limit(begun'[y]) = s
        BY <2>6, <3>2
      <4>2. begun'[y] # 0
        BY <2>1, <2>6
      <4>3. \A z : Limit(z)' = Limit(z)
        BY <1>1, LimitStays
      <4> HIDE DEF y, s
      <4>4. Sub(y, j)' = s
        BY <1>3, <3>1, <4>1, <4>2, <4>3 DEF Sub
      <4>5. QED
        BY <2>4, <4>4 DEF y
    <3> HIDE DEF b, c, k, n, msgs, s, y
    <3>4. ChannelOK(x, j)'
      BY <1>3, <2>3, <2>5, <2>6, <3>1, <3>3 DEF ChannelOK, y
    <3>5. QED
      BY <1>5, <3>4
  <2>10. QED
    BY <2>8, <2>9
<1>8. QED
  BY <1>6, <1>7

LEMMA ChannelRecvCallback ==
  ASSUME Met, SlotInv, ChannelInv, NEW p \in Worker, NEW i \in Slot, recv_callback(p, i),
         NEW x \in Worker, NEW j \in Slot
  PROVE  ChannelOK(x, j)' /\ AlikeOK(x, j)'
<1> DEFINE y == Peer(x)
<1>1. /\ S' = S /\ begun' = begun /\ ended' = ended /\ sending' = sending /\ sent' = sent
      /\ begun[p] = ended[p] + 1 /\ arrived[p][i] # <<>> /\ arrived'[p][i] = <<>>
      /\ \A q \in Worker, k \in Slot : q # p \/ k # i =>
           arrived'[q][k] = arrived[q][k] /\ waiting'[q][k] = waiting[q][k]
      /\ \/ waiting[p][i] < Repeat(p) /\ waiting'[p][i] = waiting[p][i] + 1
         \/ ~(waiting[p][i] < Repeat(p)) /\ waiting'[p][i] = 0
  BY RecvCallbackDoes
<1>2. y \in Worker /\ y # x /\ Peer(y) = x
  BY PeerIs
<1>3. y' = y
  BY <1>1, PeerStays
<1>4. ChannelOK(x, j) /\ AlikeOK(x, j) /\ SlotOK(x, j)
  BY DEF ChannelInv, SlotInv
<1>5. CASE x # p \/ j # i
  <2>1. arrived'[x][j] = arrived[x][j] /\ waiting'[x][j] = waiting[x][j]
    BY <1>1, <1>5
  <2>2. ChannelOK(x, j)'
    BY <1>1, <1>4, <2>1, ChannelStays
  <2>3. AlikeOK(x, j)'
    BY <1>1, <1>4, <2>1 DEF AlikeOK
  <2>4. QED
    BY <2>2, <2>3
<1>6. CASE x = p /\ j = i
  <2> DEFINE c == begun[x]
             w == waiting[x][j]
  <2>1. c \in 1..3 /\ c = ended[x] + 1 /\ c # ended[x]
    <3>1. c \in 0..3 /\ ended[x] \in 0..3
      BY PhaseFacts
    <3>2. c = ended[x] + 1
      BY <1>1, <1>6
    <3>3. QED
      BY <3>1, <3>2
  <2>2. w # 0 /\ w \in Nat /\ w <= Limit(c)
    <3>1. w # 0
      BY <1>1, <1>4, <1>6 DEF SlotOK
    <3>2. w <= Limit(c)
      BY <1>4, <2>1 DEF SlotOK
    <3>3. QED
      BY <3>1, <3>2, SlotTypes
  <2>3. arrived[x][j] # <<>> /\ arrived'[x][j] = <<>> /\ begun'[x] = c
    BY <1>1, <1>6
  <2>4. Got(x, j) = w
    BY <2>1, <2>2, <2>3 DEF Got
  <2>5. Got(x, j)' = w
    <3>1. /\ Limit(c) \in Nat \ {0} /\ Repeat(x) \in Nat
          /\ Limit(c) = IF Repeat(x) = 0 THEN 1 ELSE Repeat(x)
      BY <2>1, LimitIs
    <3>2. \A z : Limit(z)' = Limit(z)
      BY <1>1, LimitStays
    <3>3. \/ w < Repeat(x) /\ waiting'[x][j] = w + 1
          \/ ~(w < Repeat(x)) /\ waiting'[x][j] = 0
      BY <1>1, <1>6
    <3> HIDE DEF w, c
    <3>4. CASE w < Repeat(x) /\ waiting'[x][j] = w + 1
      <4>1. w + 1 # 0 /\ (w + 1) - 1 = w
        BY <2>2
      <4>2. begun'[x] # 0
        BY <2>1, <2>3
      <4>3. QED
        BY <2>3, <3>4, <4>1, <4>2 DEF Got
    <3>5. CASE ~(w < Repeat(x)) /\ waiting'[x][j] = 0
      <4>1. Limit(c) = w
        BY <2>2, <3>1, <3>5
      <4>2. begun'[x] # 0
        BY <2>1, <2>3
      <4>3. QED
        BY <2>3, <3>2, <3>5, <4>1, <4>2 DEF Got
    <3>6. QED
      BY <3>3, <3>4, <3>5
  <2>6. AlikeOK(x, j)'
    BY <2>3 DEF AlikeOK
  <2>7. Sub(y, j)' = Sub(y, j)
    <3> HIDE DEF y
    <3>1. QED
      BY <1>1, <1>3, LimitStays DEF Sub
  <2>8. begun'[x] = begun[x] /\ begun'[y] = begun[y] /\ sent'[y][j] = sent[y][j]
    BY <1>1
  <2> HIDE DEF y, w, c
  <2>9. ChannelOK(x, j)'
    BY <1>3, <1>4, <2>4, <2>5, <2>7, <2>8 DEF ChannelOK, y
  <2>10. QED
    BY <2>6, <2>9
<1>7. QED
  BY <1>5, <1>6

LEMMA ChannelNext ==
  ASSUME TagsSuffice, Met, SlotInv, ChannelInv, [Next]_vars, S' = S
  PROVE  ChannelInv'
<1>0. Worker' = Worker /\ Slot' = Slot
  BY SetupStays
<1> SUFFICES ASSUME NEW x \in Worker, NEW j \in Slot PROVE ChannelOK(x, j)' /\ AlikeOK(x, j)'
  BY <1>0 DEF ChannelInv
<1>1. ChannelOK(x, j) /\ AlikeOK(x, j)
  BY DEF ChannelInv
<1>2. ASSUME UNCHANGED <<begun, sending, waiting, sent, arrived>> PROVE ChannelOK(x, j)' /\ AlikeOK(x, j)'
  <2>1. ChannelOK(x, j)'
    BY <1>1, <1>2, ChannelStays
  <2>2. AlikeOK(x, j)'
    BY <1>1, <1>2 DEF AlikeOK
  <2>3. QED
    BY <2>1, <2>2
<1>3. ASSUME NEW p \in Worker, wait_all(p) PROVE ChannelOK(x, j)' /\ AlikeOK(x, j)'
  BY <1>2, <1>3, WaitAllDoes
<1>4. ASSUME NEW p \in Worker, send_recv(p) PROVE ChannelOK(x, j)' /\ AlikeOK(x, j)'
  BY <1>4, ChannelSendRecv
<1>5. ASSUME NEW p \in Worker, NEW i \in Slot, Match(p, i) \/ send_callback(p, i) \/ recv_callback(p, i)
      PROVE  ChannelOK(x, j)' /\ AlikeOK(x, j)'
  BY <1>5, ChannelMatch, ChannelSendCallback, ChannelRecvCallback
<1>6. QED
  BY <1>2, <1>3, <1>4, <1>5, OthersDo

LEMMA InitChannels ==
  ASSUME Init
  PROVE  ChannelInv
<1> SUFFICES ASSUME NEW p \in Worker, NEW i \in Slot PROVE ChannelOK(p, i) /\ AlikeOK(p, i)
  BY DEF ChannelInv
<1>1. Peer(p) \in Worker
  <2>1. p[1] \in Rank /\ p[2] \in Tid /\ S \in Setups
    <3>1. S \in Setups
      BY DEF Init
    <3>2. QED
      BY <3>1, WorkerIsProcess, ProcessIs
  <2>2. S.ranks \in Nat \ {0} /\ S.ranks % 2 = 0
    BY <2>1, SetupParts DEF Rank
  <2>3. m_peer_rank(p[1]) \in Rank
    <3>1. p[1] + (S.ranks \div 2) + S.ranks \in Int
      BY <2>1, <2>2 DEF Rank
    <3>2. m_peer_rank(p[1]) \in 0..(S.ranks - 1)
      BY <2>2, <3>1 DEF m_peer_rank
    <3>3. QED
      BY <3>2 DEF Rank
  <2>4. QED
    BY <2>1, <2>3 DEF Peer, Worker, WorkerOf, Rank, Tid
<1>2. begun[p] = 0 /\ begun[Peer(p)] = 0 /\ arrived[p][i] = <<>> /\ sent[Peer(p)][i] = <<>>
  BY <1>1 DEF Init
<1>3. Got(p, i) = 0 /\ Sub(Peer(p), i) = 0
  BY <1>2 DEF Got, Sub
<1>4. IsMessages(<<>>, 0, 0, 0)
  BY EmptyMessages
<1>5. QED
  BY <1>2, <1>3, <1>4 DEF ChannelOK, AlikeOK, Channel

-----------------------------------------------------------------------------
(***************************************************************************)
(* submitted counts what the slots of a thread have submitted in this phase.   *)
(***************************************************************************)
Submitted(p) == {x \in Slot \X (Nat \ {0}) : x[2] <= Sub(p, x[1])}

Counts(s, n) == IsFiniteSet(s) /\ Cardinality(s) = n

SubmittedInv == \A p \in Worker : Counts(Submitted(p), submitted[p])

LEMMA CountOneMore ==
  ASSUME NEW s, NEW n \in Nat, Counts(s, n), NEW x, x \notin s
  PROVE  Counts(s \cup {x}, n + 1)
  BY FS_AddElement DEF Counts

\* A slot that submits another message
LEMMA OneMoreSubmitted ==
  ASSUME NEW A, NEW f, NEW g, NEW i \in A, \A j \in A : f[j] \in Nat,
         g[i] = f[i] + 1, \A j \in A : j # i => g[j] = f[j],
         NEW n \in Nat, Counts({x \in A \X (Nat \ {0}) : x[2] <= f[x[1]]}, n)
  PROVE  Counts({x \in A \X (Nat \ {0}) : x[2] <= g[x[1]]}, n + 1)
<1> DEFINE s == {x \in A \X (Nat \ {0}) : x[2] <= f[x[1]]}
           t == {x \in A \X (Nat \ {0}) : x[2] <= g[x[1]]}
           m == f[i] + 1
           y == <<i, m>>
<1>1. m \in Nat \ {0} /\ y \in A \X (Nat \ {0}) /\ y[1] = i /\ y[2] = m
  OBVIOUS
<1>2. y \notin s
  BY <1>1
<1>3. ASSUME NEW x \in A \X (Nat \ {0}) PROVE x[2] <= g[x[1]] <=> x[2] <= f[x[1]] \/ x = y
  <2>1. x[1] \in A /\ x[2] \in Nat \ {0} /\ x = <<x[1], x[2]>>
    OBVIOUS
  <2>2. CASE x[1] = i
    <3>1. x = y <=> x[2] = m
      BY <2>1, <2>2
    <3>2. x[2] <= m <=> x[2] <= f[i] \/ x[2] = m
      BY <2>1
    <3>3. QED
      BY <2>2, <3>1, <3>2
  <2>3. CASE x[1] # i
    <3>1. x # y
      BY <2>3
    <3>2. g[x[1]] = f[x[1]]
      BY <2>1, <2>3
    <3>3. QED
      BY <3>1, <3>2
  <2>4. QED
    BY <2>2, <2>3
<1>4. t = s \cup {y}
  BY <1>1, <1>3
<1> HIDE DEF s, t, y
<1>5. Counts(s \cup {y}, n + 1)
  BY <1>2, CountOneMore DEF s
<1>6. QED
  BY <1>4, <1>5 DEF t

\* All slots have submitted m messages.
LEMMA EqualSubmitted ==
  ASSUME NEW w \in Nat, NEW g, NEW m \in Nat, \A j \in 0..(w - 1) : g[j] = m
  PROVE  Counts({x \in (0..(w - 1)) \X (Nat \ {0}) : x[2] <= g[x[1]]}, w * m)
<1> DEFINE t == {x \in (0..(w - 1)) \X (Nat \ {0}) : x[2] <= g[x[1]]}
<1>1. t = (0..(w - 1)) \X (1..m)
  OBVIOUS
<1>2. IsFiniteSet(0..(w - 1)) /\ Cardinality(0..(w - 1)) = w
  BY FS_Interval
<1>3. IsFiniteSet(1..m) /\ Cardinality(1..m) = m
  BY FS_Interval
<1>4. IsFiniteSet((0..(w - 1)) \X (1..m)) /\ Cardinality((0..(w - 1)) \X (1..m)) = w * m
  <2> DEFINE A == 0..(w - 1)
             B == 1..m
  <2>1. IsFiniteSet(A) /\ Cardinality(A) = w /\ IsFiniteSet(B) /\ Cardinality(B) = m
    BY <1>2, <1>3
  <2> HIDE DEF A, B
  <2>2. IsFiniteSet(A \X B) /\ Cardinality(A \X B) = Cardinality(A) * Cardinality(B)
    BY <2>1, FS_Product
  <2>3. QED
    BY <2>1, <2>2 DEF A, B
<1>5. QED
  BY <1>1, <1>4 DEF Counts

LEMMA SubmittedIs ==
  ASSUME NEW p
  PROVE  Submitted(p) = {x \in Slot \X (Nat \ {0}) : x[2] <= [j \in Slot |-> Sub(p, j)][x[1]]}
  BY DEF Submitted

\* A thread whose slots submit nothing
LEMMA SubmittedStays ==
  ASSUME S' = S, NEW p, Counts(Submitted(p), submitted[p]), submitted'[p] = submitted[p],
         \A j \in Slot : Sub(p, j)' = Sub(p, j)
  PROVE  Counts(Submitted(p), submitted[p])'
<1>1. Slot' = Slot
  BY SetupStays
<1>2. Submitted(p)' = Submitted(p)
  BY <1>1 DEF Submitted
<1>3. QED
  BY <1>2 DEF Counts

LEMMA SubmittedSendRecv ==
  ASSUME Met, NEW p \in Worker, send_recv(p)
  PROVE  Counts(Submitted(p), submitted[p])'
<1>1. /\ S' = S /\ begun'[p] = begun[p] + 1 /\ submitted'[p] = S.window
      /\ \A j \in Slot : sending'[p][j] = 1
  BY SendRecvDoes
<1>2. begun[p] + 1 # 0
  BY PhaseFacts
<1>3. \A j \in Slot : Sub(p, j)' = 1
  BY <1>1, <1>2 DEF Sub
<1>4. S.window \in Nat /\ Slot = 0..(S.window - 1) /\ Slot' = Slot
  BY <1>1, MetParts, SetupStays DEF Slot
<1> DEFINE g == [j \in Slot |-> 1]
           w == S.window
<1>5. Counts({x \in (0..(w - 1)) \X (Nat \ {0}) : x[2] <= g[x[1]]}, w * 1)
  <2>1. \A j \in 0..(w - 1) : g[j] = 1
    BY <1>4
  <2> HIDE DEF g, w
  <2>2. w \in Nat
    BY <1>4 DEF w
  <2>3. QED
    BY <2>1, <2>2, EqualSubmitted
<1>6. Submitted(p)' = {x \in (0..(w - 1)) \X (Nat \ {0}) : x[2] <= g[x[1]]}
  BY <1>3, <1>4 DEF Submitted
<1>7. w * 1 = submitted'[p]
  BY <1>1, <1>4
<1> HIDE DEF w, g
<1>8. QED
  BY <1>5, <1>6, <1>7 DEF Counts

LEMMA SubmittedSendCallback ==
  ASSUME Met, SlotInv, NEW p \in Worker, NEW i \in Slot, send_callback(p, i),
         Counts(Submitted(p), submitted[p])
  PROVE  Counts(Submitted(p), submitted[p])'
<1>1. /\ S' = S /\ begun' = begun /\ begun[p] = ended[p] + 1 /\ sending[p][i] # 0
      /\ \A j \in Slot : j # i => sending'[p][j] = sending[p][j]
      /\ \/ /\ sending[p][i] < Repeat(p) /\ sending'[p][i] = sending[p][i] + 1
            /\ submitted'[p] = submitted[p] + 1
         \/ /\ ~(sending[p][i] < Repeat(p)) /\ sending'[p][i] = 0
            /\ submitted' = submitted
  BY SendCallbackDoes
<1>2. sending[p][i] \in Nat /\ submitted[p] \in Nat /\ begun[p] \in 1..3 /\ Slot' = Slot
  <2>1. begun[p] \in 0..3 /\ ended[p] \in 0..3
    BY PhaseFacts
  <2>2. QED
    BY <1>1, <2>1, SlotTypes, SetupStays
<1>3. \A j \in Slot : j # i => Sub(p, j)' = Sub(p, j)
  BY <1>1, SubStays
<1>4. Sub(p, i) = sending[p][i]
  BY <1>1, <1>2 DEF Sub
<1>5. CASE sending[p][i] < Repeat(p)
  <2> DEFINE f == [j \in Slot |-> Sub(p, j)]
             g == [j \in Slot |-> Sub(p, j)']
             n == submitted[p]
  <2>1. Sub(p, i)' = sending[p][i] + 1
    <3>1. sending'[p][i] = sending[p][i] + 1 /\ sending'[p][i] # 0 /\ begun'[p] # 0
      BY <1>1, <1>2, <1>5
    <3>2. QED
      BY <3>1 DEF Sub
  <2>2. g[i] = f[i] + 1 /\ \A j \in Slot : j # i => g[j] = f[j]
    BY <1>3, <1>4, <2>1
  <2>3. \A j \in Slot : f[j] \in Nat
    BY SubGot
  <2>4. Counts({x \in Slot \X (Nat \ {0}) : x[2] <= f[x[1]]}, n)
    BY SubmittedIs
  <2>5. Submitted(p)' = {x \in Slot \X (Nat \ {0}) : x[2] <= g[x[1]]}
    BY <1>2 DEF Submitted
  <2> HIDE DEF f, g, n
  <2>6. Counts({x \in Slot \X (Nat \ {0}) : x[2] <= g[x[1]]}, n + 1)
    <3>1. n \in Nat
      BY <1>2 DEF n
    <3>2. QED
      BY <2>2, <2>3, <2>4, <3>1, OneMoreSubmitted
  <2>7. submitted'[p] = n + 1
    BY <1>1, <1>5 DEF n
  <2>8. QED
    BY <2>5, <2>6, <2>7 DEF Counts
<1>6. CASE ~(sending[p][i] < Repeat(p))
  <2>1. Limit(begun[p]) = sending[p][i]
    <3> DEFINE l == Limit(begun[p])
               s == sending[p][i]
               r == Repeat(p)
    <3>1. l \in Nat /\ r \in Nat /\ l = IF r = 0 THEN 1 ELSE r
      BY <1>2, LimitIs
    <3>2. s <= l
      <4>1. begun[p] # ended[p]
        BY <1>1, PhaseFacts
      <4>2. QED
        BY <4>1 DEF SlotInv, SlotOK
    <3>3. s \in Nat /\ s # 0 /\ ~(s < r)
      BY <1>1, <1>2, <1>6
    <3> HIDE DEF l, s, r
    <3>4. l = s
      BY <3>1, <3>2, <3>3
    <3>5. QED
      BY <3>4 DEF l, s
  <2>2. Sub(p, i)' = Sub(p, i)
    <3>1. Limit(begun[p])' = Limit(begun[p])
      BY <1>1 DEF Limit
    <3>2. sending'[p][i] = 0 /\ begun'[p] # 0
      BY <1>1, <1>2, <1>6
    <3>3. QED
      BY <1>4, <2>1, <3>1, <3>2 DEF Sub
  <2>3. submitted'[p] = submitted[p]
    BY <1>1, <1>6
  <2>4. \A j \in Slot : Sub(p, j)' = Sub(p, j)
    BY <1>3, <2>2
  <2>5. QED
    BY <1>1, <2>3, <2>4, SubmittedStays
<1>7. QED
  BY <1>5, <1>6

LEMMA SubmittedNext ==
  ASSUME Met, SlotInv, SubmittedInv, [Next]_vars, S' = S
  PROVE  SubmittedInv'
<1>0. Worker' = Worker /\ Slot' = Slot
  BY SetupStays
<1> SUFFICES ASSUME NEW x \in Worker PROVE Counts(Submitted(x), submitted[x])'
  BY <1>0 DEF SubmittedInv
<1>1. Counts(Submitted(x), submitted[x])
  BY DEF SubmittedInv
<1>2. ASSUME begun'[x] = begun[x], submitted'[x] = submitted[x],
             \A j \in Slot : sending'[x][j] = sending[x][j]
      PROVE  Counts(Submitted(x), submitted[x])'
  <2>1. \A j \in Slot : Sub(x, j)' = Sub(x, j)
    BY <1>2, SubStays
  <2>2. QED
    BY <1>1, <1>2, <2>1, SubmittedStays
<1>3. ASSUME NEW p \in Worker, send_recv(p) PROVE Counts(Submitted(x), submitted[x])'
  <2>1. CASE x = p
    BY <1>3, <2>1, SubmittedSendRecv
  <2>2. CASE x # p
    <3>1. begun'[x] = begun[x] /\ submitted'[x] = submitted[x] /\ \A j \in Slot : Same(x, j)
      BY <1>3, <2>2, SendRecvDoes
    <3>2. QED
      BY <1>2, <3>1 DEF Same
  <2>3. QED
    BY <2>1, <2>2
<1>4. ASSUME NEW p \in Worker, wait_all(p) PROVE Counts(Submitted(x), submitted[x])'
  BY <1>2, <1>4, WaitAllDoes
<1>5. ASSUME NEW p \in Worker, NEW i \in Slot, Match(p, i) PROVE Counts(Submitted(x), submitted[x])'
  BY <1>2, <1>5 DEF Match, phases, slots
<1>6. ASSUME NEW p \in Worker, NEW i \in Slot, send_callback(p, i) PROVE Counts(Submitted(x), submitted[x])'
  <2>1. CASE x = p
    BY <1>1, <1>6, <2>1, SubmittedSendCallback
  <2>2. CASE x # p
    <3>1. /\ begun' = begun /\ \A j \in Slot : sending'[x][j] = sending[x][j]
          /\ submitted'[x] = submitted[x]
      BY <1>6, <2>2, SendCallbackDoes
    <3>2. QED
      BY <1>2, <3>1
  <2>3. QED
    BY <2>1, <2>2
<1>7. ASSUME NEW p \in Worker, NEW i \in Slot, recv_callback(p, i) PROVE Counts(Submitted(x), submitted[x])'
  BY <1>2, <1>7, RecvCallbackDoes
<1>8. QED
  BY <1>2, <1>3, <1>4, <1>5, <1>6, <1>7, OthersDo

LEMMA InitSubmitted ==
  ASSUME Init
  PROVE  SubmittedInv
<1> SUFFICES ASSUME NEW p \in Worker PROVE Counts(Submitted(p), submitted[p])
  BY DEF SubmittedInv
<1>1. begun[p] = 0 /\ submitted[p] = 0
  BY DEF Init
<1>2. \A i \in Slot : Sub(p, i) = 0
  BY <1>1 DEF Sub
<1>3. Submitted(p) = {}
  BY <1>2 DEF Submitted
<1>4. QED
  BY <1>1, <1>3, FS_EmptySet DEF Counts

-----------------------------------------------------------------------------
(***************************************************************************)
(* The sum over a set of a number that is the same everywhere: what            *)
(* MapThenSumSet computes is a function of the subsets.                       *)
(***************************************************************************)
Adds(g, W, m) ==
    g = [T \in SUBSET W |-> IF T = {} THEN 0 ELSE m + g[T \ {CHOOSE x \in T : TRUE}]]

LEMMA SmallerSubset ==
  ASSUME NEW W, IsFiniteSet(W), NEW T \in SUBSET W, T # {}
  PROVE  LET x == CHOOSE y \in T : TRUE
         IN  /\ x \in W /\ T \ {x} \in SUBSET W
             /\ Cardinality(T \ {x}) \in Nat /\ Cardinality(T) = Cardinality(T \ {x}) + 1
<1> DEFINE x == CHOOSE y \in T : TRUE
<1>1. x \in T
  OBVIOUS
<1> HIDE DEF x
<1>2. IsFiniteSet(T)
  BY FS_Subset
<1>3. Cardinality(T \ {x}) = Cardinality(T) - 1 /\ IsFiniteSet(T \ {x})
  BY <1>1, <1>2, FS_RemoveElement
<1>4. Cardinality(T \ {x}) \in Nat /\ Cardinality(T) \in Nat
  BY <1>2, <1>3, FS_CardinalityType
<1>5. x \in W /\ T \ {x} \in SUBSET W
  BY <1>1
<1>6. QED
  BY <1>3, <1>4, <1>5 DEF x

LEMMA AddsIs ==
  ASSUME NEW W, IsFiniteSet(W), NEW m \in Nat, NEW g, Adds(g, W, m)
  PROVE  g[W] = m * Cardinality(W)
<1> DEFINE Bad == {n \in Nat : \E T \in SUBSET W : Cardinality(T) = n /\ g[T] # m * n}
<1>1. CASE Bad = {}
  <2>1. Cardinality(W) \in Nat
    BY FS_CardinalityType
  <2>2. QED
    BY <1>1, <2>1
<1>2. CASE Bad # {}
  <2>1. PICK n \in Bad : \A k \in Bad : n <= k
    <3>1. Bad \subseteq Nat
      OBVIOUS
    <3> HIDE DEF Bad
    <3>2. QED
      BY <1>2, <3>1, LeastElement
  <2>2. n \in Nat
    OBVIOUS
  <2>3. PICK T \in SUBSET W : Cardinality(T) = n /\ g[T] # m * n
    OBVIOUS
  <2>4. T # {}
    <3>1. SUFFICES ASSUME T = {} PROVE FALSE
      OBVIOUS
    <3>2. g[T] = 0
      BY <3>1 DEF Adds
    <3>3. n = 0
      BY <3>1, <2>3, FS_EmptySet
    <3>4. QED
      BY <3>2, <3>3, <2>3
  <2> DEFINE x == CHOOSE y \in T : TRUE
             U == T \ {x}
             c == Cardinality(U)
  <2>5. g[T] = m + g[U]
    BY <2>4 DEF Adds
  <2>6. U \in SUBSET W /\ c \in Nat /\ n = c + 1
    BY <2>3, <2>4, SmallerSubset
  <2>7. g[U] = m * c
    <3>1. c \notin Bad
      <4> HIDE DEF Bad, c
      <4>1. QED
        BY <2>1, <2>2, <2>6
    <3>2. QED
      BY <2>6, <3>1
  <2>8. m * (c + 1) = m + m * c
    <3> HIDE DEF c
    <3>1. QED
      BY <2>6
  <2>9. QED
    BY <2>3, <2>5, <2>6, <2>7, <2>8
<1>3. QED
  BY <1>1, <1>2

LEMMA AddsExists ==
  ASSUME NEW W, IsFiniteSet(W), NEW m \in Nat
  PROVE  \E g : Adds(g, W, m)
<1> DEFINE g == [T \in SUBSET W |-> m * Cardinality(T)]
           F(T) == IF T = {} THEN 0 ELSE m + g[T \ {CHOOSE x \in T : TRUE}]
<1>1. ASSUME NEW T \in SUBSET W PROVE m * Cardinality(T) = F(T)
  <2>1. CASE T = {}
    BY <2>1, FS_EmptySet
  <2>2. CASE T # {}
    <3> DEFINE x == CHOOSE y \in T : TRUE
               U == T \ {x}
               c == Cardinality(U)
    <3>1. U \in SUBSET W /\ c \in Nat /\ Cardinality(T) = c + 1
      BY <2>2, SmallerSubset
    <3>2. g[U] = m * c
      BY <3>1
    <3>3. m * (c + 1) = m + m * c
      <4> HIDE DEF c
      <4>1. QED
        BY <3>1
    <3>4. QED
      BY <2>2, <3>1, <3>2, <3>3
  <2>3. QED
    BY <2>1, <2>2
<1>2. g = [T \in SUBSET W |-> F(T)]
  BY <1>1
<1>3. Adds(g, W, m)
  BY <1>2 DEF Adds
<1>4. QED
  BY <1>3

SumOf(f, W) == MapThenSumSet(LAMBDA x : f[x], W)

LEMMA SumOfEqual ==
  ASSUME NEW W, IsFiniteSet(W), NEW f, NEW m \in Nat, \A x \in W : f[x] = m
  PROVE  SumOf(f, W) = m * Cardinality(W)
<1> DEFINE Eq(g) == g = [T \in SUBSET W |-> IF T = {} THEN 0
                                            ELSE f[CHOOSE x \in T : TRUE] + g[T \ {CHOOSE x \in T : TRUE}]]
<1>1. \A g : Eq(g) <=> Adds(g, W, m)
  <2> SUFFICES ASSUME NEW g PROVE Eq(g) <=> Adds(g, W, m)
    OBVIOUS
  <2>1. ASSUME NEW T \in SUBSET W, T # {} PROVE f[CHOOSE x \in T : TRUE] = m
    BY <2>1
  <2>2. QED
    BY <2>1 DEF Adds
<1>2. \E g : Eq(g)
  BY <1>1, AddsExists
<1> DEFINE G == CHOOSE g : Eq(g)
<1>3. Eq(G)
  BY <1>2
<1>4. G[W] = m * Cardinality(W)
  <2> HIDE DEF G, Eq
  <2>1. QED
    BY <1>1, <1>3, AddsIs
<1>5. SumOf(f, W) = G[W]
  BY DEF SumOf, MapThenSumSet, MapThenFoldSet
<1>6. QED
  BY <1>4, <1>5

-----------------------------------------------------------------------------
(***************************************************************************)
(* The report.  Main makes it after the MPI barrier that the main threads of   *)
(* all ranks enter when the second batch of all their workers is done.         *)
(***************************************************************************)
SomethingSent == \A s \in Setups : s.nrep # 0

LEMMA ReportStages ==
  ASSUME Met, NEW p \in Main, At(p) = "report", NEW q \in Worker
  PROVE  stage[q] >= 17 /\ begun[q] = 3 /\ ended[q] = 3
<1> DEFINE r == p[1]
           z == <<r, 0>>
           u == stage[z]
           m == MainOf(r)
           n == 2 * S.ranks
<1>1. Placed /\ S \in Setups /\ S.ranks \in Nat /\ S.threads \in Nat \ {0} /\ n \in Nat
  BY MetParts
<1>2. r \in Rank /\ p = m
  <2>1. p \in Process
    BY DEF Process
  <2>2. QED
    BY <1>1, <2>1, ProcessIs DEF MainOf
<1>3. place[m] = 6
  <2>1. place[m] \in 1..10 /\ MainScript[place[m]] = "report"
    BY <1>1, <1>2, AtMain
  <2> HIDE DEF m
  <2>2. \A k \in 1..10 : MainScript[k] = "report" => k = 6
    BY DEF MainScript
  <2>3. QED
    BY <2>1, <2>2
<1>4. z \in Worker /\ z[1] = r /\ z[2] = 0
  BY <1>1, <1>2, RankMpis
<1>5. u >= 17 /\ u \in 0..19
  <2>1. u \in 0..19
    BY <1>1, <1>4, AtStage
  <2>2. place[m] >= 4
    BY <1>3
  <2> HIDE DEF z, r, m
  <2>3. stage[z] >= 17
    BY <1>2, <1>4, <2>2, MainStage DEF m
  <2>4. QED
    BY <2>1, <2>3
<1>6. mpis[r] = n + 3
  <2>1. mpis[r] = Mpis(S.ranks, S.threads, r, place[z])
    BY <1>1, <1>2, RankMpis
  <2>2. u = StageAt(S.ranks, S.threads, 0, place[z])
    BY <1>4 DEF stage
  <2>3. place[z] > LocalityLen(S.ranks, S.threads, 0)
    BY <1>1, <1>4, <1>5, AtStage
  <2>4. place[z] \in Nat \ {0} /\ LocalityLen(S.ranks, S.threads, 0) \in Nat
    BY <1>1, <1>4, AtStage DEF LocalityLen, RoundLen
  <2> HIDE DEF u, z, r, n
  <2>5. MpisAt(u) = 3
    BY <1>5 DEF MpisAt
  <2>6. QED
    BY <2>1, <2>2, <2>3, <2>4, <2>5 DEF Mpis, n
<1>7. q[1] \in Rank /\ stage[q] \in 0..19
  BY <1>1, AtStage
<1>8. mpi[q[1]] >= n + 4
  <2>1. Passed(r) <= mpi[q[1]]
    BY <1>2, <1>7 DEF Met, SyncInv, MpiSync
  <2>2. MainMpis(place[m]) = 1
    BY <1>3 DEF MainMpis
  <2>3. Passed(r) = n + 4
    BY <1>1, <1>6, <2>2 DEF Passed
  <2>4. QED
    BY <2>1, <2>3
<1>9. stage[q] >= 17
  BY <1>8, FromMpiToStage
<1>10. begun[q] = BegunAt(stage[q]) /\ ended[q] = EndedAt(stage[q])
  BY DEF Met, Counted, CountInv, StagesInv
<1>11. QED
  BY <1>7, <1>9, <1>10 DEF BegunAt, EndedAt

LEMMA ReportSlots ==
  ASSUME SomethingSent, Met, SlotInv, ChannelInv, NEW p \in Main, At(p) = "report",
         NEW q \in Worker, NEW i \in Slot
  PROVE  /\ sent[q][i] = <<>> /\ arrived[q][i] = <<>> /\ waiting[q][i] = 0
         /\ Sub(q, i) = S.nrep
<1>1. \A x \in Worker : begun[x] = 3 /\ ended[x] = 3
  BY ReportStages
<1>2. S.nrep \in Nat \ {0}
  BY MetParts, SetupParts DEF SomethingSent
<1>3. Limit(3) = S.nrep
  BY <1>2 DEF Limit
<1>4. waiting[q][i] = 0 /\ arrived[q][i] = <<>>
  BY <1>1 DEF SlotInv, SlotOK
<1>5. \A x \in Worker : Sub(x, i) = S.nrep /\ Got(x, i) = S.nrep
  BY <1>1, <1>3, EndedCounts
<1> DEFINE y == Peer(q)
<1>6. y \in Worker /\ Peer(y) = q
  BY PeerIs
<1> HIDE DEF y
<1>7. Channel(3, 3, S.nrep, S.nrep, sent[q][i])
  <2>1. ChannelOK(y, i)
    BY <1>6 DEF ChannelInv
  <2>2. QED
    BY <1>1, <1>5, <1>6, <2>1 DEF ChannelOK
<1>8. sent[q][i] = <<>>
  <2>1. IsMessages(sent[q][i], 3, S.nrep, S.nrep)
    BY <1>7 DEF Channel
  <2>2. sent[q][i] \in Seq(Nat \X Nat) /\ Len(sent[q][i]) = 0
    BY <1>2, <2>1 DEF IsMessages
  <2>3. QED
    BY <2>2, EmptySeq
<1>9. QED
  BY <1>4, <1>5, <1>8

LEMMA Below ==
  ASSUME NEW n \in Nat
  PROVE  IsFiniteSet(0..(n - 1)) /\ Cardinality(0..(n - 1)) = n
  BY FS_Interval

LEMMA FourFactors == ASSUME NEW a \in Nat, NEW b \in Nat, NEW c \in Nat, NEW d \in Nat
                     PROVE  (c * d) * (a * b) = a * b * c * d
  OBVIOUS

LEMMA Reported ==
  ASSUME SomethingSent, Met, SlotInv, ChannelInv, SubmittedInv
  PROVE  ReportIsRight
<1> SUFFICES ASSUME NEW p \in Main, At(p) = "report"
             PROVE  /\ \A q \in Worker, i \in Slot : /\ sent[q][i] = <<>> /\ arrived[q][i] = <<>>
                                                     /\ waiting[q][i] = 0
                    /\ MapThenSumSet(LAMBDA x : submitted[x], Worker) = num_msgs
  BY DEF ReportIsRight, Reporting
<1>1. \A q \in Worker, i \in Slot : sent[q][i] = <<>> /\ arrived[q][i] = <<>> /\ waiting[q][i] = 0
  BY ReportSlots
<1>2. S.ranks \in Nat /\ S.threads \in Nat \ {0} /\ S.window \in Nat \ {0} /\ S.nrep \in Nat
  BY MetParts, SetupParts
<1> DEFINE w == S.window
           m == S.nrep
<1>3. ASSUME NEW q \in Worker PROVE submitted[q] = w * m
  <2> DEFINE g == [j \in Slot |-> Sub(q, j)]
  <2>1. Counts(Submitted(q), submitted[q])
    BY DEF SubmittedInv
  <2>2. Submitted(q) = {x \in Slot \X (Nat \ {0}) : x[2] <= g[x[1]]}
    BY SubmittedIs
  <2>3. \A j \in Slot : g[j] = m
    BY ReportSlots
  <2>4. Slot = 0..(w - 1) /\ w \in Nat /\ m \in Nat
    BY <1>2 DEF Slot
  <2> HIDE DEF g, w, m
  <2>5. Counts({x \in (0..(w - 1)) \X (Nat \ {0}) : x[2] <= g[x[1]]}, w * m)
    BY <2>3, <2>4, EqualSubmitted
  <2>6. QED
    BY <2>1, <2>2, <2>4, <2>5 DEF Counts
<1>4. IsFiniteSet(Worker) /\ Cardinality(Worker) = S.ranks * S.threads
  <2> DEFINE A == 0..(S.ranks - 1)
             B == 0..(S.threads - 1)
  <2>1. /\ IsFiniteSet(A) /\ Cardinality(A) = S.ranks
        /\ IsFiniteSet(B) /\ Cardinality(B) = S.threads
    BY <1>2, Below
  <2>2. Worker = A \X B
    BY DEF Worker, WorkerOf
  <2> HIDE DEF A, B
  <2>3. IsFiniteSet(A \X B) /\ Cardinality(A \X B) = Cardinality(A) * Cardinality(B)
    BY <2>1, FS_Product
  <2>4. QED
    BY <2>1, <2>2, <2>3
<1>5. MapThenSumSet(LAMBDA x : submitted[x], Worker) = (w * m) * Cardinality(Worker)
  <2>1. w * m \in Nat
    BY <1>2
  <2> HIDE DEF w, m
  <2>2. SumOf(submitted, Worker) = (w * m) * Cardinality(Worker)
    BY <1>3, <1>4, <2>1, SumOfEqual
  <2>3. MapThenSumSet(LAMBDA x : submitted[x], Worker) = SumOf(submitted, Worker)
    BY DEF SumOf
  <2>4. QED
    BY <2>2, <2>3
<1>6. (w * m) * (S.ranks * S.threads) = S.ranks * S.threads * w * m
  <2>1. w \in Nat /\ m \in Nat /\ S.ranks \in Nat /\ S.threads \in Nat
    BY <1>2
  <2> HIDE DEF w, m
  <2>2. QED
    BY <2>1, FourFactors
<1>7. MapThenSumSet(LAMBDA x : submitted[x], Worker) = num_msgs
  <2> HIDE DEF w, m
  <2>1. MapThenSumSet(LAMBDA x : submitted[x], Worker) = S.ranks * S.threads * w * m
    BY <1>4, <1>5, <1>6
  <2>2. QED
    BY <2>1 DEF num_msgs, w, m
<1>8. QED
  BY <1>1, <1>7

-----------------------------------------------------------------------------
(***************************************************************************)
(* The theorems.  Inv is inductive; ChannelInv is so as well where no two      *)
(* slots of a rank have the same tag.                                        *)
(***************************************************************************)
Inv == Met /\ RowsInv /\ RowsInOrder /\ SlotInv /\ SubmittedInv

LEMMA InitInv == Init => Inv
<1> SUFFICES ASSUME Init PROVE Inv
  OBVIOUS
<1>1. Met
  BY InitPlaced, InitCounts, InitSync DEF Met, Counted, Placed
<1>2. QED
  BY <1>1, InitRows, InitSlots, InitSubmitted DEF Inv

LEMMA InvNext == Inv /\ [Next]_vars => Inv' /\ S' = S
<1> SUFFICES ASSUME Inv, [Next]_vars PROVE Inv' /\ S' = S
  OBVIOUS
<1>1. Met /\ Placed /\ CountInv /\ SyncInv
  BY DEF Inv, Met, Counted
<1>2. S' = S /\ Placed'
  BY <1>1, NextPlaced
<1>3. CountInv' /\ SyncInv'
  BY <1>1, CountNext, SyncNext DEF Counted
<1>4. RowsInv' /\ RowsInOrder'
  BY RowsNext DEF Inv
<1>5. SlotInv' /\ SubmittedInv'
  BY <1>2, SlotNext, SubmittedNext DEF Inv
<1>6. QED
  BY <1>2, <1>3, <1>4, <1>5 DEF Inv, Met, Counted

THEOREM Invariance == Spec => []Inv
<1>1. Init => Inv
  BY InitInv
<1>2. Inv /\ [Next]_vars => Inv'
  BY InvNext
<1>3. QED
  BY <1>1, <1>2, PTL DEF Spec

(***************************************************************************)
(* No process leaves its script, and every slot counts to the repetitions of   *)
(* its phase with room for one message.                                      *)
(***************************************************************************)
THEOREM TypeCorrect == Spec => []TypeOK
<1>1. Inv => TypeOK
  BY TypesOK DEF Inv
<1>2. QED
  BY <1>1, Invariance, PTL

(***************************************************************************)
(* The lines of the locality table come in the order of ranks and threads      *)
(* (print_locality, benchmark.cpp:72-94), whatever the setup.                 *)
(***************************************************************************)
THEOREM TableInOrder == Spec => []RowsInOrder
<1>1. Inv => RowsInOrder
  BY DEF Inv
<1>2. QED
  BY <1>1, Invariance, PTL

(***************************************************************************)
(* No thread of any rank begins a phase that another has not let go: check,    *)
(* warm_up and main_loop do not overlap (benchmark.cpp:131-133, 164-166,       *)
(* 179-181).                                                                *)
(***************************************************************************)
THEOREM NoPhaseOverlaps == Spec => []PhasesApart
<1>1. Inv => PhasesApart
  BY Apart DEF Inv, PhasesApart
<1>2. QED
  BY <1>1, Invariance, PTL

(***************************************************************************)
(* Where tags tell slots apart, and they do not for more than a thousand       *)
(* threads with several slots each, the n-th receive of a phase gets the n-th   *)
(* message of that phase.                                                   *)
(***************************************************************************)
LEMMA ChannelInvariance ==
  ASSUME TagsSuffice
  PROVE  Spec => []ChannelInv
<1>1. Init => Inv /\ ChannelInv
  BY InitInv, InitChannels
<1>2. Inv /\ ChannelInv /\ [Next]_vars => Inv' /\ ChannelInv'
  BY InvNext, ChannelNext DEF Inv
<1>3. QED
  BY <1>1, <1>2, PTL DEF Spec

THEOREM MessagesMatch ==
  ASSUME TagsSuffice
  PROVE  Spec => []MatchedAlike
<1>1. ChannelInv => MatchedAlike
  BY DEF ChannelInv, AlikeOK, MatchedAlike
<1>2. QED
  BY <1>1, ChannelInvariance, PTL

(***************************************************************************)
(* When main reports, every message has been received and there were as many   *)
(* as it says (benchmark.cpp:236, 248, 258); for nrep 0 it says none, and one   *)
(* per slot has been sent.                                                  *)
(***************************************************************************)
THEOREM ReportTrue ==
  ASSUME TagsSuffice, SomethingSent
  PROVE  Spec => []ReportIsRight
<1>1. Inv /\ ChannelInv => ReportIsRight
  BY Reported DEF Inv
<1>2. QED
  BY <1>1, Invariance, ChannelInvariance, PTL
=============================================================================
