--------------------------- MODULE DriverProofs ---------------------------
(***************************************************************************)
(* Proofs about Driver for every number of ranks, every set of options and    *)
(* every number of threads, repetitions and warm-up steps.                    *)
(*                                                                         *)
(* The programs of Driver are sequences put together from parts.  The first    *)
(* half of the module says what is in them: where main synchronises, waits     *)
(* and destroys, and what its n-th operation may be.  Then the state of a rank  *)
(* is a function of how far its threads are in their programs (StateInv), the   *)
(* calls a rank has made are a prefix of those of its programs (CallsInv), and  *)
(* so the barriers of main keep the ranks together (MeetInv).                 *)
(***************************************************************************)
EXTENDS Driver, GridProofs, SequenceTheorems, FiniteSetTheorems

-----------------------------------------------------------------------------
(***************************************************************************)
(* Sequences of operations, one after the other.                             *)
(***************************************************************************)
IsFlat(F, ss, m) == F[0] = <<>> /\ \A i \in 1..m : F[i] = F[i - 1] \o ss[i]

\* What FlattenSeq makes of a sequence of sequences: F[i] is the first i of them.
LEMMA Flatten ==
  ASSUME NEW X, NEW n \in Nat, NEW ss \in [1..n -> Seq(X)]
  PROVE  \E F \in [0..n -> Seq(X)] : IsFlat(F, ss, n) /\ FlattenSeq(ss) = F[n]
<1> DEFINE T == {m \in 0..n : \E F \in [0..m -> Seq(X)] : IsFlat(F, ss, m)}
<1>1. 0 \in T
  <2> DEFINE G == [i \in 0..0 |-> <<>>]
  <2>1. G \in [0..0 -> Seq(X)]
    BY EmptySeq
  <2>2. IsFlat(G, ss, 0)
    BY DEF IsFlat
  <2> HIDE DEF G
  <2>3. QED
    BY <2>1, <2>2
<1>2. ASSUME NEW m \in 1..n, m - 1 \in T PROVE m \in T
  <2>1. PICK F \in [0..(m - 1) -> Seq(X)] : IsFlat(F, ss, m - 1)
    BY <1>2
  <2> DEFINE G == [i \in 0..m |-> IF i = m THEN F[m - 1] \o ss[m] ELSE F[i]]
  <2>2. F[m - 1] \o ss[m] \in Seq(X)
    BY ConcatProperties
  <2>3. G \in [0..m -> Seq(X)]
    BY <2>2
  <2>4. IsFlat(G, ss, m)
    <3>1. G[0] = <<>>
      BY <2>1 DEF IsFlat
    <3>2. ASSUME NEW i \in 1..m PROVE G[i] = G[i - 1] \o ss[i]
      <4>1. CASE i = m
        <5>1. G[m] = F[m - 1] \o ss[m] /\ G[m - 1] = F[m - 1]
          OBVIOUS
        <5> HIDE DEF G
        <5>2. QED
          BY <4>1, <5>1
      <4>2. CASE i # m
        <5>1. i \in 1..(m - 1) /\ G[i] = F[i] /\ G[i - 1] = F[i - 1]
          BY <4>2
        <5>2. QED
          BY <2>1, <5>1 DEF IsFlat
      <4>3. QED
        BY <4>1, <4>2
    <3>3. QED
      BY <3>1, <3>2 DEF IsFlat
  <2> HIDE DEF G
  <2>5. QED
    BY <2>3, <2>4
<1>3. n \in T
  <2> HIDE DEF T
  <2>1. 0..n \subseteq T
    BY <1>1, <1>2, UpTo
  <2>2. QED
    BY <2>1
<1>4. PICK F \in [0..n -> Seq(X)] : IsFlat(F, ss, n)
  BY <1>3
<1>5. FlattenSeq(ss) = F[n]
  <2>1. Len(ss) = n
    OBVIOUS
  <2>2. CASE n = 0
    BY <1>4, <2>1, <2>2 DEF FlattenSeq, IsFlat
  <2>3. CASE n # 0
    <3> DEFINE body(f) == [i \in 1..n |-> IF i = 1 THEN ss[i] ELSE f[i - 1] \o ss[i]]
               G == [i \in 1..n |-> F[i]]
               c == CHOOSE f : f = body(f)
    <3>1. F[1] = ss[1]
      <4>1. 1 \in 1..n /\ F[0] = <<>>
        BY <2>3, <1>4 DEF IsFlat
      <4>2. F[1] = F[1 - 1] \o ss[1]
        BY <1>4, <4>1 DEF IsFlat
      <4>3. 1 - 1 = 0 /\ ss[1] \in Seq(X)
        BY <4>1
      <4>4. <<>> \o ss[1] = ss[1]
        BY <4>3, ConcatEmptySeq
      <4>5. QED
        BY <4>1, <4>2, <4>3, <4>4
    <3>2. G = body(G)
      <4>1. ASSUME NEW i \in 1..n PROVE G[i] = IF i = 1 THEN ss[i] ELSE G[i - 1] \o ss[i]
        <5>1. CASE i = 1
          BY <3>1, <5>1
        <5>2. CASE i # 1
          <6>1. F[i] = F[i - 1] \o ss[i]
            BY <1>4 DEF IsFlat
          <6>2. G[i] = F[i] /\ G[i - 1] = F[i - 1]
            BY <5>2
          <6> HIDE DEF G
          <6>3. QED
            BY <5>2, <6>1, <6>2
        <5>3. QED
          BY <5>1, <5>2
      <4>2. QED
        BY <4>1
    <3>3. c = body(c)
      <4> HIDE DEF body, G
      <4>1. QED
        BY <3>2
    <3> DEFINE U == {i \in 0..n : i = 0 \/ c[i] = F[i]}
    <3> HIDE DEF c
    <3>4. 0 \in U
      OBVIOUS
    <3>5. ASSUME NEW i \in 1..n, i - 1 \in U PROVE i \in U
      <4>1. c[i] = IF i = 1 THEN ss[i] ELSE c[i - 1] \o ss[i]
        BY <3>3
      <4>2. CASE i = 1
        BY <3>1, <4>1, <4>2
      <4>3. CASE i # 1
        <5>1. c[i - 1] = F[i - 1]
          BY <3>5, <4>3
        <5>2. F[i] = F[i - 1] \o ss[i]
          BY <1>4 DEF IsFlat
        <5>3. c[i] = F[i]
          BY <4>1, <4>3, <5>1, <5>2
        <5>4. QED
          BY <5>3
      <4>4. QED
        BY <4>2, <4>3
    <3>6. n \in U
      <4> HIDE DEF U
      <4>1. 0..n \subseteq U
        BY <3>4, <3>5, UpTo
      <4>2. QED
        BY <4>1
    <3>7. c[n] = F[n]
      BY <2>3, <3>6
    <3>8. FlattenSeq(ss) = c[n]
      BY <2>1, <2>3 DEF FlattenSeq, c
    <3>9. QED
      BY <3>7, <3>8
  <2>4. QED
    BY <2>2, <2>3
<1>6. QED
  BY <1>4, <1>5

\* b is in c after the first i.
Part(b, c, i) == \A n \in 1..Len(b) : c[i + n] = b[n]

\* The two halves of a concatenation are parts of it.
LEMMA Joint ==
  ASSUME NEW X, NEW a \in Seq(X), NEW b \in Seq(X)
  PROVE  /\ a \o b \in Seq(X) /\ Len(a \o b) = Len(a) + Len(b)
         /\ Part(a, a \o b, 0) /\ Part(b, a \o b, Len(a))
<1>1. /\ a \o b \in Seq(X) /\ Len(a \o b) = Len(a) + Len(b)
      /\ \A i \in 1..(Len(a) + Len(b)) : (a \o b)[i] = IF i <= Len(a) THEN a[i] ELSE b[i - Len(a)]
  BY ConcatProperties
<1>2. Len(a) \in Nat /\ Len(b) \in Nat
  OBVIOUS
<1>3. ASSUME NEW n \in 1..Len(a) PROVE (a \o b)[0 + n] = a[n]
  BY <1>1, <1>2
<1>4. ASSUME NEW n \in 1..Len(b) PROVE (a \o b)[Len(a) + n] = b[n]
  <2>1. Len(a) + n \in 1..(Len(a) + Len(b)) /\ ~(Len(a) + n <= Len(a)) /\ Len(a) + n - Len(a) = n
    BY <1>2
  <2>2. QED
    BY <1>1, <2>1
<1>5. QED
  BY <1>1, <1>3, <1>4 DEF Part

\* A part of a part, with their offsets added.
LEMMA PartOfPart ==
  ASSUME NEW a, NEW b, NEW c, NEW i \in Nat, NEW j \in Nat, Len(a) \in Nat, Len(b) \in Nat,
         Part(a, b, i), Part(b, c, j), i + Len(a) <= Len(b)
  PROVE  Part(a, c, j + i)
<1> SUFFICES ASSUME NEW n \in 1..Len(a) PROVE c[(j + i) + n] = a[n]
  BY DEF Part
<1>1. i + n \in 1..Len(b) /\ j + (i + n) = (j + i) + n
  OBVIOUS
<1>2. c[j + (i + n)] = b[i + n] /\ b[i + n] = a[n]
  BY <1>1 DEF Part
<1>3. QED
  BY <1>1, <1>2

\* What is in a or in b is in what they make one after the other.
LEMMA PartOfJoint ==
  ASSUME NEW X, NEW a \in Seq(X), NEW b \in Seq(X), NEW p \in Seq(X), NEW i \in Nat
  PROVE  /\ Part(p, a, i) /\ i + Len(p) <= Len(a) => Part(p, a \o b, i)
         /\ Part(p, b, i) /\ i + Len(p) <= Len(b) => Part(p, a \o b, Len(a) + i)
<1> DEFINE c == a \o b
           k == Len(a)
<1>1. Part(a, c, 0) /\ Part(b, c, k)
  BY Joint
<1>2. Len(p) \in Nat /\ k \in Nat /\ Len(b) \in Nat /\ 0 + i = i /\ k = Len(a) /\ 0 \in Nat
  OBVIOUS
<1> HIDE DEF c, k
<1>3. ASSUME Part(p, a, i), i + Len(p) <= Len(a) PROVE Part(p, c, i)
  <2>1. Part(p, c, 0 + i)
    BY <1>1, <1>2, <1>3, PartOfPart
  <2>2. QED
    BY <1>2, <2>1
<1>4. ASSUME Part(p, b, i), i + Len(p) <= Len(b) PROVE Part(p, c, k + i)
  BY <1>1, <1>2, <1>4, PartOfPart
<1>5. QED
  BY <1>3, <1>4 DEF c, k

\* Tuples, one after the other.
LEMMA Tuples ==
  ASSUME NEW a, NEW b
  PROVE  <<a>> \o <<b>> = <<a, b>>
<1> DEFINE X == {a, b}
           x == <<a>>
           y == <<b>>
           z == <<a, b>>
<1>1. /\ x \in Seq(X) /\ y \in Seq(X) /\ z \in Seq(X)
      /\ Len(x) = 1 /\ Len(y) = 1 /\ Len(z) = 2
      /\ x[1] = a /\ y[1] = b /\ z[1] = a /\ z[2] = b
  OBVIOUS
<1> HIDE DEF x, y, z, X
<1>2. x \o y \in Seq(X) /\ Len(x \o y) = 2 /\ (x \o y)[1] = a /\ (x \o y)[2] = b
  <2>0. x \o y \in Seq(X) /\ Len(x \o y) = Len(x) + Len(y) /\ Part(x, x \o y, 0) /\ Part(y, x \o y, Len(x))
    BY ONLY <1>1, Joint
  <2>1. x \o y \in Seq(X) /\ Len(x \o y) = 2 /\ Part(x, x \o y, 0) /\ Part(y, x \o y, 1)
    BY <1>1, <2>0
  <2>2. (x \o y)[0 + 1] = x[1] /\ (x \o y)[1 + 1] = y[1]
    BY <1>1, <2>1 DEF Part
  <2>3. QED
    BY <1>1, <2>1, <2>2
<1>3. x \o y = z
  BY <1>1, <1>2, SeqEqual
<1>4. QED
  BY <1>3 DEF x, y, z

\* Sequences of one operation each, and of two.
LEMMA FlattenOnes ==
  ASSUME NEW X, NEW n \in Nat, NEW ss \in [1..n -> Seq(X)], \A k \in 1..n : Len(ss[k]) = 1
  PROVE  /\ FlattenSeq(ss) \in Seq(X) /\ Len(FlattenSeq(ss)) = n
         /\ \A k \in 1..n : FlattenSeq(ss)[k] = ss[k][1]
<1>1. PICK F \in [0..n -> Seq(X)] : IsFlat(F, ss, n) /\ FlattenSeq(ss) = F[n]
  BY Flatten
<1> DEFINE T == {m \in 0..n : Len(F[m]) = m /\ \A k \in 1..m : F[m][k] = ss[k][1]}
<1>2. 0 \in T
  BY <1>1 DEF IsFlat
<1>3. ASSUME NEW m \in 1..n, m - 1 \in T PROVE m \in T
  <2>0. m - 1 \in 0..n /\ m \in 1..n
    OBVIOUS
  <2>1. F[m] = F[m - 1] \o ss[m] /\ F[m - 1] \in Seq(X) /\ ss[m] \in Seq(X)
    <3>1. F[m] = F[m - 1] \o ss[m]
      BY <1>1 DEF IsFlat
    <3>2. F[m - 1] \in Seq(X)
      BY <1>1, <2>0
    <3>3. QED
      BY <3>1, <3>2
  <2> DEFINE a == F[m - 1]
             b == ss[m]
  <2>2. Len(a) = m - 1 /\ Len(b) = 1 /\ \A k \in 1..(m - 1) : a[k] = ss[k][1]
    BY <1>3
  <2>2a. a \in Seq(X) /\ b \in Seq(X) /\ F[m] = a \o b
    BY <2>1
  <2> HIDE DEF a, b
  <2>2b. /\ Len(a \o b) = Len(a) + Len(b) /\ Part(a, a \o b, 0)
         /\ Part(b, a \o b, Len(a))
    BY ONLY <2>2a, Joint
  <2>3. Len(F[m]) = (m - 1) + 1 /\ Part(a, F[m], 0) /\ Part(b, F[m], m - 1)
    BY <2>2, <2>2a, <2>2b
  <2>4. ASSUME NEW k \in 1..m PROVE F[m][k] = ss[k][1]
    <3>1. CASE k = m
      <4>1. F[m][(m - 1) + 1] = b[1]
        BY <2>2, <2>3 DEF Part
      <4>2. QED
        BY <3>1, <4>1 DEF b
    <3>2. CASE k # m
      <4>1. k \in 1..(m - 1) /\ 0 + k = k
        BY <3>2
      <4>2. F[m][0 + k] = a[k]
        BY <2>2, <2>3, <4>1 DEF Part
      <4>3. QED
        BY <2>2, <4>1, <4>2
    <3>3. QED
      BY <3>1, <3>2
  <2>5. QED
    BY <2>3, <2>4
<1>4. n \in T
  <2> HIDE DEF T
  <2>1. 0..n \subseteq T
    BY <1>2, <1>3, UpTo
  <2>2. QED
    BY <2>1
<1>5. QED
  BY <1>1, <1>4

\* A sequence of pairs laid end to end: the k-th pair is at 2k - 1 and 2k.
LEMMA FlattenTwos ==
  ASSUME NEW X, NEW n \in Nat, NEW ss \in [1..n -> Seq(X)], \A k \in 1..n : Len(ss[k]) = 2
  PROVE  /\ FlattenSeq(ss) \in Seq(X) /\ Len(FlattenSeq(ss)) = n + n
         /\ \A k \in 1..n : /\ FlattenSeq(ss)[k + k - 1] = ss[k][1]
                            /\ FlattenSeq(ss)[k + k] = ss[k][2]
<1>1. PICK F \in [0..n -> Seq(X)] : IsFlat(F, ss, n) /\ FlattenSeq(ss) = F[n]
  BY Flatten
<1> DEFINE T == {m \in 0..n : /\ Len(F[m]) = m + m
                              /\ \A k \in 1..m : F[m][k + k - 1] = ss[k][1] /\ F[m][k + k] = ss[k][2]}
<1>2. 0 \in T
  BY <1>1 DEF IsFlat
<1>3. ASSUME NEW m \in 1..n, m - 1 \in T PROVE m \in T
  <2>0. m - 1 \in 0..n /\ m \in 1..n
    OBVIOUS
  <2>1. F[m] = F[m - 1] \o ss[m] /\ F[m - 1] \in Seq(X) /\ ss[m] \in Seq(X)
    <3>1. F[m] = F[m - 1] \o ss[m]
      BY <1>1 DEF IsFlat
    <3>2. F[m - 1] \in Seq(X)
      BY <1>1, <2>0
    <3>3. QED
      BY <3>1, <3>2
  <2> DEFINE a == F[m - 1]
             b == ss[m]
  <2>2. /\ Len(a) = (m - 1) + (m - 1) /\ Len(b) = 2
        /\ \A k \in 1..(m - 1) : a[k + k - 1] = ss[k][1] /\ a[k + k] = ss[k][2]
    BY <1>3
  <2>3. a \in Seq(X) /\ b \in Seq(X) /\ F[m] = a \o b
    BY <2>1
  <2> HIDE DEF a, b
  <2>3a. /\ Len(a \o b) = Len(a) + Len(b) /\ Part(a, a \o b, 0)
         /\ Part(b, a \o b, Len(a))
    BY ONLY <2>3, Joint
  <2>4. Len(F[m]) = Len(a) + 2 /\ Part(a, F[m], 0) /\ Part(b, F[m], Len(a))
    BY <2>2, <2>3, <2>3a
  <2>5. ASSUME NEW k \in 1..m PROVE F[m][k + k - 1] = ss[k][1] /\ F[m][k + k] = ss[k][2]
    <3>1. CASE k = m
      <4>1. F[m][Len(a) + 1] = b[1] /\ F[m][Len(a) + 2] = b[2]
        BY <2>2, <2>4 DEF Part
      <4>2. Len(a) + 1 = k + k - 1 /\ Len(a) + 2 = k + k
        BY <2>2, <3>1
      <4>3. QED
        BY <3>1, <4>1, <4>2 DEF b
    <3>2. CASE k # m
      <4>1. k \in 1..(m - 1) /\ k + k - 1 \in 1..Len(a) /\ k + k \in 1..Len(a)
        BY <2>2, <3>2
      <4>2. F[m][0 + (k + k - 1)] = a[k + k - 1] /\ F[m][0 + (k + k)] = a[k + k]
        BY <2>4, <4>1 DEF Part
      <4>3. 0 + (k + k - 1) = k + k - 1 /\ 0 + (k + k) = k + k
        OBVIOUS
      <4>4. QED
        BY <2>2, <4>1, <4>2, <4>3
    <3>3. QED
      BY <3>1, <3>2
  <2>6. Len(F[m]) = m + m
    BY <2>2, <2>4
  <2>7. QED
    BY <2>5, <2>6
<1>4. n \in T
  <2> HIDE DEF T
  <2>1. 0..n \subseteq T
    BY <1>2, <1>3, UpTo
  <2>2. QED
    BY <2>1
<1>5. QED
  BY <1>1, <1>4
-----------------------------------------------------------------------------
(***************************************************************************)
(* The operations of a setup.                                               *)
(***************************************************************************)
Plain == {"init", "finalize", "sync", "join", "destroy", "ready", "exit", "step"}
CallName == {"barrier", "bcast", "reduce", "print", "free"}

Operation ==
    {Op(o) : o \in Plain} \union {Meet(m) : m \in Meeting}
      \union {Call(c, m) : c \in CallName, m \in Comm}
      \union {Create(c, m) : c \in Comm, m \in Comm}
      \union {Schedule(j, o) : j \in Nat, o \in {"init", "exchange", "exit"}}

\* Setups as SetupsAssumption has them.
SetupOk(s) == /\ s.mode \in {"config", "refused", "print", "run"}
              /\ s.cart \in BOOLEAN /\ s.check \in BOOLEAN /\ s.timed \in BOOLEAN
              /\ s.threads \in Nat \ {0} /\ s.reps \in Nat

LEMMA SetupsOk == \A s \in Setups : SetupOk(s)
BY SetupsAssumption DEF SetupOk

\* What the fields of each kind of operation are.
LEMMA Operations ==
  /\ \A o \in Plain : Op(o) \in Operation /\ Op(o).op = o
  /\ \A m \in Meeting : Meet(m) \in Operation /\ Meet(m).op = "meet" /\ Meet(m).at = m
  /\ \A c \in CallName, m \in Comm : /\ Call(c, m) \in Operation /\ Call(c, m).op = "call"
                                     /\ Call(c, m).call = c /\ Call(c, m).comm = m
  /\ \A m \in Comm, n \in Comm : /\ Create(m, n) \in Operation /\ Create(m, n).op = "call"
                                 /\ Create(m, n).call = "create" /\ Create(m, n).comm = m
                                 /\ Create(m, n).new = n
  /\ \A j \in Nat, o \in {"init", "exchange", "exit"} :
       /\ Schedule(j, o) \in Operation /\ Schedule(j, o).op = "schedule"
       /\ Schedule(j, o).worker = j /\ Schedule(j, o).job = o
<1>1. \A o \in Plain : Op(o) \in Operation /\ Op(o).op = o
  BY DEF Operation, Op
<1>2. \A m \in Meeting : Meet(m) \in Operation /\ Meet(m).op = "meet" /\ Meet(m).at = m
  BY DEF Operation, Meet
<1>3. \A c \in CallName, m \in Comm : /\ Call(c, m) \in Operation /\ Call(c, m).op = "call"
                                     /\ Call(c, m).call = c /\ Call(c, m).comm = m
  BY DEF Operation, Call
<1>4. \A m \in Comm, n \in Comm : /\ Create(m, n) \in Operation /\ Create(m, n).op = "call"
                                 /\ Create(m, n).call = "create" /\ Create(m, n).comm = m
                                 /\ Create(m, n).new = n
  BY DEF Operation, Create
<1>5. \A j \in Nat, o \in {"init", "exchange", "exit"} :
       /\ Schedule(j, o) \in Operation /\ Schedule(j, o).op = "schedule"
       /\ Schedule(j, o).worker = j /\ Schedule(j, o).job = o
  BY DEF Operation, Schedule
<1>6. QED
  BY <1>1, <1>2, <1>3, <1>4, <1>5

\* A sequence of one operation, of two, of three.
LEMMA Singles ==
  ASSUME NEW X, NEW a \in X
  PROVE  <<a>> \in Seq(X) /\ Len(<<a>>) = 1 /\ <<a>>[1] = a
OBVIOUS

LEMMA Pairs ==
  ASSUME NEW X, NEW a \in X, NEW b \in X
  PROVE  <<a, b>> \in Seq(X) /\ Len(<<a, b>>) = 2 /\ <<a, b>>[1] = a /\ <<a, b>>[2] = b
OBVIOUS

LEMMA Threes ==
  ASSUME NEW X, NEW a \in X, NEW b \in X, NEW c \in X
  PROVE  /\ <<a, b, c>> \in Seq(X) /\ Len(<<a, b, c>>) = 3
         /\ <<a, b, c>>[1] = a /\ <<a, b, c>>[2] = b /\ <<a, b, c>>[3] = c
OBVIOUS

-----------------------------------------------------------------------------
(***************************************************************************)
(* What a worker has to do: one ready first and one exit last, and between     *)
(* them steps, meetings, and on worker 0 collective calls.                   *)
(***************************************************************************)
WorkerScript(s, j) == <<Op("ready")>> \o Exchange(s, j) \o <<Op("exit")>>
LW(s, j) == Len(WorkerScript(s, j))

ExchangeOp(s, j) ==
    {Op("step"), Meet("b"), Meet("loop")}
      \union {o \in {Call(c, MpiComm(s)) : c \in {"barrier", "bcast", "reduce"}} : j = 0}

LEMMA CommIs == \A s : MpiComm(s) \in Comm /\ MpiComm(s) \in {"cart", "hw"}
BY DEF MpiComm, Comm

\* What a worker does in exchange is made of operations.
LEMMA ExchangeOps == \A s, j : ExchangeOp(s, j) \subseteq Operation
<1> SUFFICES ASSUME NEW s, NEW j PROVE ExchangeOp(s, j) \subseteq Operation
  OBVIOUS
<1>1. Op("step") \in Operation /\ Meet("b") \in Operation /\ Meet("loop") \in Operation
  BY Operations DEF Plain, Meeting
<1>2. \A c \in {"barrier", "bcast", "reduce"} : Call(c, MpiComm(s)) \in Operation
  BY Operations, CommIs DEF CallName
<1>3. QED
  BY <1>1, <1>2 DEF ExchangeOp

\* A conditional part of a program is there or is empty.
LEMMA WhenIs ==
  ASSUME NEW X, NEW ops \in Seq(X), NEW b \in BOOLEAN
  PROVE  When(b, ops) \in Seq(X) /\ (b => When(b, ops) = ops) /\ (~b => When(b, ops) = <<>>)
<1>1. <<>> \in Seq(X)
  OBVIOUS
<1>2. QED
  BY <1>1 DEF When

LEMMA Concat ==
  ASSUME NEW X, NEW a \in Seq(X), NEW b \in Seq(X)
  PROVE  a \o b \in Seq(X)
BY ConcatProperties

\* Repeating a part of a program gives a program.
LEMMA TimesIs ==
  ASSUME NEW X, NEW ops \in Seq(X), NEW n \in Nat
  PROVE  Times(n, ops) \in Seq(X)
<1> DEFINE ss == [k \in 1..n |-> ops]
<1>1. ss \in [1..n -> Seq(X)]
  OBVIOUS
<1> HIDE DEF ss
<1>2. PICK F \in [0..n -> Seq(X)] : IsFlat(F, ss, n) /\ FlattenSeq(ss) = F[n]
  BY <1>1, Flatten
<1>3. F[n] \in Seq(X)
  OBVIOUS
<1>4. QED
  BY <1>2, <1>3 DEF Times, ss

\* What exchange is made of, whatever the mode, the loops and the warm-ups are
\* (runtime.cpp:43-115).
LEMMA ExchangeIs ==
  ASSUME NEW s, SetupOk(s), NEW j \in 0..(s.threads - 1)
  PROVE  Exchange(s, j) \in Seq(ExchangeOp(s, j))
<1> DEFINE X == ExchangeOp(s, j)
           b == <<Meet("b")>>
           st == <<Op("step")>>
           bs == <<Meet("b"), Op("step")>>
           lp == <<Meet("loop")>>
           cl(c) == When(j = 0, <<Call(c, MpiComm(s))>>)
<1>1. b \in Seq(X) /\ st \in Seq(X) /\ bs \in Seq(X) /\ lp \in Seq(X)
  BY DEF ExchangeOp
<1>2. ASSUME NEW c \in {"barrier", "bcast", "reduce"} PROVE cl(c) \in Seq(X)
  <2>1. CASE j = 0
    <3>1. Call(c, MpiComm(s)) \in X
      BY <2>1 DEF ExchangeOp
    <3>2. <<Call(c, MpiComm(s))>> \in Seq(X)
      BY <3>1
    <3>3. QED
      BY <2>1, <3>2 DEF When
  <2>2. CASE j # 0
    <3>1. cl(c) = <<>>
      BY <2>2 DEF When
    <3>2. <<>> \in Seq(X)
      OBVIOUS
    <3> HIDE DEF cl, X
    <3>3. QED
      BY <3>1, <3>2
  <2>3. QED
    BY <2>1, <2>2
<1>3. cl("barrier") \in Seq(X) /\ cl("bcast") \in Seq(X) /\ cl("reduce") \in Seq(X)
  BY <1>2
<1> HIDE DEF X, b, st, bs, lp, cl
<1>4. MainStep(s, j) \in Seq(X)
  <2>1. b \o cl("barrier") \in Seq(X)
    BY <1>1, <1>3, Concat
  <2>2. (b \o cl("barrier")) \o bs \in Seq(X)
    BY <1>1, <2>1, Concat
  <2>3. QED
    BY <2>2 DEF MainStep, b, cl, bs
<1>5. Elapsed(s, j) \in Seq(X)
  <2>1. cl("bcast") \o lp \in Seq(X)
    BY <1>1, <1>3, Concat
  <2>2. QED
    BY <2>1 DEF Elapsed, cl, lp
<1>6. WarmUps \in Nat /\ s.reps \in Nat /\ s.check \in BOOLEAN /\ s.timed \in BOOLEAN
  BY RanksAssumption DEF SetupOk
<1> DEFINE a1 == When(s.check, st)
           a2 == Times(WarmUps, st)
           a3 == When(s.timed, Elapsed(s, j))
           a4 == Times(s.reps, MainStep(s, j))
<1>7. a1 \in Seq(X) /\ a2 \in Seq(X) /\ a3 \in Seq(X) /\ a4 \in Seq(X)
  <2>1. a1 \in Seq(X)
    BY <1>1, <1>6, WhenIs
  <2>2. a2 \in Seq(X)
    BY <1>1, <1>6, TimesIs
  <2>3. a3 \in Seq(X)
    BY <1>5, <1>6, WhenIs
  <2>4. a4 \in Seq(X)
    BY <1>4, <1>6, TimesIs
  <2>5. QED
    BY <2>1, <2>2, <2>3, <2>4
<1>8. Exchange(s, j) = ((((a1 \o a2) \o a3) \o a4) \o a3) \o cl("reduce")
  BY DEF Exchange, st, cl
<1> HIDE DEF a1, a2, a3, a4
<1>9. a1 \o a2 \in Seq(X)
  BY <1>7, Concat
<1>10. (a1 \o a2) \o a3 \in Seq(X)
  BY <1>7, <1>9, Concat
<1>11. ((a1 \o a2) \o a3) \o a4 \in Seq(X)
  BY <1>7, <1>10, Concat
<1>12. (((a1 \o a2) \o a3) \o a4) \o a3 \in Seq(X)
  BY <1>7, <1>11, Concat
<1>13. ((((a1 \o a2) \o a3) \o a4) \o a3) \o cl("reduce") \in Seq(X)
  BY <1>3, <1>12, Concat
<1>14. QED
  BY <1>8, <1>13 DEF X

\* The jobs of a worker make up its script.
WorkerOp(s, j, n, o) ==
    \/ n = 1 /\ o = Op("ready")
    \/ n = LW(s, j) /\ n > 1 /\ o = Op("exit")
    \/ n \in 2..(LW(s, j) - 1) /\ o \in ExchangeOp(s, j)

\* The program of a worker: ready, exchange, exit (benchmark.cpp:229-247).
LEMMA WorkerScriptIs ==
  ASSUME NEW s, SetupOk(s), NEW j \in 0..(s.threads - 1)
  PROVE  /\ WorkerScript(s, j) \in Seq(Operation) /\ LW(s, j) \in Nat /\ LW(s, j) >= 2
         /\ Exchange(s, j) \in Seq(Operation) /\ Len(Exchange(s, j)) = LW(s, j) - 2
         /\ Part(Exchange(s, j), WorkerScript(s, j), 1)
         /\ \A n \in 1..LW(s, j) : WorkerOp(s, j, n, WorkerScript(s, j)[n])
<1> DEFINE x == Exchange(s, j)
           a == <<Op("ready")>>
           e == <<Op("exit")>>
           c == WorkerScript(s, j)
           l == LW(s, j)
<1>1. /\ a \in Seq(Operation) /\ Len(a) = 1 /\ a[1] = Op("ready")
      /\ e \in Seq(Operation) /\ Len(e) = 1 /\ e[1] = Op("exit")
  <2>1. Op("ready") \in Operation /\ Op("exit") \in Operation
    BY Operations DEF Plain
  <2>2. QED
    BY <2>1, Singles
<1>2. x \in Seq(ExchangeOp(s, j)) /\ x \in Seq(Operation)
  <2>1. x \in Seq(ExchangeOp(s, j))
    BY ExchangeIs
  <2>2. ExchangeOp(s, j) \subseteq Operation
    BY ExchangeOps
  <2> HIDE DEF x
  <2>3. QED
    BY <2>1, <2>2
<1>3. c = (a \o x) \o e /\ l = Len(c)
  BY DEF WorkerScript, LW
<1>0. \A n \in 1..Len(x) : x[n] \in ExchangeOp(s, j)
  <2> HIDE DEF x
  <2>1. QED
    BY <1>2
<1> HIDE DEF a, e, x, c, l
<1> DEFINE d == a \o x
<1>4. d \in Seq(Operation) /\ Len(d) = Len(a) + Len(x) /\ Part(a, d, 0) /\ Part(x, d, Len(a))
  BY ONLY <1>1, <1>2, Joint
<1> HIDE DEF d
<1>5. c \in Seq(Operation) /\ Len(c) = Len(d) + Len(e) /\ Part(d, c, 0) /\ Part(e, c, Len(d))
  <2>1. c = d \o e
    BY <1>3 DEF d
  <2>2. d \o e \in Seq(Operation) /\ Len(d \o e) = Len(d) + Len(e) /\ Part(d, d \o e, 0) /\ Part(e, d \o e, Len(d))
    BY ONLY <1>1, <1>4, Joint
  <2>3. QED
    BY <2>1, <2>2
<1>6. Len(x) \in Nat /\ Len(d) = 1 + Len(x) /\ l = 2 + Len(x)
  BY <1>1, <1>2, <1>3, <1>4, <1>5
<1>7. \A n \in 1..Len(d) : c[n] = d[n]
  <2>1. \A n \in 1..Len(d) : c[0 + n] = d[n]
    BY <1>5 DEF Part
  <2>2. QED
    BY <2>1, <1>6
<1>8. c[1] = Op("ready")
  <2>1. d[0 + 1] = a[1]
    BY <1>1, <1>4 DEF Part
  <2>2. 1 \in 1..Len(d) /\ 0 + 1 = 1
    BY <1>6
  <2>3. QED
    BY <1>1, <1>7, <2>1, <2>2
<1>9. c[l] = Op("exit")
  <2>1. c[Len(d) + 1] = e[1]
    BY <1>1, <1>5 DEF Part
  <2>2. Len(d) + 1 = l
    BY <1>6
  <2>3. QED
    BY <1>1, <2>1, <2>2
<1>10. ASSUME NEW n \in 1..Len(x) PROVE c[1 + n] = x[n]
  <2>1. d[1 + n] = x[n]
    BY <1>1, <1>4 DEF Part
  <2>2. 1 + n \in 1..Len(d)
    BY <1>6
  <2>3. QED
    BY <1>7, <2>1, <2>2
<1>11. Part(x, c, 1)
  BY <1>10 DEF Part
<1>12. ASSUME NEW n \in 1..l PROVE WorkerOp(s, j, n, c[n])
  <2>1. CASE n = 1
    BY <1>8, <2>1 DEF WorkerOp
  <2>2. CASE n = l
    <3>1. n > 1
      BY <1>6, <2>2
    <3>2. QED
      BY <1>9, <2>2, <3>1 DEF WorkerOp, l
  <2>3. CASE n # 1 /\ n # l
    <3> DEFINE k == n - 1
    <3>1. k \in 1..Len(x) /\ 1 + k = n /\ n \in 2..(l - 1)
      BY <1>6, <2>3
    <3> HIDE DEF k
    <3>2. c[1 + k] = x[k] /\ x[k] \in ExchangeOp(s, j)
      BY <1>0, <1>10, <3>1
    <3>3. c[n] \in ExchangeOp(s, j)
      BY <3>1, <3>2
    <3>4. QED
      BY <3>1, <3>3 DEF WorkerOp, l
  <2>4. QED
    BY <2>1, <2>2, <2>3
<1>13. l \in Nat /\ l >= 2 /\ Len(x) = l - 2
  BY <1>6
<1>14. QED
  BY <1>2, <1>5, <1>11, <1>12, <1>13 DEF l, c, x
-----------------------------------------------------------------------------
(***************************************************************************)
(* What main has to do.                                                     *)
(***************************************************************************)
\* Four sequences, one after the other.
FourParts(X, a, b, d, e, c) ==
    /\ c \in Seq(X) /\ Len(c) = Len(a) + Len(b) + Len(d) + Len(e)
    /\ Part(a, c, 0) /\ Part(b, c, Len(a)) /\ Part(d, c, Len(a) + Len(b))
    /\ Part(e, c, Len(a) + Len(b) + Len(d))

\* Four parts, each at the sum of the lengths before it.
LEMMA Four ==
  ASSUME NEW X, NEW a \in Seq(X), NEW b \in Seq(X), NEW d \in Seq(X), NEW e \in Seq(X)
  PROVE  FourParts(X, a, b, d, e, ((a \o b) \o d) \o e)
<1>00. a \in Seq(X) /\ b \in Seq(X) /\ d \in Seq(X) /\ e \in Seq(X)
  OBVIOUS
<1> DEFINE c == ((a \o b) \o d) \o e
           ab == a \o b
           abd == ab \o d
<1>1. /\ ab \in Seq(X) /\ Len(ab) = Len(a) + Len(b)
      /\ Part(a, ab, 0) /\ Part(b, ab, Len(a))
  BY Joint
<1>0. /\ Len(a) \in Nat /\ Len(b) \in Nat /\ Len(d) \in Nat /\ Len(e) \in Nat
      /\ 0 + Len(a) = Len(a) /\ 0 \in Nat
  OBVIOUS
<1>2. c = abd \o e
  OBVIOUS
<1> HIDE DEF ab, c
<1>3. /\ abd \in Seq(X) /\ Len(abd) = Len(ab) + Len(d) /\ Part(d, abd, Len(ab))
  BY ONLY <1>00, <1>1, Joint
<1>4. Part(a, abd, 0) /\ Part(b, abd, Len(a))
  <2>1. 0 + Len(a) <= Len(ab) /\ Len(a) + Len(b) <= Len(ab)
    BY <1>0, <1>1
  <2>2. QED
    BY <1>0, <1>1, <2>1, PartOfJoint
<1> HIDE DEF abd
<1>5. /\ c \in Seq(X) /\ Len(c) = Len(abd) + Len(e) /\ Part(e, c, Len(abd))
  <2>1. /\ abd \o e \in Seq(X) /\ Len(abd \o e) = Len(abd) + Len(e) /\ Part(e, abd \o e, Len(abd))
    BY ONLY <1>00, <1>3, Joint
  <2>2. QED
    BY <1>2, <2>1
<1>6. Part(a, c, 0) /\ Part(b, c, Len(a)) /\ Part(d, c, Len(ab))
  <2>1. /\ 0 + Len(a) <= Len(abd) /\ Len(a) + Len(b) <= Len(abd) /\ Len(ab) + Len(d) <= Len(abd)
        /\ Len(ab) \in Nat
    BY <1>0, <1>1, <1>3
  <2>2. /\ Part(a, abd \o e, 0) /\ Part(b, abd \o e, Len(a)) /\ Part(d, abd \o e, Len(ab))
    BY <1>0, <1>3, <1>4, <2>1, PartOfJoint
  <2>3. QED
    BY <1>2, <2>2
<1>7. FourParts(X, a, b, d, e, c)
  BY <1>0, <1>1, <1>3, <1>5, <1>6 DEF FourParts
<1>8. QED
  BY <1>7 DEF c

\* A fifth one.
FiveParts(X, a, b, d, e, f, c) ==
    /\ c \in Seq(X) /\ Len(c) = Len(a) + Len(b) + Len(d) + Len(e) + Len(f)
    /\ Part(a, c, 0) /\ Part(b, c, Len(a)) /\ Part(d, c, Len(a) + Len(b))
    /\ Part(e, c, Len(a) + Len(b) + Len(d)) /\ Part(f, c, Len(a) + Len(b) + Len(d) + Len(e))

\* Five parts, each at the sum of the lengths before it.
LEMMA Five ==
  ASSUME NEW X, NEW a \in Seq(X), NEW b \in Seq(X), NEW d \in Seq(X), NEW e \in Seq(X),
         NEW f \in Seq(X)
  PROVE  FiveParts(X, a, b, d, e, f, (((a \o b) \o d) \o e) \o f)
<1>00. a \in Seq(X) /\ b \in Seq(X) /\ d \in Seq(X) /\ e \in Seq(X) /\ f \in Seq(X)
  OBVIOUS
<1> DEFINE c == (((a \o b) \o d) \o e) \o f
           g == ((a \o b) \o d) \o e
           i == Len(a) + Len(b)
           k == Len(a) + Len(b) + Len(d)
<1>1. /\ g \in Seq(X) /\ Len(g) = Len(a) + Len(b) + Len(d) + Len(e)
      /\ Part(a, g, 0) /\ Part(b, g, Len(a)) /\ Part(d, g, i) /\ Part(e, g, k)
  <2>1. FourParts(X, a, b, d, e, g)
    BY ONLY <1>00, Four DEF g
  <2> HIDE DEF g, i, k
  <2>2. QED
    BY <2>1 DEF FourParts, i, k
<1>2. c = g \o f
  OBVIOUS
<1> HIDE DEF c
<1>0. /\ Len(a) \in Nat /\ Len(b) \in Nat /\ Len(d) \in Nat /\ Len(e) \in Nat /\ Len(f) \in Nat
      /\ 0 \in Nat
  OBVIOUS
<1>0a. i \in Nat /\ k \in Nat
  BY <1>0
<1> HIDE DEF g
<1>3. 0 + Len(a) <= Len(g) /\ Len(a) + Len(b) <= Len(g) /\ i + Len(d) <= Len(g) /\ k + Len(e) <= Len(g)
  BY <1>0, <1>1
<1> HIDE DEF i, k
<1>4. /\ g \o f \in Seq(X) /\ Len(g \o f) = Len(g) + Len(f) /\ Part(f, g \o f, Len(g))
  BY ONLY <1>00, <1>1, Joint
<1>5. /\ Part(a, g \o f, 0) /\ Part(b, g \o f, Len(a)) /\ Part(d, g \o f, i) /\ Part(e, g \o f, k)
  BY <1>0, <1>0a, <1>1, <1>3, PartOfJoint
<1>6. FiveParts(X, a, b, d, e, f, c)
  BY <1>1, <1>2, <1>4, <1>5 DEF i, k, FiveParts
<1>7. QED
  BY <1>6 DEF c
\* The places of what main does, with T workers: the last of the operations
\* before the jobs, sync and the barrier of ready workers, join and the last
\* barrier, and the end of the runtime.
IsRun(s) == s.mode = "run"
Lead(s) == IF s.cart THEN 4 ELSE 5
SyncAt(s) == Lead(s) + s.threads + 1
ReadyAt(s) == SyncAt(s) + 1
JoinAt(s) == ReadyAt(s) + s.threads + s.threads + 1
EndedAt(s) == JoinAt(s) + 1
DestroyAt(s) == JoinAt(s) + 2

MainScript(s) == <<Op("init")>> \o Program(s)

MainLen(s) ==
    CASE s.mode = "config"  -> 1
      [] s.mode = "refused" -> 2
      [] s.mode = "print"   -> IF s.cart THEN 6 ELSE 8
      [] s.mode = "run"     -> IF s.cart THEN DestroyAt(s) + 2 ELSE DestroyAt(s) + 3

Bar(s) == Call("barrier", MpiComm(s))

\* runtime::impl and what main does about it.
BenchmarkOps(s, m) ==
    LET T == s.threads
    IN  /\ m \in Seq(Operation) /\ Len(m) = T + T + T + 7
        /\ m[1] = Bar(s) /\ m[2] = Bar(s)
        /\ \A j \in 0..(T - 1) : /\ m[3 + j] = Schedule(j, "init")
                                 /\ m[T + 5 + j + j] = Schedule(j, "exchange")
                                 /\ m[T + 6 + j + j] = Schedule(j, "exit")
        /\ m[T + 3] = Op("sync") /\ m[T + 4] = Bar(s)
        /\ m[T + T + T + 5] = Op("join") /\ m[T + T + T + 6] = Bar(s)
        /\ m[T + T + T + 7] = Op("destroy")

\* Where each operation of the benchmark proper is in it (benchmark.cpp:217-251).
LEMMA BenchmarkIs ==
  ASSUME NEW s, SetupOk(s)
  PROVE  BenchmarkOps(s, Benchmark(s))
<1> DEFINE T == s.threads
           p1 == <<Bar(s), Bar(s)>>
           s2 == [k \in 1..T |-> <<Schedule(k - 1, "init")>>]
           p2 == FlattenSeq(s2)
           p3 == <<Op("sync"), Bar(s)>>
           s4 == [k \in 1..T |-> <<Schedule(k - 1, "exchange"), Schedule(k - 1, "exit")>>]
           p4 == FlattenSeq(s4)
           p5 == <<Op("join"), Bar(s), Op("destroy")>>
           m == Benchmark(s)
<1>0. T \in Nat /\ T >= 1
  BY DEF SetupOk
<1>1. m = (((p1 \o p2) \o p3) \o p4) \o p5
  BY DEF Benchmark, ForAll, Bar
<1>2. /\ Bar(s) \in Operation /\ Op("sync") \in Operation /\ Op("join") \in Operation
      /\ Op("destroy") \in Operation
  BY Operations, CommIs DEF Bar, Plain, CallName
<1>3. /\ p1 \in Seq(Operation) /\ Len(p1) = 2 /\ p1[1] = Bar(s) /\ p1[2] = Bar(s)
      /\ p3 \in Seq(Operation) /\ Len(p3) = 2 /\ p3[1] = Op("sync") /\ p3[2] = Bar(s)
  BY <1>2, Pairs
<1>4. /\ p5 \in Seq(Operation) /\ Len(p5) = 3 /\ p5[1] = Op("join") /\ p5[2] = Bar(s)
      /\ p5[3] = Op("destroy")
  BY <1>2, Threes
<1>5. ASSUME NEW k \in 1..T
      PROVE  /\ s2[k] \in Seq(Operation) /\ Len(s2[k]) = 1 /\ s2[k][1] = Schedule(k - 1, "init")
             /\ s4[k] \in Seq(Operation) /\ Len(s4[k]) = 2 /\ s4[k][1] = Schedule(k - 1, "exchange")
             /\ s4[k][2] = Schedule(k - 1, "exit")
  <2>1. k - 1 \in Nat
    BY <1>0
  <2>2. /\ Schedule(k - 1, "init") \in Operation /\ Schedule(k - 1, "exchange") \in Operation
        /\ Schedule(k - 1, "exit") \in Operation
    BY <2>1, Operations
  <2>3. s2[k] = <<Schedule(k - 1, "init")>> /\ s4[k] = <<Schedule(k - 1, "exchange"), Schedule(k - 1, "exit")>>
    OBVIOUS
  <2> HIDE DEF s2, s4
  <2>4. QED
    BY <2>2, <2>3, Singles, Pairs
<1>6. s2 \in [1..T -> Seq(Operation)] /\ s4 \in [1..T -> Seq(Operation)]
  <2>1. s2 = [k \in 1..T |-> s2[k]] /\ s4 = [k \in 1..T |-> s4[k]]
    OBVIOUS
  <2> HIDE DEF s2, s4
  <2>2. QED
    BY <1>5, <2>1
<1> HIDE DEF p1, s2, p2, p3, s4, p4, p5, m, T
<1>7. p2 \in Seq(Operation) /\ Len(p2) = T /\ \A k \in 1..T : p2[k] = Schedule(k - 1, "init")
  <2>1. p2 \in Seq(Operation) /\ Len(p2) = T /\ \A k \in 1..T : p2[k] = s2[k][1]
    BY <1>0, <1>5, <1>6, FlattenOnes DEF p2
  <2>2. QED
    BY <1>5, <2>1
<1>8. /\ p4 \in Seq(Operation) /\ Len(p4) = T + T
      /\ \A k \in 1..T : /\ p4[k + k - 1] = Schedule(k - 1, "exchange")
                         /\ p4[k + k] = Schedule(k - 1, "exit")
  <2>1. /\ p4 \in Seq(Operation) /\ Len(p4) = T + T
        /\ \A k \in 1..T : p4[k + k - 1] = s4[k][1] /\ p4[k + k] = s4[k][2]
    BY <1>0, <1>5, <1>6, FlattenTwos DEF p4
  <2>2. QED
    BY <1>5, <2>1
<1>9. FiveParts(Operation, p1, p2, p3, p4, p5, m)
  BY <1>1, <1>3, <1>4, <1>7, <1>8, Five
<1>10. /\ m \in Seq(Operation) /\ Len(m) = 2 + T + 2 + (T + T) + 3
       /\ Part(p1, m, 0) /\ Part(p2, m, 2) /\ Part(p3, m, 2 + T) /\ Part(p4, m, 2 + T + 2)
       /\ Part(p5, m, 2 + T + 2 + (T + T))
  BY <1>3, <1>4, <1>7, <1>8, <1>9 DEF FiveParts
<1>11. m[0 + 1] = Bar(s) /\ m[0 + 2] = Bar(s)
  BY <1>3, <1>10 DEF Part
<1>12. m[2 + T + 1] = Op("sync") /\ m[2 + T + 2] = Bar(s)
  BY <1>3, <1>10 DEF Part
<1>13. /\ m[2 + T + 2 + (T + T) + 1] = Op("join") /\ m[2 + T + 2 + (T + T) + 2] = Bar(s)
       /\ m[2 + T + 2 + (T + T) + 3] = Op("destroy")
  BY <1>4, <1>10 DEF Part
<1>14. ASSUME NEW j \in 0..(T - 1)
       PROVE  /\ m[3 + j] = Schedule(j, "init") /\ m[T + 5 + j + j] = Schedule(j, "exchange")
              /\ m[T + 6 + j + j] = Schedule(j, "exit")
  <2> DEFINE k == j + 1
  <2>1. /\ k \in 1..T /\ k - 1 = j /\ 2 + k = 3 + j /\ k + k - 1 \in 1..(T + T) /\ k + k \in 1..(T + T)
        /\ 2 + T + 2 + (k + k - 1) = T + 5 + j + j /\ 2 + T + 2 + (k + k) = T + 6 + j + j
    BY <1>0
  <2> HIDE DEF k
  <2>2. m[2 + k] = p2[k]
    BY <1>7, <1>10, <2>1 DEF Part
  <2>3. m[2 + T + 2 + (k + k - 1)] = p4[k + k - 1] /\ m[2 + T + 2 + (k + k)] = p4[k + k]
    BY <1>8, <1>10, <2>1 DEF Part
  <2>4. QED
    BY <1>7, <1>8, <2>1, <2>2, <2>3
<1>15. /\ 2 + T + 2 + (T + T) + 3 = T + T + T + 7 /\ 0 + 1 = 1 /\ 0 + 2 = 2 /\ 2 + T + 1 = T + 3
       /\ 2 + T + 2 = T + 4 /\ 2 + T + 2 + (T + T) + 1 = T + T + T + 5
       /\ 2 + T + 2 + (T + T) + 2 = T + T + T + 6
  BY <1>0
<1>16. /\ Len(m) = T + T + T + 7 /\ m[1] = Bar(s) /\ m[2] = Bar(s)
       /\ m[T + 3] = Op("sync") /\ m[T + 4] = Bar(s)
       /\ m[T + T + T + 5] = Op("join") /\ m[T + T + T + 6] = Bar(s)
       /\ m[T + T + T + 7] = Op("destroy")
  BY <1>10, <1>11, <1>12, <1>13, <1>15
<1>17. QED
  BY <1>10, <1>14, <1>16 DEF BenchmarkOps, T, m

\* Making the decomposition takes one create with --MPICart and two without, and
\* taking it down as many frees.
BuildLen(s) == IF s.cart THEN 1 ELSE 2

LEMMA BuildIs ==
  ASSUME NEW s, s.cart \in BOOLEAN
  PROVE  /\ Build(s) \in Seq(Operation) /\ Len(Build(s)) = BuildLen(s)
         /\ s.cart => Build(s)[1] = Create("world", "cart")
         /\ ~s.cart => Build(s)[1] = Create("world", "hw") /\ Build(s)[2] = Create("hw", "cart")
         /\ TearDown(s) \in Seq(Operation) /\ Len(TearDown(s)) = BuildLen(s)
         /\ TearDown(s)[1] = Call("free", "cart")
         /\ ~s.cart => TearDown(s)[2] = Call("free", "hw")
<1>1. /\ Create("world", "cart") \in Operation /\ Create("world", "hw") \in Operation
      /\ Create("hw", "cart") \in Operation
      /\ Call("free", "cart") \in Operation /\ Call("free", "hw") \in Operation
  BY Operations DEF Comm, CallName
<1> DEFINE fc == Call("free", "cart")
           fh == Call("free", "hw")
           a == Create("world", "cart")
           b == Create("world", "hw")
           e == Create("hw", "cart")
<1>2. CASE s.cart
  <2>1. Build(s) = <<a>> /\ TearDown(s) = <<fc>> \o <<>>
    BY <1>2 DEF Build, TearDown, When
  <2>2. <<a>> \in Seq(Operation) /\ Len(<<a>>) = 1 /\ <<a>>[1] = a
        /\ <<fc>> \in Seq(Operation) /\ Len(<<fc>>) = 1 /\ <<fc>>[1] = fc
    BY <1>1, Singles
  <2>3. <<fc>> \o <<>> = <<fc>>
    BY <2>2, ConcatEmptySeq
  <2> HIDE DEF a, fc
  <2>4. /\ Build(s) \in Seq(Operation) /\ Len(Build(s)) = 1 /\ Build(s)[1] = a
        /\ TearDown(s) \in Seq(Operation) /\ Len(TearDown(s)) = 1 /\ TearDown(s)[1] = fc
    BY <2>1, <2>2, <2>3
  <2>5. QED
    BY <1>2, <2>4 DEF BuildLen, a, fc
<1>3. CASE ~s.cart
  <2>1. Build(s) = <<b, e>> /\ TearDown(s) = <<fc>> \o <<fh>>
    BY <1>3 DEF Build, TearDown, When
  <2>2. <<b, e>> \in Seq(Operation) /\ Len(<<b, e>>) = 2 /\ <<b, e>>[1] = b /\ <<b, e>>[2] = e
        /\ <<fc, fh>> \in Seq(Operation) /\ Len(<<fc, fh>>) = 2 /\ <<fc, fh>>[1] = fc /\ <<fc, fh>>[2] = fh
    BY <1>1, Pairs
  <2>3. <<fc>> \o <<fh>> = <<fc, fh>>
    BY Tuples
  <2> HIDE DEF b, e, fc, fh
  <2>4. /\ Build(s) \in Seq(Operation) /\ Len(Build(s)) = 2 /\ Build(s)[1] = b /\ Build(s)[2] = e
        /\ TearDown(s) \in Seq(Operation) /\ Len(TearDown(s)) = 2 /\ TearDown(s)[1] = fc
        /\ TearDown(s)[2] = fh
    BY <2>1, <2>2, <2>3
  <2>5. QED
    BY <1>3, <2>4 DEF BuildLen, b, e, fc, fh
<1>4. QED
  BY <1>2, <1>3

\* init, then b, m and t, then finalize.
MainParts(b, m, t, c) ==
    /\ c \in Seq(Operation) /\ Len(c) = Len(b) + Len(m) + Len(t) + 2
    /\ c[1] = Op("init")
    /\ Part(b, c, 1) /\ Part(m, c, 1 + Len(b)) /\ Part(t, c, 1 + Len(b) + Len(m))
    /\ c[Len(c)] = Op("finalize")

\* Where the parts of main are: init, b, m, t and finalize.
LEMMA MainPartsAre ==
  ASSUME NEW b \in Seq(Operation), NEW m \in Seq(Operation), NEW t \in Seq(Operation)
  PROVE  MainParts(b, m, t, <<Op("init")>> \o (((b \o m) \o t) \o <<Op("finalize")>>))
<1> DEFINE i == <<Op("init")>>
           f == <<Op("finalize")>>
           d == ((b \o m) \o t) \o f
           c == i \o d
<1>1. i \in Seq(Operation) /\ Len(i) = 1 /\ i[1] = Op("init")
      /\ f \in Seq(Operation) /\ Len(f) = 1 /\ f[1] = Op("finalize")
  <2>1. Op("init") \in Operation /\ Op("finalize") \in Operation
    BY Operations DEF Plain
  <2>2. QED
    BY <2>1, Singles
<1> HIDE DEF i, f
<1>2. FourParts(Operation, b, m, t, f, d)
  BY <1>1, Four
<1> HIDE DEF d
<1> DEFINE x == Len(b)
           y == Len(m)
           z == Len(t)
<1>3. /\ d \in Seq(Operation) /\ Len(d) = x + y + z + 1
      /\ Part(b, d, 0) /\ Part(m, d, x) /\ Part(t, d, x + y) /\ Part(f, d, x + y + z)
  BY <1>1, <1>2 DEF FourParts
<1>4. x \in Nat /\ y \in Nat /\ z \in Nat
  OBVIOUS
<1>5. /\ c \in Seq(Operation) /\ Len(c) = Len(i) + Len(d) /\ Part(i, c, 0) /\ Part(d, c, Len(i))
  BY ONLY <1>1, <1>3, Joint
<1> HIDE DEF c
<1>6. /\ Len(c) = x + y + z + 2 /\ Part(d, c, 1) /\ c[0 + 1] = Op("init")
  BY <1>1, <1>3, <1>4, <1>5 DEF Part
<1>7. Part(b, c, 1 + 0) /\ Part(m, c, 1 + x) /\ Part(t, c, 1 + (x + y)) /\ Part(f, c, 1 + (x + y + z))
  <2>1. /\ 0 + x <= Len(d) /\ x + y <= Len(d) /\ (x + y) + z <= Len(d) /\ (x + y + z) + 1 <= Len(d)
        /\ 0 \in Nat /\ 1 \in Nat /\ x + y \in Nat /\ x + y + z \in Nat /\ Len(d) \in Nat
    BY <1>3, <1>4
  <2>2. Part(b, c, 1 + 0) /\ Part(m, c, 1 + x)
    BY <1>3, <1>4, <1>6, <2>1, PartOfPart
  <2>3. Part(t, c, 1 + (x + y))
    BY <1>3, <1>4, <1>6, <2>1, PartOfPart
  <2>4. Part(f, c, 1 + (x + y + z))
    <3> DEFINE k == x + y + z
    <3>1. k \in Nat /\ Part(f, d, k) /\ k + Len(f) <= Len(d) /\ Len(f) \in Nat
      BY <1>1, <1>3, <2>1
    <3> HIDE DEF k
    <3>2. Part(f, c, 1 + k)
      BY <1>6, <2>1, <3>1, PartOfPart
    <3>3. QED
      BY <3>2 DEF k
  <2>5. QED
    BY <2>2, <2>3, <2>4
<1>8. c[(1 + (x + y + z)) + 1] = Op("finalize")
  BY <1>1, <1>7 DEF Part
<1>9. /\ 1 + 0 = 1 /\ 1 + (x + y) = 1 + x + y /\ (1 + (x + y + z)) + 1 = Len(c) /\ 0 + 1 = 1
      /\ Len(c) = x + y + z + 2
  BY <1>4, <1>6
<1>10. c[1] = Op("init") /\ c[Len(c)] = Op("finalize")
  BY <1>6, <1>8, <1>9
<1>11. Part(b, c, 1) /\ Part(m, c, 1 + x) /\ Part(t, c, 1 + x + y)
  BY <1>7, <1>9
<1>12. MainParts(b, m, t, c)
  BY <1>5, <1>9, <1>10, <1>11 DEF MainParts
<1>13. QED
  BY <1>12 DEF c, d, i, f
(***************************************************************************)
(* The communicators a rank holds when main is about to do its n-th operation.  *)
(***************************************************************************)
Builds(s) == s.mode \in {"print", "run"}
CartAt(s) == IF s.cart THEN 2 ELSE 3
FreedAt(s, c) == IF ~IsRun(s) THEN MainLen(s) + 1
                 ELSE IF c = "cart" THEN DestroyAt(s) + 1 ELSE DestroyAt(s) + 2

HoldsFrom(s, n, c) ==
    CASE c = "world" -> n > 1
      [] c = "hw"    -> Builds(s) /\ (~s.cart) /\ n > 2 /\ n <= FreedAt(s, c)
      [] c = "cart"  -> Builds(s) /\ n > CartAt(s) /\ n <= FreedAt(s, c)

Holds(s, n) == {c \in Comm : HoldsFrom(s, n, c)}

\* What a call does to them.
After(o, held) == CASE o.call = "create" -> held \union {o.new}
                    [] o.call = "free"   -> held \ {o.comm}
                    [] OTHER             -> held

(***************************************************************************)
(* The n-th operation of main.                                              *)
(***************************************************************************)
Keeps(s, n) == Holds(s, n + 1) = Holds(s, n)

ScheduleOp(s, n, o) ==
    \E j \in 0..(s.threads - 1) :
      \/ o = Schedule(j, "init") /\ n = Lead(s) + 1 + j
      \/ o = Schedule(j, "exchange") /\ n = ReadyAt(s) + 1 + j + j
      \/ o = Schedule(j, "exit") /\ n = ReadyAt(s) + 2 + j + j

CallOp(s, n, o) ==
    /\ o.op = "call" /\ o \in Operation /\ n > 1 /\ n < MainLen(s)
    /\ IsRun(s) => n <= Lead(s) \/ n = ReadyAt(s) \/ n = EndedAt(s) \/ n > DestroyAt(s)
    /\ o.comm \in Holds(s, n)
    /\ Holds(s, n + 1) = After(o, Holds(s, n))
    /\ IsRun(s) /\ n \in {ReadyAt(s), EndedAt(s)} => o = Bar(s)

MainOp(s, n, o) ==
    \/ o = Op("init") /\ n = 1
    \/ o = Op("finalize") /\ n = MainLen(s) /\ n > 1 /\ s.mode # "config" /\ Keeps(s, n)
    \/ /\ IsRun(s) /\ Keeps(s, n)
       /\ \/ ScheduleOp(s, n, o)
          \/ o = Op("sync") /\ n = SyncAt(s)
          \/ o = Op("join") /\ n = JoinAt(s)
          \/ o = Op("destroy") /\ n = DestroyAt(s)
    \/ CallOp(s, n, o)

\* Sets of communicators are told apart by the three there are.
LEMMA Comms ==
  ASSUME NEW a, NEW b, a \subseteq Comm, b \subseteq Comm,
         "world" \in a <=> "world" \in b, "hw" \in a <=> "hw" \in b, "cart" \in a <=> "cart" \in b
  PROVE  a = b
<1>1. ASSUME NEW c \in Comm PROVE c \in a <=> c \in b
  BY DEF Comm
<1>2. QED
  BY <1>1

\* Which communicators main holds at its n-th operation.
LEMMA HoldsIs ==
  ASSUME NEW s, NEW n
  PROVE  /\ Holds(s, n) \subseteq Comm
         /\ "world" \in Holds(s, n) <=> n > 1
         /\ "hw" \in Holds(s, n) <=> Builds(s) /\ (~s.cart) /\ n > 2 /\ n <= FreedAt(s, "hw")
         /\ "cart" \in Holds(s, n) <=> Builds(s) /\ n > CartAt(s) /\ n <= FreedAt(s, "cart")
BY DEF Holds, HoldsFrom, Comm

\* Where sync, join, the barriers after them and destroy are in main.
LEMMA Landmarks ==
  ASSUME NEW s, SetupOk(s)
  PROVE  /\ Lead(s) \in {4, 5} /\ (s.cart => Lead(s) = 4) /\ (~s.cart => Lead(s) = 5)
         /\ SyncAt(s) = Lead(s) + s.threads + 1 /\ ReadyAt(s) = SyncAt(s) + 1
         /\ JoinAt(s) = ReadyAt(s) + s.threads + s.threads + 1
         /\ EndedAt(s) = JoinAt(s) + 1 /\ DestroyAt(s) = JoinAt(s) + 2
         /\ s.threads \in Nat /\ s.threads >= 1
         /\ SyncAt(s) \in Nat /\ ReadyAt(s) \in Nat /\ JoinAt(s) \in Nat
         /\ MainLen(s) \in Nat \ {0}
         /\ IsRun(s) => MainLen(s) = IF s.cart THEN DestroyAt(s) + 2 ELSE DestroyAt(s) + 3
         /\ ~IsRun(s) => MainLen(s) \in {1, 2, 6, 8}
         /\ s.mode = "config" => MainLen(s) = 1
         /\ s.mode = "refused" => MainLen(s) = 2
         /\ s.mode = "print" => MainLen(s) = IF s.cart THEN 6 ELSE 8
<1>1. s.threads \in Nat /\ s.threads >= 1 /\ s.cart \in BOOLEAN
      /\ s.mode \in {"config", "refused", "print", "run"}
  BY DEF SetupOk
<1>2. /\ Lead(s) \in {4, 5} /\ (s.cart => Lead(s) = 4) /\ (~s.cart => Lead(s) = 5)
      /\ SyncAt(s) = Lead(s) + s.threads + 1 /\ ReadyAt(s) = SyncAt(s) + 1
      /\ JoinAt(s) = ReadyAt(s) + s.threads + s.threads + 1
      /\ EndedAt(s) = JoinAt(s) + 1 /\ DestroyAt(s) = JoinAt(s) + 2
  BY DEF Lead, SyncAt, ReadyAt, JoinAt, EndedAt, DestroyAt
<1>3. /\ IsRun(s) => MainLen(s) = IF s.cart THEN DestroyAt(s) + 2 ELSE DestroyAt(s) + 3
      /\ s.mode = "config" => MainLen(s) = 1
      /\ s.mode = "refused" => MainLen(s) = 2
      /\ s.mode = "print" => MainLen(s) = IF s.cart THEN 6 ELSE 8
  BY DEF MainLen, IsRun
<1>4. SyncAt(s) \in Nat /\ ReadyAt(s) \in Nat /\ JoinAt(s) \in Nat /\ DestroyAt(s) \in Nat
  BY <1>1, <1>2
<1>5. MainLen(s) \in Nat \ {0}
  BY <1>1, <1>3, <1>4 DEF IsRun
<1>6. ~IsRun(s) => MainLen(s) \in {1, 2, 6, 8}
  BY <1>1, <1>3 DEF IsRun
<1>7. QED
  BY <1>1, <1>2, <1>3, <1>4, <1>5, <1>6

\* Nothing changes but where a communicator is made or freed.
LEMMA HoldsKept ==
  ASSUME NEW s, SetupOk(s), NEW n \in 1..MainLen(s), n > CartAt(s) \/ (n > 1 /\ ~Builds(s)),
         IsRun(s) => n < DestroyAt(s) + 1 \/ n = MainLen(s)
  PROVE  Keeps(s, n)
<1> DEFINE a == Holds(s, n + 1)
           b == Holds(s, n)
           L == MainLen(s)
           de == DestroyAt(s)
<1>1. /\ a \subseteq Comm
      /\ "world" \in a <=> n + 1 > 1
      /\ "hw" \in a <=> Builds(s) /\ (~s.cart) /\ n + 1 > 2 /\ n + 1 <= FreedAt(s, "hw")
      /\ "cart" \in a <=> Builds(s) /\ n + 1 > CartAt(s) /\ n + 1 <= FreedAt(s, "cart")
  BY HoldsIs
<1>2. /\ b \subseteq Comm
      /\ "world" \in b <=> n > 1
      /\ "hw" \in b <=> Builds(s) /\ (~s.cart) /\ n > 2 /\ n <= FreedAt(s, "hw")
      /\ "cart" \in b <=> Builds(s) /\ n > CartAt(s) /\ n <= FreedAt(s, "cart")
  BY HoldsIs
<1>3. /\ CartAt(s) \in {2, 3} /\ (~s.cart => CartAt(s) = 3)
      /\ ~IsRun(s) => FreedAt(s, "hw") = L + 1 /\ FreedAt(s, "cart") = L + 1
      /\ IsRun(s) => FreedAt(s, "cart") = de + 1 /\ FreedAt(s, "hw") = de + 2
  BY DEF CartAt, FreedAt
<1>4. /\ L \in Nat \ {0} /\ de \in Nat
      /\ IsRun(s) => L = IF s.cart THEN de + 2 ELSE de + 3
  BY Landmarks
<1>5. n \in 1..L /\ (IsRun(s) => n < de + 1 \/ n = L) /\ s.cart \in BOOLEAN
  BY DEF SetupOk
<1> HIDE DEF a, b, L, de
<1>6. "world" \in a <=> "world" \in b
  BY <1>1, <1>2, <1>3, <1>5
<1>7. "hw" \in a <=> "hw" \in b
  <2>1. CASE IsRun(s)
    BY <1>1, <1>2, <1>3, <1>4, <1>5, <2>1
  <2>2. CASE ~IsRun(s)
    BY <1>1, <1>2, <1>3, <1>4, <1>5, <2>2
  <2>3. QED
    BY <2>1, <2>2
<1>8. "cart" \in a <=> "cart" \in b
  <2>1. CASE IsRun(s)
    BY <1>1, <1>2, <1>3, <1>4, <1>5, <2>1
  <2>2. CASE ~IsRun(s)
    BY <1>1, <1>2, <1>3, <1>4, <1>5, <2>2
  <2>3. QED
    BY <2>1, <2>2
<1>9. a = b
  BY <1>1, <1>2, <1>6, <1>7, <1>8, Comms
<1>10. QED
  BY <1>9 DEF Keeps, a, b

\* The communicators in the time between making and freeing them.
LEMMA CommHeld ==
  ASSUME NEW s, SetupOk(s), Builds(s), NEW n \in Nat, n > CartAt(s), n <= MainLen(s),
         IsRun(s) => n <= DestroyAt(s)
  PROVE  /\ MpiComm(s) \in Holds(s, n) /\ "cart" \in Holds(s, n) /\ "world" \in Holds(s, n)
         /\ ~s.cart => "hw" \in Holds(s, n)
<1>1. /\ "world" \in Holds(s, n) <=> n > 1
      /\ "hw" \in Holds(s, n) <=> Builds(s) /\ (~s.cart) /\ n > 2 /\ n <= FreedAt(s, "hw")
      /\ "cart" \in Holds(s, n) <=> Builds(s) /\ n > CartAt(s) /\ n <= FreedAt(s, "cart")
  BY HoldsIs
<1>2. /\ CartAt(s) \in {2, 3}
      /\ ~IsRun(s) => FreedAt(s, "hw") = MainLen(s) + 1 /\ FreedAt(s, "cart") = MainLen(s) + 1
      /\ IsRun(s) => FreedAt(s, "cart") = DestroyAt(s) + 1 /\ FreedAt(s, "hw") = DestroyAt(s) + 2
  BY DEF CartAt, FreedAt
<1>3. MainLen(s) \in Nat /\ DestroyAt(s) \in Nat
  BY Landmarks
<1>4. n <= FreedAt(s, "cart") /\ n <= FreedAt(s, "hw")
  <2>1. CASE IsRun(s)
    BY <1>2, <1>3, <2>1
  <2>2. CASE ~IsRun(s)
    BY <1>2, <1>3, <2>2
  <2>3. QED
    BY <2>1, <2>2
<1>5. "world" \in Holds(s, n) /\ "cart" \in Holds(s, n) /\ (~s.cart => "hw" \in Holds(s, n))
  BY <1>1, <1>2, <1>4
<1>6. QED
  BY <1>5 DEF MpiComm

\* Calls that make and free nothing.
LEMMA PlainCallOp ==
  ASSUME NEW s, SetupOk(s), Builds(s), NEW n \in Nat, n > CartAt(s), n < MainLen(s),
         IsRun(s) => n <= Lead(s) \/ n = ReadyAt(s) \/ n = EndedAt(s),
         NEW c \in CallName, NEW m \in Comm, c # "free", m \in Holds(s, n),
         IsRun(s) => Call(c, m) = Bar(s)
  PROVE  CallOp(s, n, Call(c, m))
<1>1. /\ Call(c, m) \in Operation /\ Call(c, m).op = "call" /\ Call(c, m).call = c
      /\ Call(c, m).comm = m /\ c # "create"
  BY Operations DEF CallName
<1>2. CartAt(s) \in {2, 3} /\ n \in 1..MainLen(s) /\ n > 1
  BY Landmarks DEF CartAt
<1>3. IsRun(s) => n < DestroyAt(s) + 1 /\ (n <= Lead(s) \/ n = ReadyAt(s) \/ n = EndedAt(s))
  BY Landmarks
<1>4. Keeps(s, n)
  BY <1>2, <1>3, HoldsKept
<1>5. After(Call(c, m), Holds(s, n)) = Holds(s, n)
  BY <1>1 DEF After
<1>6. QED
  BY <1>1, <1>2, <1>3, <1>4, <1>5 DEF CallOp, Keeps

\* A barrier of main is on a communicator that it holds.
LEMMA BarOp ==
  ASSUME NEW s, SetupOk(s), Builds(s), NEW n \in Nat, n > CartAt(s), n < MainLen(s),
         IsRun(s) => n <= Lead(s) \/ n = ReadyAt(s) \/ n = EndedAt(s)
  PROVE  CallOp(s, n, Bar(s))
<1>1. (IsRun(s) => n <= DestroyAt(s)) /\ n <= MainLen(s)
  BY Landmarks
<1>2. MpiComm(s) \in Holds(s, n)
  BY <1>1, CommHeld
<1>3. MpiComm(s) \in Comm /\ "barrier" \in CallName
  BY CommIs DEF CallName
<1>4. QED
  BY <1>2, <1>3, PlainCallOp DEF Bar

\* The calls that make the communicators.
LEMMA CreateOp ==
  ASSUME NEW s, SetupOk(s), Builds(s), NEW n, NEW from \in Comm, NEW to \in Comm,
         \/ s.cart /\ n = 2 /\ from = "world" /\ to = "cart"
         \/ ~s.cart /\ n = 2 /\ from = "world" /\ to = "hw"
         \/ ~s.cart /\ n = 3 /\ from = "hw" /\ to = "cart"
  PROVE  CallOp(s, n, Create(from, to))
<1> DEFINE a == Holds(s, n + 1)
           b == Holds(s, n)
           o == Create(from, to)
<1>1. o \in Operation /\ o.op = "call" /\ o.call = "create" /\ o.comm = from /\ o.new = to
  BY Operations
<1>2. n \in {2, 3} /\ n < MainLen(s) /\ (IsRun(s) => n <= Lead(s) /\ n # ReadyAt(s) /\ n # EndedAt(s))
  <2>1. n \in {2, 3}
    OBVIOUS
  <2>2. s.mode = "print" \/ IsRun(s)
    BY DEF Builds, IsRun
  <2>3. IsRun(s) => n <= Lead(s) /\ n # ReadyAt(s) /\ n # EndedAt(s) /\ n < MainLen(s)
    BY <2>1, Landmarks
  <2>4. s.mode = "print" => n < MainLen(s)
    BY <2>1, Landmarks
  <2>5. QED
    BY <2>1, <2>2, <2>3, <2>4
<1>3. /\ FreedAt(s, "hw") > 4 /\ FreedAt(s, "cart") > 4
      /\ FreedAt(s, "hw") \in Nat /\ FreedAt(s, "cart") \in Nat
  <2>1. s.mode = "print" \/ IsRun(s)
    BY DEF Builds, IsRun
  <2>2. IsRun(s) => DestroyAt(s) > 4 /\ DestroyAt(s) \in Nat
    BY Landmarks
  <2>3. ~IsRun(s) => MainLen(s) \in {6, 8}
    BY <2>1, Landmarks
  <2>4. QED
    BY <2>2, <2>3 DEF FreedAt
<1>4. /\ CartAt(s) = IF s.cart THEN 2 ELSE 3
      /\ s.cart \in BOOLEAN
  BY DEF CartAt, SetupOk
<1>5. /\ a \subseteq Comm
      /\ "world" \in a <=> n + 1 > 1
      /\ "hw" \in a <=> Builds(s) /\ (~s.cart) /\ n + 1 > 2 /\ n + 1 <= FreedAt(s, "hw")
      /\ "cart" \in a <=> Builds(s) /\ n + 1 > CartAt(s) /\ n + 1 <= FreedAt(s, "cart")
  BY HoldsIs
<1>6. /\ b \subseteq Comm
      /\ "world" \in b <=> n > 1
      /\ "hw" \in b <=> Builds(s) /\ (~s.cart) /\ n > 2 /\ n <= FreedAt(s, "hw")
      /\ "cart" \in b <=> Builds(s) /\ n > CartAt(s) /\ n <= FreedAt(s, "cart")
  BY HoldsIs
<1> HIDE DEF a, b, o
<1>7. /\ "world" \in a /\ "world" \in b
      /\ "hw" \in a <=> ~s.cart
      /\ "hw" \in b <=> (~s.cart) /\ n = 3
      /\ "cart" \in a <=> s.cart \/ n = 3
      /\ "cart" \notin b
  BY <1>2, <1>3, <1>4, <1>5, <1>6
<1>8. a = b \union {to}
  <2> DEFINE e == b \union {to}
  <2>1. e \subseteq Comm
    BY <1>6
  <2>2. "world" \in a <=> "world" \in e
    BY <1>7
  <2>3. "hw" \in a <=> "hw" \in e
    BY <1>7
  <2>4. "cart" \in a <=> "cart" \in e
    BY <1>7
  <2> HIDE DEF e
  <2>5. a = e
    BY <1>5, <2>1, <2>2, <2>3, <2>4, Comms
  <2>6. QED
    BY <2>5 DEF e
<1>9. After(o, b) = a
  BY <1>1, <1>8 DEF After
<1>10. from \in b
  BY <1>7
<1>11. QED
  BY <1>1, <1>2, <1>9, <1>10 DEF CallOp, a, b, o

\* The calls that free them.
LEMMA FreeOp ==
  ASSUME NEW s, SetupOk(s), IsRun(s), NEW n, NEW m \in Comm,
         \/ n = DestroyAt(s) + 1 /\ m = "cart"
         \/ ~s.cart /\ n = DestroyAt(s) + 2 /\ m = "hw"
  PROVE  CallOp(s, n, Call("free", m))
<1> DEFINE a == Holds(s, n + 1)
           b == Holds(s, n)
           o == Call("free", m)
           de == DestroyAt(s)
<1>1. o \in Operation /\ o.op = "call" /\ o.call = "free" /\ o.comm = m
  BY Operations DEF CallName
<1>2. /\ de \in Nat /\ de > 6 /\ n \in Nat /\ n \in {de + 1, de + 2}
      /\ n > 1 /\ n < MainLen(s) /\ n > de /\ n # ReadyAt(s) /\ n # EndedAt(s)
  <2>1. de \in Nat /\ de > 6 /\ n \in Nat /\ n \in {de + 1, de + 2} /\ n > 1
    BY Landmarks
  <2>2. n > de /\ n # ReadyAt(s) /\ n # EndedAt(s)
    BY Landmarks
  <2>3. n < MainLen(s)
    BY Landmarks DEF SetupOk
  <2>4. QED
    BY <2>1, <2>2, <2>3
<1>3. /\ FreedAt(s, "hw") = de + 2 /\ FreedAt(s, "cart") = de + 1
      /\ CartAt(s) \in {2, 3} /\ Builds(s) /\ s.cart \in BOOLEAN
  BY DEF FreedAt, CartAt, Builds, IsRun, SetupOk
<1>4. /\ a \subseteq Comm
      /\ "world" \in a <=> n + 1 > 1
      /\ "hw" \in a <=> Builds(s) /\ (~s.cart) /\ n + 1 > 2 /\ n + 1 <= FreedAt(s, "hw")
      /\ "cart" \in a <=> Builds(s) /\ n + 1 > CartAt(s) /\ n + 1 <= FreedAt(s, "cart")
  BY HoldsIs
<1>5. /\ b \subseteq Comm
      /\ "world" \in b <=> n > 1
      /\ "hw" \in b <=> Builds(s) /\ (~s.cart) /\ n > 2 /\ n <= FreedAt(s, "hw")
      /\ "cart" \in b <=> Builds(s) /\ n > CartAt(s) /\ n <= FreedAt(s, "cart")
  BY HoldsIs
<1> HIDE DEF a, b, o, de
<1>6. /\ "world" \in a /\ "world" \in b
      /\ "hw" \in b <=> ~s.cart
      /\ "hw" \in a <=> (~s.cart) /\ n = de + 1
      /\ "cart" \in b <=> n = de + 1
      /\ "cart" \notin a
      /\ m = IF n = de + 1 THEN "cart" ELSE "hw"
      /\ n = de + 2 => ~s.cart
  BY <1>2, <1>3, <1>4, <1>5 DEF de
<1>7. a = b \ {m}
  <2> DEFINE e == b \ {m}
  <2>1. e \subseteq Comm
    BY <1>5
  <2>2. "world" \in a <=> "world" \in e
    BY <1>6
  <2>3. "hw" \in a <=> "hw" \in e
    BY <1>2, <1>6
  <2>4. "cart" \in a <=> "cart" \in e
    BY <1>2, <1>6
  <2> HIDE DEF e
  <2>5. a = e
    BY <1>4, <2>1, <2>2, <2>3, <2>4, Comms
  <2>6. QED
    BY <2>5 DEF e
<1>8. After(o, b) = a
  BY <1>1, <1>7 DEF After
<1>9. m \in b
  BY <1>2, <1>6
<1>10. QED
  BY <1>1, <1>2, <1>8, <1>9 DEF CallOp, a, b, o, de

\* What main does first: n is the place in its script.
LEMMA BuildOps ==
  ASSUME NEW s, SetupOk(s), Builds(s), NEW c, Part(Build(s), c, 1), NEW n \in 2..(Lead(s) - 2)
  PROVE  CallOp(s, n, c[n])
<1> DEFINE b == Build(s)
<1>1. /\ Len(b) = BuildLen(s) /\ s.cart \in BOOLEAN
      /\ s.cart => b[1] = Create("world", "cart")
      /\ ~s.cart => b[1] = Create("world", "hw") /\ b[2] = Create("hw", "cart")
  BY BuildIs DEF SetupOk
<1>2. \A k \in 1..Len(b) : c[1 + k] = b[k]
  BY DEF Part
<1> HIDE DEF b
<1>3. CASE s.cart
  <2>1. n = 2 /\ Len(b) = 1
    BY <1>1, <1>3, Landmarks DEF BuildLen
  <2>2. c[1 + 1] = b[1]
    BY <1>2, <2>1
  <2>3. c[n] = Create("world", "cart")
    BY <1>1, <1>3, <2>1, <2>2
  <2>4. QED
    BY <1>3, <2>1, <2>3, CreateOp DEF Comm
<1>4. CASE ~s.cart
  <2>1. n \in {2, 3} /\ Len(b) = 2
    BY <1>1, <1>4, Landmarks DEF BuildLen
  <2>2. c[1 + 1] = b[1] /\ c[1 + 2] = b[2]
    BY <1>2, <2>1
  <2>3. /\ n = 2 => c[n] = Create("world", "hw")
        /\ n = 3 => c[n] = Create("hw", "cart")
    BY <1>1, <1>4, <2>1, <2>2
  <2>4. QED
    BY <1>4, <2>1, <2>3, CreateOp DEF Comm
<1>5. QED
  BY <1>1, <1>3, <1>4

\* --print-decomposition
LEMMA PrintIs ==
  ASSUME NEW s, SetupOk(s), s.mode = "print"
  PROVE  /\ MainScript(s) \in Seq(Operation) /\ Len(MainScript(s)) = MainLen(s)
         /\ \A n \in 1..MainLen(s) : MainOp(s, n, MainScript(s)[n])
<1> DEFINE m == PrintOut(s)
           c == MainScript(s)
           b == Build(s)
           e == <<>>
           bw == Call("barrier", "world")
           ph == Call("print", "hw")
<1>1. s.cart \in BOOLEAN /\ Builds(s) /\ ~IsRun(s)
  BY DEF SetupOk, Builds, IsRun
<1>2. Bar(s) \in Operation /\ bw \in Operation /\ ph \in Operation
  BY Operations, CommIs DEF Bar, Comm, CallName
<1>3. /\ m \in Seq(Operation)
      /\ s.cart => Len(m) = 3 /\ m[1] = Bar(s) /\ m[2] = Bar(s) /\ m[3] = bw
      /\ ~s.cart => Len(m) = 4 /\ m[1] = Bar(s) /\ m[2] = ph /\ m[3] = Bar(s) /\ m[4] = bw
  <2> DEFINE x == <<Bar(s)>>
             z == <<Bar(s), bw>>
             y == <<ph>>
  <2>1. /\ x \in Seq(Operation) /\ Len(x) = 1 /\ x[1] = Bar(s)
        /\ y \in Seq(Operation) /\ Len(y) = 1 /\ y[1] = ph
        /\ z \in Seq(Operation) /\ Len(z) = 2 /\ z[1] = Bar(s) /\ z[2] = bw
    BY <1>2, Singles, Pairs
  <2>2. m = (x \o When(~s.cart, y)) \o z
    BY DEF PrintOut, Bar
  <2> HIDE DEF x, y, z, m, bw, ph
  <2>3. CASE s.cart
    <3>1. m = (x \o <<>>) \o z
      BY <2>2, <2>3 DEF When
    <3>2. x \o <<>> = x
      BY <2>1, ConcatEmptySeq
    <3>3. m = x \o z
      BY <3>1, <3>2
    <3>4. /\ x \o z \in Seq(Operation) /\ Len(x \o z) = Len(x) + Len(z) /\ Part(x, x \o z, 0)
          /\ Part(z, x \o z, Len(x))
      BY ONLY <2>1, Joint
    <3>5. m \in Seq(Operation) /\ Len(m) = 3 /\ Part(x, m, 0) /\ Part(z, m, 1)
      BY <2>1, <3>3, <3>4
    <3>6. m[0 + 1] = x[1] /\ m[1 + 1] = z[1] /\ m[1 + 2] = z[2]
      BY <2>1, <3>5 DEF Part
    <3>7. QED
      BY <2>1, <2>3, <3>5, <3>6
  <2>4. CASE ~s.cart
    <3>1. m = (x \o y) \o z
      BY <2>2, <2>4 DEF When
    <3>2. /\ x \o y \in Seq(Operation) /\ Len(x \o y) = Len(x) + Len(y) /\ Part(x, x \o y, 0)
          /\ Part(y, x \o y, Len(x))
      BY ONLY <2>1, Joint
    <3> DEFINE w == x \o y
    <3>3. w \in Seq(Operation) /\ Len(w) = 2 /\ Part(x, w, 0) /\ Part(y, w, 1) /\ m = w \o z
      BY <2>1, <3>1, <3>2
    <3> HIDE DEF w
    <3>4. /\ w \o z \in Seq(Operation) /\ Len(w \o z) = Len(w) + Len(z) /\ Part(w, w \o z, 0)
          /\ Part(z, w \o z, Len(w))
      BY ONLY <2>1, <3>3, Joint
    <3>5. m \in Seq(Operation) /\ Len(m) = 4 /\ Part(w, m, 0) /\ Part(z, m, 2)
      BY <2>1, <3>3, <3>4
    <3>6. w[0 + 1] = x[1] /\ w[1 + 1] = y[1]
      BY <2>1, <3>3 DEF Part
    <3>7. m[0 + 1] = w[1] /\ m[0 + 2] = w[2] /\ m[2 + 1] = z[1] /\ m[2 + 2] = z[2]
      BY <2>1, <3>3, <3>5 DEF Part
    <3>8. QED
      BY <2>1, <2>4, <3>5, <3>6, <3>7
  <2>5. QED
    BY <1>1, <2>3, <2>4
<1>3a. Len(m) = IF s.cart THEN 3 ELSE 4
  BY <1>1, <1>3
<1>4. b \in Seq(Operation) /\ Len(b) = BuildLen(s)
  BY <1>1, BuildIs
<1>5. MainParts(b, m, e, c)
  <2>1. e \in Seq(Operation)
    OBVIOUS
  <2>2. c = <<Op("init")>> \o ((b \o m) \o <<Op("finalize")>>)
    BY DEF MainScript, Program
  <2>3. (b \o m) \o e = b \o m
    <3>1. b \o m \in Seq(Operation)
      BY <1>3, <1>4, Concat
    <3>2. QED
      BY <3>1, ConcatEmptySeq
  <2>4. MainParts(b, m, e, <<Op("init")>> \o (((b \o m) \o e) \o <<Op("finalize")>>))
    <3> HIDE DEF b, m, e
    <3>1. QED
      BY <1>3, <1>4, <2>1, MainPartsAre
  <2>5. QED
    BY <2>2, <2>3, <2>4
<1>6. Len(e) = 0
  OBVIOUS
<1> HIDE DEF m, c, b, e, bw, ph
<1> DEFINE k == BuildLen(s)
<1>7. /\ k \in {1, 2} /\ Lead(s) = k + 3 /\ CartAt(s) = k + 1
      /\ s.cart => k = 1 /\ MainLen(s) = 6
      /\ ~s.cart => k = 2 /\ MainLen(s) = 8
  BY <1>1, Landmarks DEF BuildLen, CartAt
<1>8. /\ c \in Seq(Operation) /\ Len(c) = MainLen(s) /\ c[1] = Op("init")
      /\ c[MainLen(s)] = Op("finalize") /\ Part(b, c, 1) /\ Part(m, c, 1 + k)
  <2>1. Len(c) = k + Len(m) + 0 + 2
    BY <1>4, <1>5, <1>6 DEF MainParts
  <2>2. Len(c) = MainLen(s)
    <3>1. CASE s.cart
      BY <1>3a, <1>7, <2>1, <3>1
    <3>2. CASE ~s.cart
      BY <1>3a, <1>7, <2>1, <3>2
    <3>3. QED
      BY <1>1, <3>1, <3>2
  <2>3. QED
    BY <1>4, <1>5, <2>2 DEF MainParts
<1> HIDE DEF k
<1>9. ASSUME NEW n \in (k + 2)..(MainLen(s) - 1) PROVE CallOp(s, n, c[n])
  <2> DEFINE i == n - (k + 1)
  <2>1. i \in 1..Len(m) /\ 1 + k + i = n /\ n \in Nat /\ n > CartAt(s) /\ n < MainLen(s) /\ n <= MainLen(s)
    BY <1>1, <1>3a, <1>7
  <2>2. c[n] = m[i]
    BY <1>8, <2>1 DEF Part
  <2> HIDE DEF i
  <2>3. m[i] \in {Bar(s), bw} \/ (~s.cart /\ m[i] = ph)
    <3>1. CASE s.cart
      <4>1. i \in {1, 2, 3}
        BY <1>3a, <2>1, <3>1
      <4>2. QED
        BY <1>3, <3>1, <4>1
    <3>2. CASE ~s.cart
      <4>1. i \in {1, 2, 3, 4}
        BY <1>3a, <2>1, <3>2
      <4>2. QED
        BY <1>3, <3>2, <4>1
    <3>3. QED
      BY <1>1, <3>1, <3>2
  <2>4. CallOp(s, n, Bar(s))
    BY <1>1, <2>1, BarOp
  <2>5. "world" \in Holds(s, n) /\ (~s.cart => "hw" \in Holds(s, n))
    BY <1>1, <2>1, CommHeld
  <2>6. CallOp(s, n, bw)
    BY <1>1, <2>1, <2>5, PlainCallOp DEF bw, CallName, Comm
  <2>7. ~s.cart => CallOp(s, n, ph)
    BY <1>1, <2>1, <2>5, PlainCallOp DEF ph, CallName, Comm
  <2>8. QED
    BY <2>2, <2>3, <2>4, <2>6, <2>7
<1>10. ASSUME NEW n \in 1..MainLen(s) PROVE MainOp(s, n, c[n])
  <2>1. CASE n = 1
    BY <1>8, <2>1 DEF MainOp
  <2>2. CASE n = MainLen(s)
    <3>1. Keeps(s, n) /\ n > 1
      <4>1. n > CartAt(s) /\ n \in 1..MainLen(s) /\ n > 1
        BY <1>1, <1>7, <2>2
      <4>2. QED
        BY <1>1, <4>1, HoldsKept
    <3>2. QED
      BY <1>8, <2>2, <3>1 DEF MainOp
  <2>3. CASE n \in 2..(Lead(s) - 2)
    BY <1>1, <1>8, <2>3, BuildOps DEF MainOp, b
  <2>4. CASE n \in (k + 2)..(MainLen(s) - 1)
    BY <1>9, <2>4 DEF MainOp
  <2>5. QED
    BY <1>1, <1>7, <2>1, <2>2, <2>3, <2>4
<1>11. QED
  BY <1>8, <1>10 DEF c

\* The benchmark.
LEMMA RunIs ==
  ASSUME NEW s, SetupOk(s), IsRun(s)
  PROVE  /\ MainScript(s) \in Seq(Operation) /\ Len(MainScript(s)) = MainLen(s)
         /\ \A n \in 1..MainLen(s) : MainOp(s, n, MainScript(s)[n])
<1> DEFINE m == Benchmark(s)
           c == MainScript(s)
           b == Build(s)
           e == TearDown(s)
           k == BuildLen(s)
           T == s.threads
           L == MainLen(s)
<1>1. s.cart \in BOOLEAN /\ Builds(s) /\ T \in Nat /\ T >= 1
  BY DEF SetupOk, Builds, IsRun
<1>2. /\ m \in Seq(Operation) /\ Len(m) = T + T + T + 7
      /\ m[1] = Bar(s) /\ m[2] = Bar(s)
      /\ \A j \in 0..(T - 1) : /\ m[3 + j] = Schedule(j, "init")
                               /\ m[T + 5 + j + j] = Schedule(j, "exchange")
                               /\ m[T + 6 + j + j] = Schedule(j, "exit")
      /\ m[T + 3] = Op("sync") /\ m[T + 4] = Bar(s)
      /\ m[T + T + T + 5] = Op("join") /\ m[T + T + T + 6] = Bar(s)
      /\ m[T + T + T + 7] = Op("destroy")
  BY BenchmarkIs DEF BenchmarkOps
<1>3. /\ b \in Seq(Operation) /\ Len(b) = k /\ e \in Seq(Operation) /\ Len(e) = k
      /\ e[1] = Call("free", "cart") /\ (~s.cart => e[2] = Call("free", "hw"))
  BY <1>1, BuildIs
<1>4. MainParts(b, m, e, c)
  <2>1. c = <<Op("init")>> \o (((b \o m) \o e) \o <<Op("finalize")>>)
    BY DEF MainScript, Program, IsRun
  <2>2. MainParts(b, m, e, <<Op("init")>> \o (((b \o m) \o e) \o <<Op("finalize")>>))
    <3> HIDE DEF b, m, e
    <3>1. QED
      BY <1>2, <1>3, MainPartsAre
  <2>3. QED
    BY <2>1, <2>2
<1>5. /\ k \in {1, 2} /\ Lead(s) = k + 3 /\ CartAt(s) = k + 1
      /\ s.cart => k = 1
      /\ ~s.cart => k = 2
      /\ SyncAt(s) = k + T + 4 /\ ReadyAt(s) = k + T + 5 /\ JoinAt(s) = k + T + T + T + 6
      /\ EndedAt(s) = k + T + T + T + 7 /\ DestroyAt(s) = k + T + T + T + 8
      /\ L = k + k + T + T + T + 9
  <2>1. /\ k \in {1, 2} /\ (s.cart => k = 1) /\ (~s.cart => k = 2) /\ CartAt(s) = k + 1
        /\ Lead(s) = k + 3
    BY <1>1, Landmarks DEF BuildLen, CartAt
  <2>2. /\ SyncAt(s) = Lead(s) + T + 1 /\ ReadyAt(s) = SyncAt(s) + 1
        /\ JoinAt(s) = ReadyAt(s) + T + T + 1
        /\ EndedAt(s) = JoinAt(s) + 1 /\ DestroyAt(s) = JoinAt(s) + 2
        /\ L = IF s.cart THEN DestroyAt(s) + 2 ELSE DestroyAt(s) + 3
    BY Landmarks
  <2> HIDE DEF k, T, L
  <2>3. QED
    BY <1>1, <2>1, <2>2
<1> HIDE DEF m, c, b, e, k, T, L
<1>6. /\ c \in Seq(Operation) /\ Len(c) = L /\ c[1] = Op("init") /\ c[L] = Op("finalize")
      /\ Part(b, c, 1) /\ Part(m, c, 1 + k) /\ Part(e, c, 1 + k + (T + T + T + 7))
  <2>1. /\ c \in Seq(Operation) /\ Len(c) = Len(b) + Len(m) + Len(e) + 2
        /\ c[1] = Op("init") /\ Part(b, c, 1) /\ Part(m, c, 1 + Len(b)) /\ Part(e, c, 1 + Len(b) + Len(m))
        /\ c[Len(c)] = Op("finalize")
    BY <1>4 DEF MainParts
  <2>1a. Len(c) = k + (T + T + T + 7) + k + 2
    BY <1>2, <1>3, <2>1
  <2>1b. L = k + k + T + T + T + 9 /\ k \in Nat /\ T \in Nat
    BY <1>1, <1>5
  <2>2. Len(c) = L
    BY ONLY <2>1a, <2>1b
  <2>3. QED
    BY <1>2, <1>3, <2>1, <2>2
<1>7. \A i \in 1..(T + T + T + 7) : c[1 + k + i] = m[i]
  BY <1>2, <1>6 DEF Part
<1>8. ASSUME NEW n \in 1..L, n # 1, n # L, n \notin 2..(k + 1), n <= 1 + k + (T + T + T + 7)
      PROVE  n - (1 + k) \in 1..(T + T + T + 7) /\ c[n] = m[n - (1 + k)]
  <2> DEFINE i == n - (1 + k)
  <2>1. i \in 1..(T + T + T + 7) /\ 1 + k + i = n
    BY <1>1, <1>5, <1>8
  <2> HIDE DEF i
  <2>2. c[n] = m[i]
    BY <1>7, <2>1
  <2>3. QED
    BY <2>1, <2>2 DEF i
<1>9. ASSUME NEW n \in 1..L, n > k + 1, n <= DestroyAt(s) \/ n = L
      PROVE  Keeps(s, n)
  <2>1. n \in 1..MainLen(s) /\ n > CartAt(s) /\ (n < DestroyAt(s) + 1 \/ n = MainLen(s))
    BY <1>1, <1>5, <1>9 DEF L
  <2>2. QED
    BY <1>1, <2>1, HoldsKept
<1>10. ASSUME NEW n \in {k + 2, k + 3, ReadyAt(s), EndedAt(s)}
       PROVE  CallOp(s, n, Bar(s))
  <2>1. /\ n \in Nat /\ n > CartAt(s) /\ n < MainLen(s)
        /\ n <= Lead(s) \/ n = ReadyAt(s) \/ n = EndedAt(s)
    BY <1>1, <1>5 DEF L
  <2>2. QED
    BY <1>1, <2>1, BarOp
<1>11. ASSUME NEW n \in 1..L PROVE MainOp(s, n, c[n])
  <2>1. CASE n = 1
    BY <1>6, <2>1 DEF MainOp
  <2>2. CASE n = L
    <3>1. Keeps(s, n) /\ n > 1
      BY <1>1, <1>5, <1>9, <2>2
    <3>2. QED
      BY <1>6, <2>2, <3>1 DEF MainOp, L, IsRun
  <2>3. CASE n \in 2..(k + 1)
    <3>1. n \in 2..(Lead(s) - 2)
      BY <1>5, <2>3
    <3>2. CallOp(s, n, c[n])
      BY <1>1, <1>6, <3>1, BuildOps DEF b
    <3>3. QED
      BY <3>2 DEF MainOp
  <2>4. CASE n \in {k + 2, k + 3, ReadyAt(s), EndedAt(s)}
    <3>1. n # 1 /\ n # L /\ n \notin 2..(k + 1) /\ n <= 1 + k + (T + T + T + 7)
      BY <1>1, <1>5, <2>4
    <3>2. c[n] = m[n - (1 + k)]
      BY <1>8, <3>1
    <3>3. n - (1 + k) \in {1, 2, T + 4, T + T + T + 6}
      BY <1>1, <1>5, <2>4
    <3>4. c[n] = Bar(s)
      BY <1>2, <3>2, <3>3
    <3>5. QED
      BY <1>10, <2>4, <3>4 DEF MainOp
  <2>5. CASE n \in {SyncAt(s), JoinAt(s), DestroyAt(s)}
    <3>1. n # 1 /\ n # L /\ n \notin 2..(k + 1) /\ n <= 1 + k + (T + T + T + 7) /\ n > k + 1
      BY <1>1, <1>5, <2>5
    <3>2. c[n] = m[n - (1 + k)] /\ Keeps(s, n)
      BY <1>8, <1>9, <2>5, <3>1, <1>1, <1>5
    <3>3. /\ n = SyncAt(s) => n - (1 + k) = T + 3
          /\ n = JoinAt(s) => n - (1 + k) = T + T + T + 5
          /\ n = DestroyAt(s) => n - (1 + k) = T + T + T + 7
      BY <1>1, <1>5
    <3>4. /\ n = SyncAt(s) => c[n] = Op("sync")
          /\ n = JoinAt(s) => c[n] = Op("join")
          /\ n = DestroyAt(s) => c[n] = Op("destroy")
      BY <1>2, <3>2, <3>3
    <3>5. QED
      BY <2>5, <3>2, <3>4 DEF MainOp
  <2>6. CASE n \in (k + 4)..(k + T + 3)
    <3> DEFINE j == n - (k + 4)
    <3>1. n # 1 /\ n # L /\ n \notin 2..(k + 1) /\ n <= 1 + k + (T + T + T + 7) /\ n > k + 1 /\ n <= DestroyAt(s)
      BY <1>1, <1>5, <2>6
    <3>2. c[n] = m[n - (1 + k)] /\ Keeps(s, n)
      BY <1>8, <1>9, <3>1
    <3>3. j \in 0..(T - 1) /\ n - (1 + k) = 3 + j /\ n = Lead(s) + 1 + j
      BY <1>1, <1>5, <2>6
    <3> HIDE DEF j
    <3>4. c[n] = Schedule(j, "init")
      BY <1>2, <3>2, <3>3
    <3>5. ScheduleOp(s, n, c[n])
      BY <3>3, <3>4 DEF ScheduleOp, T
    <3>6. QED
      BY <3>2, <3>5 DEF MainOp
  <2>7. CASE n \in (k + T + 6)..(k + T + T + T + 5)
    <3> DEFINE x == n - (k + T + 6)
               j == x \div 2
    <3>1. n # 1 /\ n # L /\ n \notin 2..(k + 1) /\ n <= 1 + k + (T + T + T + 7) /\ n > k + 1 /\ n <= DestroyAt(s)
      BY <1>1, <1>5, <2>7
    <3>2. c[n] = m[n - (1 + k)] /\ Keeps(s, n)
      BY <1>8, <1>9, <3>1
    <3>3. x \in Nat /\ x <= T + T - 1 /\ n = x + (k + T + 6)
      BY <1>1, <1>5, <2>7
    <3> HIDE DEF x
    <3>4. j \in Nat /\ (x = j + j \/ x = j + j + 1)
      BY <3>3
    <3> HIDE DEF j
    <3>5. j \in 0..(T - 1)
      BY <1>1, <3>3, <3>4
    <3>6. CASE x = j + j
      <4>1. n - (1 + k) = T + 5 + j + j /\ n = ReadyAt(s) + 1 + j + j
        BY <1>1, <1>5, <3>3, <3>4, <3>6
      <4>2. c[n] = Schedule(j, "exchange")
        BY <1>2, <3>2, <3>5, <4>1
      <4>3. ScheduleOp(s, n, c[n])
        BY <3>5, <4>1, <4>2 DEF ScheduleOp, T
      <4>4. QED
        BY <3>2, <4>3 DEF MainOp
    <3>7. CASE x = j + j + 1
      <4>1. n - (1 + k) = T + 6 + j + j /\ n = ReadyAt(s) + 2 + j + j
        BY <1>1, <1>5, <3>3, <3>4, <3>7
      <4>2. c[n] = Schedule(j, "exit")
        BY <1>2, <3>2, <3>5, <4>1
      <4>3. ScheduleOp(s, n, c[n])
        BY <3>5, <4>1, <4>2 DEF ScheduleOp, T
      <4>4. QED
        BY <3>2, <4>3 DEF MainOp
    <3>8. QED
      BY <3>4, <3>6, <3>7
  <2>8. CASE n > DestroyAt(s) /\ n # L
    <3> DEFINE i == n - DestroyAt(s)
    <3>1. i \in 1..k /\ n = DestroyAt(s) + i /\ 1 + k + (T + T + T + 7) + i = n
      BY <1>1, <1>5, <2>8
    <3> HIDE DEF i
    <3>2. c[n] = e[i]
      BY <1>3, <1>6, <3>1 DEF Part
    <3>3. i = 1 \/ (~s.cart /\ i = 2)
      BY <1>1, <1>5, <3>1
    <3>4. CASE i = 1
      <4>1. n = DestroyAt(s) + 1 /\ c[n] = Call("free", "cart")
        BY <1>3, <3>1, <3>2, <3>4
      <4>2. CallOp(s, n, Call("free", "cart"))
        BY <4>1, FreeOp DEF Comm
      <4>3. QED
        BY <4>1, <4>2 DEF MainOp
    <3>5. CASE ~s.cart /\ i = 2
      <4>1. n = DestroyAt(s) + 2 /\ c[n] = Call("free", "hw")
        BY <1>3, <3>1, <3>2, <3>5
      <4>2. CallOp(s, n, Call("free", "hw"))
        BY <3>5, <4>1, FreeOp DEF Comm
      <4>3. QED
        BY <4>1, <4>2 DEF MainOp
    <3>6. QED
      BY <3>3, <3>4, <3>5
  <2>9. QED
    <3>1. \/ n = 1 \/ n = L \/ n \in 2..(k + 1) \/ n \in {k + 2, k + 3} \/ n \in (k + 4)..(k + T + 3)
          \/ n = k + T + 4 \/ n = k + T + 5 \/ n \in (k + T + 6)..(k + T + T + T + 5)
          \/ n = k + T + T + T + 6 \/ n = k + T + T + T + 7 \/ n = k + T + T + T + 8
          \/ n > k + T + T + T + 8 /\ n # L
      BY <1>1, <1>5
    <3>2. \/ n = 1 \/ n = L \/ n \in 2..(k + 1) \/ n \in {k + 2, k + 3, ReadyAt(s), EndedAt(s)}
          \/ n \in {SyncAt(s), JoinAt(s), DestroyAt(s)} \/ n \in (k + 4)..(k + T + 3)
          \/ n \in (k + T + 6)..(k + T + T + T + 5)
          \/ n > DestroyAt(s) /\ n # L
      BY <1>5, <3>1
    <3>3. QED
      BY <2>1, <2>2, <2>3, <2>4, <2>5, <2>6, <2>7, <2>8, <3>2
<1>12. QED
  BY <1>6, <1>11 DEF c, L

\* All of them.
LEMMA MainScriptIs ==
  ASSUME NEW s, SetupOk(s)
  PROVE  /\ MainScript(s) \in Seq(Operation) /\ Len(MainScript(s)) = MainLen(s)
         /\ \A n \in 1..MainLen(s) : MainOp(s, n, MainScript(s)[n])
<1> DEFINE c == MainScript(s)
           i == <<Op("init")>>
           f == <<Op("finalize")>>
<1>1. i \in Seq(Operation) /\ Len(i) = 1 /\ i[1] = Op("init")
      /\ f \in Seq(Operation) /\ Len(f) = 1 /\ f[1] = Op("finalize")
  <2>1. Op("init") \in Operation /\ Op("finalize") \in Operation
    BY Operations DEF Plain
  <2>2. QED
    BY <2>1, Singles
<1>2. CASE s.mode = "config"
  <2>1. c = i \o <<>>
    BY <1>2 DEF MainScript, Program
  <2> HIDE DEF c, i, f
  <2>2. c = i
    BY <1>1, <2>1, ConcatEmptySeq
  <2>3. MainLen(s) = 1
    BY <1>2, Landmarks
  <2>4. ASSUME NEW n \in 1..MainLen(s) PROVE MainOp(s, n, c[n])
    BY <1>1, <2>2, <2>3 DEF MainOp
  <2>5. QED
    BY <1>1, <2>2, <2>3, <2>4 DEF c
<1>3. CASE s.mode = "refused"
  <2>1. c = i \o f
    BY <1>3 DEF MainScript, Program
  <2>2. i \o f = <<Op("init"), Op("finalize")>>
    BY Tuples
  <2>3. Op("init") \in Operation /\ Op("finalize") \in Operation
    BY Operations DEF Plain
  <2>4. c \in Seq(Operation) /\ Len(c) = 2 /\ c[1] = Op("init") /\ c[2] = Op("finalize")
    <3> HIDE DEF c, i, f
    <3>1. c = <<Op("init"), Op("finalize")>>
      BY <2>1, <2>2
    <3>2. QED
      BY <2>3, <3>1, Pairs
  <2> HIDE DEF c, i, f
  <2>5. MainLen(s) = 2 /\ ~Builds(s) /\ ~IsRun(s)
    BY <1>3, Landmarks DEF Builds, IsRun
  <2>6. Keeps(s, 2)
    BY <2>5, HoldsKept
  <2>7. ASSUME NEW n \in 1..MainLen(s) PROVE MainOp(s, n, c[n])
    <3>1. n \in {1, 2}
      BY <2>5
    <3>2. QED
      BY <1>3, <2>4, <2>5, <2>6, <3>1 DEF MainOp
  <2>8. QED
    BY <2>4, <2>5, <2>7 DEF c
<1>4. QED
  BY <1>2, <1>3, PrintIs, RunIs DEF SetupOk, IsRun

-----------------------------------------------------------------------------
(***************************************************************************)
(* What a worker has been given when main is about to do its n-th operation,    *)
(* and where all threads are in their scripts.                               *)
(***************************************************************************)
GivenTo(s, n, j) == IF ~IsRun(s) \/ n <= Lead(s) + 1 + j THEN 0
                    ELSE IF n <= ReadyAt(s) + 1 + j + j THEN 1
                    ELSE IF n <= ReadyAt(s) + 2 + j + j THEN LW(s, j) - 1
                    ELSE LW(s, j)

at == [r \in Place |-> MainLen(setup) - Len(todo[<<r, Main>>]) + 1]

given == [q \in WorkerProc |-> GivenTo(setup, at[q[1]], q[2])]

workAt == [q \in WorkerProc |-> given[q] - Len(todo[q]) + 1]

CallNames == CallName \union {"create"}

Typed ==
    /\ setup \in Setups
    /\ todo \in [Proc -> Seq(Operation)]
    /\ busy \in [Proc -> BOOLEAN]
    /\ mpi \in [Place -> {"off", "single", "multiple"}]
    /\ comms \in [Place -> SUBSET Comm]
    /\ calls \in [Place -> [Comm -> Seq(CallNames)]]
    /\ met \in [WorkerProc -> [Meeting -> Nat]]
    /\ steps \in [WorkerProc -> Nat]
    /\ fields \in [WorkerProc -> {"none", "ready", "gone"}]

\* t is what is left of the script c from place n on.
Left(t, c, n) == \A i \in 1..Len(t) : t[i] = c[n - 1 + i]

MainPlaced(r) == /\ at[r] \in 1..(MainLen(setup) + 1)
                 /\ Left(todo[<<r, Main>>], MainScript(setup), at[r])

WorkerPlaced(q) == /\ workAt[q] \in 1..(given[q] + 1)
                   /\ Left(todo[q], WorkerScript(setup, q[2]), workAt[q])

PlaceInv == /\ \A r \in Place : MainPlaced(r)
            /\ \A q \in WorkerProc : WorkerPlaced(q)

\* A worker has been given none, one, all but one or all of its operations.
LEMMA Given ==
  ASSUME NEW s, SetupOk(s), NEW j \in 0..(s.threads - 1), NEW n
  PROVE  /\ GivenTo(s, n, j) \in {0, 1, LW(s, j) - 1, LW(s, j)} /\ GivenTo(s, n, j) \in Nat
         /\ LW(s, j) \in Nat /\ LW(s, j) >= 2
         /\ GivenTo(s, n, j) <= LW(s, j)
<1>1. LW(s, j) \in Nat /\ LW(s, j) >= 2
  BY WorkerScriptIs
<1>2. GivenTo(s, n, j) \in {0, 1, LW(s, j) - 1, LW(s, j)}
  BY DEF GivenTo
<1>3. QED
  BY <1>1, <1>2

\* Workers are given something only when it is scheduled.
LEMMA GivenStays ==
  ASSUME NEW s, SetupOk(s), NEW n \in 1..MainLen(s), NEW o, MainOp(s, n, o), o.op # "schedule",
         NEW j \in 0..(s.threads - 1)
  PROVE  GivenTo(s, n + 1, j) = GivenTo(s, n, j)
<1>1. CASE ~IsRun(s)
  BY <1>1 DEF GivenTo
<1>2. CASE IsRun(s)
  <2>1. ~ScheduleOp(s, n, o)
    BY Operations DEF ScheduleOp, SetupOk
  <2>2. \/ n = 1 \/ n = MainLen(s) \/ n \in {SyncAt(s), JoinAt(s), DestroyAt(s), ReadyAt(s)}
        \/ n <= Lead(s) \/ n = EndedAt(s) \/ n > DestroyAt(s)
    BY <1>2, <2>1 DEF MainOp, CallOp
  <2>3. n # Lead(s) + 1 + j /\ n # ReadyAt(s) + 1 + j + j /\ n # ReadyAt(s) + 2 + j + j
    BY <1>2, <2>2, Landmarks DEF SetupOk
  <2>4. /\ n + 1 <= Lead(s) + 1 + j <=> n <= Lead(s) + 1 + j
        /\ n + 1 <= ReadyAt(s) + 1 + j + j <=> n <= ReadyAt(s) + 1 + j + j
        /\ n + 1 <= ReadyAt(s) + 2 + j + j <=> n <= ReadyAt(s) + 2 + j + j
    BY <2>3, Landmarks
  <2>5. QED
    BY <2>4 DEF GivenTo
<1>3. QED
  BY <1>1, <1>2

\* A scheduled job continues what its worker has been given.
LEMMA GivenJob ==
  ASSUME NEW s, SetupOk(s), NEW n \in 1..MainLen(s), NEW o, MainOp(s, n, o), o.op = "schedule"
  PROVE  /\ o.worker \in 0..(s.threads - 1)
         /\ Job(s, o.worker, o.job) \in Seq(Operation)
         /\ GivenTo(s, n + 1, o.worker) = GivenTo(s, n, o.worker) + Len(Job(s, o.worker, o.job))
         /\ Part(Job(s, o.worker, o.job), WorkerScript(s, o.worker), GivenTo(s, n, o.worker))
         /\ \A j \in 0..(s.threads - 1) : j # o.worker => GivenTo(s, n + 1, j) = GivenTo(s, n, j)
<1>1. IsRun(s) /\ ScheduleOp(s, n, o)
  BY Operations DEF MainOp, Plain, CallOp
<1>2. PICK j \in 0..(s.threads - 1) :
        \/ o = Schedule(j, "init") /\ n = Lead(s) + 1 + j
        \/ o = Schedule(j, "exchange") /\ n = ReadyAt(s) + 1 + j + j
        \/ o = Schedule(j, "exit") /\ n = ReadyAt(s) + 2 + j + j
  BY <1>1 DEF ScheduleOp
<1>3. j \in Nat /\ s.threads \in Nat
  BY DEF SetupOk
<1>4. o.worker = j /\ o.job \in {"init", "exchange", "exit"}
      /\ (o.job = "init" => n = Lead(s) + 1 + j)
      /\ (o.job = "exchange" => n = ReadyAt(s) + 1 + j + j)
      /\ (o.job = "exit" => n = ReadyAt(s) + 2 + j + j)
  <2>1. /\ Schedule(j, "init").worker = j /\ Schedule(j, "init").job = "init"
        /\ Schedule(j, "exchange").worker = j /\ Schedule(j, "exchange").job = "exchange"
        /\ Schedule(j, "exit").worker = j /\ Schedule(j, "exit").job = "exit"
    BY <1>3, Operations
  <2>2. QED
    BY <1>2, <2>1
<1>5. /\ WorkerScript(s, j) \in Seq(Operation) /\ LW(s, j) \in Nat /\ LW(s, j) >= 2
      /\ Exchange(s, j) \in Seq(Operation) /\ Len(Exchange(s, j)) = LW(s, j) - 2
      /\ Part(Exchange(s, j), WorkerScript(s, j), 1)
      /\ \A i \in 1..LW(s, j) : WorkerOp(s, j, i, WorkerScript(s, j)[i])
  BY WorkerScriptIs
<1>6. /\ Lead(s) \in {4, 5} /\ ReadyAt(s) = Lead(s) + s.threads + 2
  BY Landmarks
<1>7. ASSUME NEW i \in 0..(s.threads - 1), i # j
      PROVE  GivenTo(s, n + 1, i) = GivenTo(s, n, i)
  <2>1. n # Lead(s) + 1 + i /\ n # ReadyAt(s) + 1 + i + i /\ n # ReadyAt(s) + 2 + i + i
    BY <1>2, <1>3, <1>6, <1>7
  <2>2. n \in Nat
    BY Landmarks
  <2>3. /\ n + 1 <= Lead(s) + 1 + i <=> n <= Lead(s) + 1 + i
        /\ n + 1 <= ReadyAt(s) + 1 + i + i <=> n <= ReadyAt(s) + 1 + i + i
        /\ n + 1 <= ReadyAt(s) + 2 + i + i <=> n <= ReadyAt(s) + 2 + i + i
    BY <1>3, <1>6, <2>1, <2>2
  <2>4. QED
    BY <2>3 DEF GivenTo
<1>8. ASSUME o.job = "init"
      PROVE  /\ Job(s, j, o.job) = <<Op("ready")>> /\ GivenTo(s, n, j) = 0 /\ GivenTo(s, n + 1, j) = 1
  <2>1. ~(n + 1 <= Lead(s) + 1 + j) /\ n + 1 <= ReadyAt(s) + 1 + j + j /\ n <= Lead(s) + 1 + j
    BY <1>3, <1>4, <1>6, <1>8
  <2>2. QED
    BY <1>1, <1>8, <2>1 DEF GivenTo, Job
<1>9. ASSUME o.job = "exchange"
      PROVE  /\ Job(s, j, o.job) = Exchange(s, j) /\ GivenTo(s, n, j) = 1
             /\ GivenTo(s, n + 1, j) = LW(s, j) - 1
  <2>1. /\ ~(n <= Lead(s) + 1 + j) /\ n <= ReadyAt(s) + 1 + j + j
        /\ ~(n + 1 <= Lead(s) + 1 + j) /\ ~(n + 1 <= ReadyAt(s) + 1 + j + j)
        /\ n + 1 <= ReadyAt(s) + 2 + j + j
    BY <1>3, <1>4, <1>6, <1>9
  <2>2. QED
    BY <1>1, <1>9, <2>1 DEF GivenTo, Job
<1>10. ASSUME o.job = "exit"
       PROVE  /\ Job(s, j, o.job) = <<Op("exit")>> /\ GivenTo(s, n, j) = LW(s, j) - 1
              /\ GivenTo(s, n + 1, j) = LW(s, j)
  <2>1. /\ ~(n <= Lead(s) + 1 + j) /\ ~(n <= ReadyAt(s) + 1 + j + j) /\ n <= ReadyAt(s) + 2 + j + j
        /\ ~(n + 1 <= Lead(s) + 1 + j) /\ ~(n + 1 <= ReadyAt(s) + 1 + j + j)
        /\ ~(n + 1 <= ReadyAt(s) + 2 + j + j)
    BY <1>3, <1>4, <1>6, <1>10
  <2>2. QED
    BY <1>1, <1>10, <2>1 DEF GivenTo, Job
<1>11. Op("ready") \in Operation /\ Op("exit") \in Operation
  BY Operations DEF Plain
<1>12. /\ WorkerScript(s, j)[1] = Op("ready")
       /\ WorkerScript(s, j)[LW(s, j)] = Op("exit")
  <2>1. /\ WorkerOp(s, j, 1, WorkerScript(s, j)[1]) /\ WorkerOp(s, j, LW(s, j), WorkerScript(s, j)[LW(s, j)])
    BY <1>5
  <2>2. LW(s, j) # 1 /\ 1 \notin 2..(LW(s, j) - 1) /\ LW(s, j) \notin 2..(LW(s, j) - 1)
    BY <1>5
  <2>3. QED
    BY <2>1, <2>2 DEF WorkerOp
<1> DEFINE job == Job(s, j, o.job)
<1>13. /\ job \in Seq(Operation) /\ GivenTo(s, n + 1, j) = GivenTo(s, n, j) + Len(job)
       /\ Part(job, WorkerScript(s, j), GivenTo(s, n, j))
  <2>1. CASE o.job = "init"
    <3>1. job = <<Op("ready")>>
      BY <1>8, <2>1
    <3> HIDE DEF job
    <3>2. job \in Seq(Operation) /\ Len(job) = 1 /\ job[1] = Op("ready")
      BY <1>11, <3>1, Singles
    <3>3. Part(job, WorkerScript(s, j), 0)
      BY <1>12, <3>2 DEF Part
    <3>4. QED
      BY <1>8, <2>1, <3>2, <3>3
  <2>2. CASE o.job = "exchange"
    <3>1. job = Exchange(s, j)
      BY <1>9, <2>2
    <3> HIDE DEF job
    <3>2. job \in Seq(Operation) /\ Len(job) = LW(s, j) - 2 /\ Part(job, WorkerScript(s, j), 1)
      BY <1>5, <3>1
    <3>3. QED
      BY <1>5, <1>9, <2>2, <3>2
  <2>3. CASE o.job = "exit"
    <3>1. job = <<Op("exit")>>
      BY <1>10, <2>3
    <3> HIDE DEF job
    <3>2. job \in Seq(Operation) /\ Len(job) = 1 /\ job[1] = Op("exit")
      BY <1>11, <3>1, Singles
    <3>3. Part(job, WorkerScript(s, j), LW(s, j) - 1)
      <4>1. (LW(s, j) - 1) + 1 = LW(s, j)
        BY <1>5
      <4>2. QED
        BY <1>12, <3>2, <4>1 DEF Part
    <3>4. QED
      BY <1>5, <1>10, <2>3, <3>2, <3>3
  <2>4. QED
    BY <1>4, <2>1, <2>2, <2>3
<1>14. QED
  BY <1>4, <1>7, <1>13

-----------------------------------------------------------------------------
(***************************************************************************)
(* Threads, and where they go on.                                           *)
(***************************************************************************)
\* Main and the workers are different threads.
LEMMA Threads ==
  ASSUME Typed
  PROVE  /\ SetupOk(setup)
         /\ \A r \in Place : <<r, Main>> \in Proc /\ <<r, Main>> \notin WorkerProc
         /\ \A r \in Place, j \in Worker : <<r, j>> \in WorkerProc
         /\ \A q \in WorkerProc : /\ q \in Proc /\ q[1] \in Place /\ q[2] \in Worker
                                  /\ q = <<q[1], q[2]>> /\ q[2] \in 0..(setup.threads - 1)
                                  /\ q[2] # Main
         /\ \A p \in Proc : p \in WorkerProc \/ (p[1] \in Place /\ p = <<p[1], Main>>)
<1>1. SetupOk(setup)
  BY SetupsOk DEF Typed
<1>2. Main \notin Worker
  BY DEF Main, Worker
<1>3. QED
  BY <1>1, <1>2 DEF Proc, WorkerProc, Worker

\* The setup of a run decides its threads.
LEMMA SameThreads ==
  ASSUME setup' = setup
  PROVE  Worker' = Worker /\ WorkerProc' = WorkerProc /\ Proc' = Proc
BY DEF Worker, WorkerProc, Proc

\* What is left to main, from where it is in its program.
LEMMA AtMain ==
  ASSUME Typed, PlaceInv, NEW r \in Place
  PROVE  /\ at[r] \in 1..(MainLen(setup) + 1) /\ MainLen(setup) \in Nat \ {0}
         /\ at[r] = MainLen(setup) - Len(todo[<<r, Main>>]) + 1
         /\ todo[<<r, Main>>] \in Seq(Operation) /\ Len(todo[<<r, Main>>]) \in Nat
         /\ todo[<<r, Main>>] # <<>> <=> at[r] <= MainLen(setup)
         /\ todo[<<r, Main>>] # <<>> =>
              /\ Now(<<r, Main>>) = MainScript(setup)[at[r]]
              /\ Now(<<r, Main>>) \in Operation
              /\ MainOp(setup, at[r], Now(<<r, Main>>))
<1> DEFINE t == todo[<<r, Main>>]
<1>1. SetupOk(setup) /\ <<r, Main>> \in Proc
  BY Threads
<1>2. t \in Seq(Operation) /\ Len(t) \in Nat
  BY <1>1 DEF Typed
<1>3. MainLen(setup) \in Nat \ {0}
  BY <1>1, Landmarks
<1>4. at[r] \in 1..(MainLen(setup) + 1) /\ Left(t, MainScript(setup), at[r])
      /\ at[r] = MainLen(setup) - Len(t) + 1
  BY DEF PlaceInv, MainPlaced, at
<1> HIDE DEF t
<1>5. t # <<>> <=> at[r] <= MainLen(setup)
  BY <1>2, <1>3, <1>4
<1>6. ASSUME t # <<>>
      PROVE  /\ Head(t) = MainScript(setup)[at[r]] /\ Head(t) \in Operation
             /\ MainOp(setup, at[r], Head(t))
  <2>1. Head(t) = t[1] /\ Head(t) \in Operation /\ 1 \in 1..Len(t)
    BY <1>2, <1>6
  <2>2. at[r] - 1 + 1 = at[r] /\ at[r] \in 1..MainLen(setup)
    BY <1>3, <1>4, <1>5, <1>6
  <2>3. t[1] = MainScript(setup)[at[r]]
    BY <1>4, <2>1, <2>2 DEF Left
  <2>4. MainOp(setup, at[r], MainScript(setup)[at[r]])
    BY <1>1, <2>2, MainScriptIs
  <2>5. QED
    BY <2>1, <2>3, <2>4
<1>7. QED
  BY <1>2, <1>3, <1>4, <1>5, <1>6 DEF t, Now

\* What is left to a worker, from where it is in what it was given.
LEMMA AtWorker ==
  ASSUME Typed, PlaceInv, NEW q \in WorkerProc
  PROVE  /\ workAt[q] \in 1..(given[q] + 1)
         /\ given[q] \in Nat /\ given[q] <= LW(setup, q[2])
         /\ given[q] = GivenTo(setup, at[q[1]], q[2])
         /\ workAt[q] = given[q] - Len(todo[q]) + 1
         /\ LW(setup, q[2]) \in Nat /\ LW(setup, q[2]) >= 2
         /\ todo[q] \in Seq(Operation) /\ Len(todo[q]) \in Nat
         /\ todo[q] # <<>> <=> workAt[q] <= given[q]
         /\ todo[q] # <<>> =>
              /\ Now(q) = WorkerScript(setup, q[2])[workAt[q]]
              /\ Now(q) \in Operation
              /\ workAt[q] \in 1..LW(setup, q[2])
              /\ WorkerOp(setup, q[2], workAt[q], Now(q))
<1> DEFINE t == todo[q]
<1>1. SetupOk(setup) /\ q \in Proc /\ q[2] \in 0..(setup.threads - 1) /\ q[1] \in Place
  BY Threads
<1>2. t \in Seq(Operation) /\ Len(t) \in Nat
  BY <1>1 DEF Typed
<1>3. /\ given[q] = GivenTo(setup, at[q[1]], q[2]) /\ workAt[q] = given[q] - Len(t) + 1
      /\ workAt[q] \in 1..(given[q] + 1) /\ Left(t, WorkerScript(setup, q[2]), workAt[q])
  BY DEF PlaceInv, WorkerPlaced, given, workAt
<1>4. /\ given[q] \in Nat /\ given[q] <= LW(setup, q[2])
      /\ LW(setup, q[2]) \in Nat /\ LW(setup, q[2]) >= 2
  BY <1>1, <1>3, Given
<1> HIDE DEF t
<1>5. t # <<>> <=> workAt[q] <= given[q]
  BY <1>2, <1>3, <1>4
<1>6. ASSUME t # <<>>
      PROVE  /\ Head(t) = WorkerScript(setup, q[2])[workAt[q]] /\ Head(t) \in Operation
             /\ workAt[q] \in 1..LW(setup, q[2])
             /\ WorkerOp(setup, q[2], workAt[q], Head(t))
  <2>1. Head(t) = t[1] /\ Head(t) \in Operation /\ 1 \in 1..Len(t)
    BY <1>2, <1>6
  <2>2. workAt[q] - 1 + 1 = workAt[q] /\ workAt[q] \in 1..LW(setup, q[2])
    BY <1>3, <1>4, <1>5, <1>6
  <2>3. t[1] = WorkerScript(setup, q[2])[workAt[q]]
    BY <1>3, <2>1, <2>2 DEF Left
  <2>4. WorkerOp(setup, q[2], workAt[q], WorkerScript(setup, q[2])[workAt[q]])
    BY <1>1, <2>2, WorkerScriptIs
  <2>5. QED
    BY <2>1, <2>2, <2>3, <2>4
<1>7. QED
  BY <1>2, <1>3, <1>4, <1>5, <1>6 DEF t, Now

-----------------------------------------------------------------------------
(***************************************************************************)
(* Moves: a thread has done its operation; main has also scheduled a job.      *)
(***************************************************************************)
\* The rest of a sequence.
LEMMA Rest ==
  ASSUME NEW X, NEW t \in Seq(X), t # <<>>, NEW c, NEW n \in Nat, Left(t, c, n)
  PROVE  Tail(t) \in Seq(X) /\ Len(Tail(t)) = Len(t) - 1 /\ Left(Tail(t), c, n + 1)
<1>1. Tail(t) \in Seq(X) /\ Len(Tail(t)) = Len(t) - 1 /\ \A i \in 1..Len(Tail(t)) : Tail(t)[i] = t[i + 1]
  OBVIOUS
<1>2. ASSUME NEW i \in 1..Len(Tail(t)) PROVE Tail(t)[i] = c[n + 1 - 1 + i]
  <2>1. i + 1 \in 1..Len(t) /\ n - 1 + (i + 1) = n + 1 - 1 + i
    BY <1>1
  <2>2. t[i + 1] = c[n - 1 + (i + 1)]
    BY <2>1 DEF Left
  <2>3. QED
    BY <1>1, <2>1, <2>2
<1>3. QED
  BY <1>1, <1>2 DEF Left

\* More of a sequence.
LEMMA More ==
  ASSUME NEW X, NEW t \in Seq(X), NEW u \in Seq(X), NEW c, NEW n \in Nat, Left(t, c, n),
         Part(u, c, n - 1 + Len(t))
  PROVE  t \o u \in Seq(X) /\ Len(t \o u) = Len(t) + Len(u) /\ Left(t \o u, c, n)
<1> DEFINE d == t \o u
<1>1. d \in Seq(X) /\ Len(d) = Len(t) + Len(u) /\ Part(t, d, 0) /\ Part(u, d, Len(t))
  BY ONLY t \in Seq(X), u \in Seq(X), Joint
<1> HIDE DEF d
<1>2. Len(t) \in Nat /\ Len(u) \in Nat
  OBVIOUS
<1>3. ASSUME NEW i \in 1..Len(d) PROVE d[i] = c[n - 1 + i]
  <2>1. CASE i <= Len(t)
    <3>1. i \in 1..Len(t) /\ 0 + i = i
      BY <1>1, <1>2, <2>1
    <3>2. QED
      BY <1>1, <3>1 DEF Part, Left
  <2>2. CASE i > Len(t)
    <3> DEFINE k == i - Len(t)
    <3>1. k \in 1..Len(u) /\ Len(t) + k = i /\ n - 1 + Len(t) + k = n - 1 + i
      BY <1>1, <1>2, <2>2
    <3> HIDE DEF k
    <3>2. d[Len(t) + k] = u[k] /\ c[n - 1 + Len(t) + k] = u[k]
      BY <1>1, <3>1 DEF Part
    <3>3. QED
      BY <3>1, <3>2
  <2>3. QED
    BY <1>1, <1>2, <2>1, <2>2
<1>4. QED
  BY <1>1, <1>3 DEF Left, d

MainDone(r) == at' = [at EXCEPT ![r] = @ + 1] /\ workAt' = workAt
WorkerDone(q) == at' = at /\ workAt' = [workAt EXCEPT ![q] = @ + 1]
NoMove == at' = at /\ workAt' = workAt

TodoOk == todo \in [Proc -> Seq(Operation)]

\* Main finishes an operation: it, and nobody else, is one further.
LEMMA PopMain ==
  ASSUME Typed, PlaceInv, setup' = setup, NEW r \in Place, todo[<<r, Main>>] # <<>>,
         Now(<<r, Main>>).op # "schedule", todo' = [todo EXCEPT ![<<r, Main>>] = Tail(@)]
  PROVE  TodoOk' /\ PlaceInv' /\ MainDone(r) /\ given' = given
<1> DEFINE p == <<r, Main>>
           L == MainLen(setup)
<1>1. Worker' = Worker /\ WorkerProc' = WorkerProc /\ Proc' = Proc
  BY SameThreads
<1>2. p \in Proc /\ SetupOk(setup) /\ \A k \in Place : <<k, Main>> \in Proc
  BY Threads
<1>3. /\ at[r] \in 1..(L + 1) /\ L \in Nat \ {0} /\ at[r] <= L
      /\ at[r] = L - Len(todo[p]) + 1 /\ todo[p] \in Seq(Operation) /\ Len(todo[p]) \in Nat
      /\ MainOp(setup, at[r], Now(p))
  BY AtMain
<1>4. todo \in [Proc -> Seq(Operation)]
  BY DEF Typed
<1>5. /\ todo'[p] = Tail(todo[p]) /\ DOMAIN todo' = Proc
      /\ \A k \in Proc : k # p => todo'[k] = todo[k]
  BY <1>2, <1>4
<1>6. Left(todo[p], MainScript(setup), at[r])
  BY DEF PlaceInv, MainPlaced
<1>7. /\ Tail(todo[p]) \in Seq(Operation) /\ Len(Tail(todo[p])) = Len(todo[p]) - 1
      /\ Left(Tail(todo[p]), MainScript(setup), at[r] + 1)
  <2>1. at[r] \in Nat
    BY <1>3
  <2>2. QED
    BY <1>3, <1>6, <2>1, Rest
<1>8. TodoOk'
  <2>1. todo' = [k \in Proc |-> todo'[k]]
    BY <1>4
  <2>2. \A k \in Proc : todo'[k] \in Seq(Operation)
    BY <1>4, <1>5, <1>7
  <2>3. todo' \in [Proc -> Seq(Operation)]
    BY <2>1, <2>2
  <2>4. QED
    BY <1>1, <2>3 DEF TodoOk
<1>9. at' = [at EXCEPT ![r] = @ + 1]
  <2>1. at' = [k \in Place |-> L - Len(todo'[<<k, Main>>]) + 1]
    BY DEF at
  <2>2. L - Len(todo'[p]) + 1 = at[r] + 1
    <3> DEFINE a == Len(todo[p])
               b == Len(todo'[p])
               c == at[r]
    <3>1. b = a - 1 /\ a \in Nat /\ c = L - a + 1 /\ L \in Nat
      BY <1>3, <1>5, <1>7
    <3> HIDE DEF a, b, c, L
    <3>2. L - b + 1 = c + 1
      BY <3>1
    <3>3. QED
      BY <3>2 DEF a, b, c
  <2>3. \A k \in Place : k # r => L - Len(todo'[<<k, Main>>]) + 1 = at[k]
    BY <1>2, <1>5 DEF at
  <2>4. DOMAIN at = Place
    BY DEF at
  <2> HIDE DEF L
  <2>5. \A k \in Place : L - Len(todo'[<<k, Main>>]) + 1 = IF k = r THEN at[r] + 1 ELSE at[k]
    BY <2>2, <2>3
  <2>6. at' = [k \in Place |-> IF k = r THEN at[r] + 1 ELSE at[k]]
    BY <2>1, <2>5
  <2>7. QED
    BY <2>4, <2>6
<1>10. at'[r] = at[r] + 1 /\ \A k \in Place : k # r => at'[k] = at[k]
  BY <1>9 DEF at
<1>11. given' = given
  <2>1. given' = [q \in WorkerProc |-> GivenTo(setup, at'[q[1]], q[2])]
    BY <1>1 DEF given
  <2>2. given = [q \in WorkerProc |-> GivenTo(setup, at[q[1]], q[2])]
    BY DEF given
  <2>3. ASSUME NEW q \in WorkerProc
        PROVE  GivenTo(setup, at'[q[1]], q[2]) = GivenTo(setup, at[q[1]], q[2])
    <3>1. q[1] \in Place /\ q[2] \in 0..(setup.threads - 1)
      BY Threads
    <3>2. CASE q[1] = r
      <4>1. at[r] \in 1..L
        BY <1>3
      <4>2. GivenTo(setup, at[r] + 1, q[2]) = GivenTo(setup, at[r], q[2])
        BY <1>2, <1>3, <3>1, <4>1, GivenStays
      <4>3. QED
        BY <1>10, <3>2, <4>2
    <3>3. CASE q[1] # r
      BY <1>10, <3>1, <3>3
    <3>4. QED
      BY <3>2, <3>3
  <2>4. QED
    BY <2>1, <2>2, <2>3
<1>12. \A q \in WorkerProc : todo'[q] = todo[q]
  BY <1>5, Threads
<1>13. workAt' = workAt
  <2>1. workAt' = [q \in WorkerProc |-> given[q] - Len(todo'[q]) + 1]
    BY <1>1, <1>11 DEF workAt
  <2>2. \A q \in WorkerProc : given[q] - Len(todo'[q]) + 1 = given[q] - Len(todo[q]) + 1
    BY <1>12
  <2>3. QED
    BY <2>1, <2>2 DEF workAt
<1>14. ASSUME NEW k \in Place PROVE MainPlaced(k)'
  <2>0. MainPlaced(k)' <=> at'[k] \in 1..(L + 1) /\ Left(todo'[<<k, Main>>], MainScript(setup), at'[k])
    BY DEF MainPlaced, Left
  <2>1. CASE k = r
    <3>1. at'[r] \in 1..(L + 1)
      BY <1>3, <1>10
    <3>2. QED
      BY <1>5, <1>7, <1>10, <2>0, <2>1, <3>1
  <2>2. CASE k # r
    <3>1. at'[k] = at[k] /\ todo'[<<k, Main>>] = todo[<<k, Main>>]
      BY <1>2, <1>5, <1>10, <2>2
    <3>2. MainPlaced(k)
      BY DEF PlaceInv
    <3>3. QED
      BY <2>0, <3>1, <3>2 DEF MainPlaced
  <2>3. QED
    BY <2>1, <2>2
<1>15. ASSUME NEW q \in WorkerProc PROVE WorkerPlaced(q)'
  <2>1. WorkerPlaced(q)' <=> workAt'[q] \in 1..(given'[q] + 1) /\ Left(todo'[q], WorkerScript(setup, q[2]), workAt'[q])
    BY DEF WorkerPlaced, Left
  <2>2. WorkerPlaced(q)
    BY DEF PlaceInv
  <2>3. QED
    BY <1>11, <1>12, <1>13, <2>1, <2>2 DEF WorkerPlaced
<1>16. PlaceInv'
  BY <1>1, <1>14, <1>15 DEF PlaceInv
<1>17. QED
  BY <1>8, <1>9, <1>11, <1>13, <1>16 DEF MainDone

\* A worker finishes an operation: it, and nobody else, is one further.
LEMMA PopWorker ==
  ASSUME Typed, PlaceInv, setup' = setup, NEW p \in WorkerProc, todo[p] # <<>>,
         todo' = [todo EXCEPT ![p] = Tail(@)]
  PROVE  TodoOk' /\ PlaceInv' /\ WorkerDone(p) /\ given' = given
<1> DEFINE L == MainLen(setup)
<1>1. Worker' = Worker /\ WorkerProc' = WorkerProc /\ Proc' = Proc
  BY SameThreads
<1>2. p \in Proc /\ \A k \in Place : <<k, Main>> \in Proc /\ <<k, Main>> # p
  BY Threads
<1>3. /\ workAt[p] \in 1..(given[p] + 1) /\ given[p] \in Nat /\ workAt[p] <= given[p]
      /\ workAt[p] = given[p] - Len(todo[p]) + 1 /\ todo[p] \in Seq(Operation)
      /\ Len(todo[p]) \in Nat
  BY AtWorker
<1>4. todo \in [Proc -> Seq(Operation)]
  BY DEF Typed
<1>5. /\ todo'[p] = Tail(todo[p]) /\ DOMAIN todo' = Proc
      /\ \A k \in Proc : k # p => todo'[k] = todo[k]
  BY <1>2, <1>4
<1>6. Left(todo[p], WorkerScript(setup, p[2]), workAt[p])
  BY DEF PlaceInv, WorkerPlaced
<1>7. /\ Tail(todo[p]) \in Seq(Operation) /\ Len(Tail(todo[p])) = Len(todo[p]) - 1
      /\ Left(Tail(todo[p]), WorkerScript(setup, p[2]), workAt[p] + 1)
  <2>1. workAt[p] \in Nat
    BY <1>3
  <2>2. QED
    BY <1>3, <1>6, <2>1, Rest
<1>8. TodoOk'
  <2>1. todo' = [k \in Proc |-> todo'[k]]
    BY <1>4
  <2>2. \A k \in Proc : todo'[k] \in Seq(Operation)
    BY <1>4, <1>5, <1>7
  <2>3. todo' \in [Proc -> Seq(Operation)]
    BY <2>1, <2>2
  <2>4. QED
    BY <1>1, <2>3 DEF TodoOk
<1>9. at' = at
  <2>1. at' = [k \in Place |-> L - Len(todo'[<<k, Main>>]) + 1]
    BY DEF at
  <2>2. QED
    BY <1>2, <1>5, <2>1 DEF at
<1>10. given' = given
  BY <1>1, <1>9 DEF given
<1>11. workAt' = [workAt EXCEPT ![p] = @ + 1]
  <2>1. workAt' = [q \in WorkerProc |-> given[q] - Len(todo'[q]) + 1]
    BY <1>1, <1>10 DEF workAt
  <2>2. given[p] - Len(todo'[p]) + 1 = workAt[p] + 1
    <3> DEFINE a == Len(todo[p])
               b == Len(todo'[p])
               c == workAt[p]
               g == given[p]
    <3>1. b = a - 1 /\ a \in Nat /\ c = g - a + 1 /\ g \in Nat
      BY <1>3, <1>5, <1>7
    <3> HIDE DEF a, b, c, g
    <3>2. g - b + 1 = c + 1
      BY <3>1
    <3>3. QED
      BY <3>2 DEF a, b, c, g
  <2>3. \A q \in WorkerProc : q # p => given[q] - Len(todo'[q]) + 1 = workAt[q]
    BY <1>5, Threads DEF workAt
  <2>4. DOMAIN workAt = WorkerProc
    BY DEF workAt
  <2>5. \A q \in WorkerProc : given[q] - Len(todo'[q]) + 1 = IF q = p THEN workAt[p] + 1 ELSE workAt[q]
    BY <2>2, <2>3
  <2>6. workAt' = [q \in WorkerProc |-> IF q = p THEN workAt[p] + 1 ELSE workAt[q]]
    BY <2>1, <2>5
  <2>7. QED
    BY <2>4, <2>6
<1>12. workAt'[p] = workAt[p] + 1 /\ \A q \in WorkerProc : q # p => workAt'[q] = workAt[q]
  BY <1>11 DEF workAt
<1>13. ASSUME NEW k \in Place PROVE MainPlaced(k)'
  <2>1. MainPlaced(k)' <=> at'[k] \in 1..(L + 1) /\ Left(todo'[<<k, Main>>], MainScript(setup), at'[k])
    BY DEF MainPlaced, Left
  <2>2. todo'[<<k, Main>>] = todo[<<k, Main>>]
    BY <1>2, <1>5
  <2>3. MainPlaced(k)
    BY DEF PlaceInv
  <2>4. QED
    BY <1>9, <2>1, <2>2, <2>3 DEF MainPlaced
<1>14. ASSUME NEW q \in WorkerProc PROVE WorkerPlaced(q)'
  <2>1. WorkerPlaced(q)' <=> workAt'[q] \in 1..(given[q] + 1) /\ Left(todo'[q], WorkerScript(setup, q[2]), workAt'[q])
    BY <1>10 DEF WorkerPlaced, Left
  <2>2. CASE q = p
    <3>1. workAt'[p] \in 1..(given[p] + 1)
      BY <1>3, <1>12
    <3>2. QED
      BY <1>5, <1>7, <1>12, <2>1, <2>2, <3>1
  <2>3. CASE q # p
    <3>1. todo'[q] = todo[q] /\ workAt'[q] = workAt[q]
      BY <1>5, <1>12, <2>3, Threads
    <3>2. WorkerPlaced(q)
      BY DEF PlaceInv
    <3>3. QED
      BY <2>1, <3>1, <3>2 DEF WorkerPlaced
  <2>4. QED
    BY <2>2, <2>3
<1>15. PlaceInv'
  BY <1>1, <1>13, <1>14 DEF PlaceInv
<1>16. QED
  BY <1>8, <1>9, <1>10, <1>11, <1>15 DEF WorkerDone

\* Main schedules a job: it is one further, and the job is the next part of the
\* worker's program (benchmark.cpp:229-247).
LEMMA Deal ==
  ASSUME Typed, PlaceInv, NEW p \in Place \X {Main}, ScheduleJob(p)
  PROVE  /\ TodoOk' /\ PlaceInv' /\ MainDone(p[1]) /\ p = <<p[1], Main>> /\ p[1] \in Place
         /\ setup' = setup /\ todo[p] # <<>> /\ Now(p).op = "schedule"
         /\ \A q \in WorkerProc : todo[q] # <<>> => todo'[q] # <<>> /\ Head(todo'[q]) = Head(todo[q])
         /\ \A q \in WorkerProc : given'[q] >= given[q]
<1> DEFINE r == p[1]
           L == MainLen(setup)
           o == Now(p)
           w == <<r, o.worker>>
           job == Job(setup, o.worker, o.job)
<1>0. p = <<r, Main>> /\ r \in Place
  OBVIOUS
<1>1. setup' = setup /\ todo[p] # <<>> /\ o.op = "schedule"
  BY DEF ScheduleJob, IsNext, Now
<1>2. Worker' = Worker /\ WorkerProc' = WorkerProc /\ Proc' = Proc
  BY <1>1, SameThreads
<1>3. p \in Proc /\ SetupOk(setup) /\ \A k \in Place : <<k, Main>> \in Proc
  BY <1>0, Threads
<1>4. /\ at[r] \in 1..(L + 1) /\ L \in Nat \ {0} /\ at[r] <= L
      /\ at[r] = L - Len(todo[p]) + 1 /\ todo[p] \in Seq(Operation) /\ Len(todo[p]) \in Nat
      /\ MainOp(setup, at[r], o)
  BY <1>0, <1>1, AtMain
<1>5. todo \in [Proc -> Seq(Operation)]
  BY DEF Typed
<1>6. /\ o.worker \in 0..(setup.threads - 1) /\ job \in Seq(Operation)
      /\ GivenTo(setup, at[r] + 1, o.worker) = GivenTo(setup, at[r], o.worker) + Len(job)
      /\ Part(job, WorkerScript(setup, o.worker), GivenTo(setup, at[r], o.worker))
      /\ \A j \in 0..(setup.threads - 1) : j # o.worker => GivenTo(setup, at[r] + 1, j) = GivenTo(setup, at[r], j)
  <2>1. at[r] \in 1..L
    BY <1>4
  <2>2. QED
    BY <1>1, <1>3, <1>4, <2>1, GivenJob
<1>7. w \in WorkerProc /\ w # p /\ w[1] = r /\ w[2] = o.worker /\ w \in Proc
  <2>1. o.worker \in Worker
    BY <1>6 DEF Worker
  <2>2. w \in WorkerProc
    BY <1>0, <2>1, Threads
  <2>3. <<r, Main>> \notin WorkerProc
    BY <1>0, Threads
  <2>4. QED
    BY <1>0, <2>2, <2>3, Threads
<1>8. todo' = [todo EXCEPT ![p] = Tail(@), ![w] = @ \o job]
  BY DEF ScheduleJob
<1> HIDE DEF o, job, w, r, L
<1>9. /\ todo'[p] = Tail(todo[p]) /\ todo'[w] = todo[w] \o job
      /\ \A k \in Proc : k # p /\ k # w => todo'[k] = todo[k]
  BY <1>3, <1>5, <1>7, <1>8
<1>10. /\ Tail(todo[p]) \in Seq(Operation) /\ Len(Tail(todo[p])) = Len(todo[p]) - 1
       /\ Left(Tail(todo[p]), MainScript(setup), at[r] + 1)
  <2>1. Left(todo[p], MainScript(setup), at[r])
    BY <1>0 DEF PlaceInv, MainPlaced
  <2>2. at[r] \in Nat
    BY <1>4
  <2>3. QED
    BY <1>1, <1>4, <2>1, <2>2, Rest
<1>11. /\ workAt[w] \in 1..(given[w] + 1) /\ given[w] \in Nat
       /\ given[w] = GivenTo(setup, at[r], o.worker)
       /\ workAt[w] = given[w] - Len(todo[w]) + 1
       /\ todo[w] \in Seq(Operation) /\ Len(todo[w]) \in Nat
  BY <1>7, AtWorker
<1>12. Len(job) \in Nat
  BY <1>6
<1>13. /\ todo[w] \o job \in Seq(Operation) /\ Len(todo[w] \o job) = Len(todo[w]) + Len(job)
       /\ Left(todo[w] \o job, WorkerScript(setup, o.worker), workAt[w])
  <2>1. Left(todo[w], WorkerScript(setup, o.worker), workAt[w])
    BY <1>7 DEF PlaceInv, WorkerPlaced
  <2>2. workAt[w] \in Nat /\ workAt[w] - 1 + Len(todo[w]) = given[w]
    BY <1>11
  <2>3. Part(job, WorkerScript(setup, o.worker), workAt[w] - 1 + Len(todo[w]))
    BY <1>6, <1>11, <2>2
  <2>4. job \in Seq(Operation) /\ todo[w] \in Seq(Operation)
    BY <1>6, <1>11
  <2>5. QED
    BY ONLY <2>1, <2>2, <2>3, <2>4, More
<1>14. TodoOk'
  <2>1. todo' = [k \in Proc |-> todo'[k]]
    BY <1>5, <1>8
  <2>2. \A k \in Proc : todo'[k] \in Seq(Operation)
    BY <1>5, <1>9, <1>10, <1>13
  <2>3. todo' \in [Proc -> Seq(Operation)]
    BY <2>1, <2>2
  <2>4. QED
    BY <1>2, <2>3 DEF TodoOk
<1>15. at' = [at EXCEPT ![r] = @ + 1]
  <2>1. at' = [k \in Place |-> L - Len(todo'[<<k, Main>>]) + 1]
    BY <1>1 DEF at, L
  <2>2. L - Len(todo'[p]) + 1 = at[r] + 1
    <3> DEFINE a == Len(todo[p])
               b == Len(todo'[p])
               c == at[r]
    <3>1. b = a - 1 /\ a \in Nat /\ c = L - a + 1 /\ L \in Nat
      BY <1>4, <1>9, <1>10
    <3> HIDE DEF a, b, c
    <3>2. L - b + 1 = c + 1
      BY <3>1
    <3>3. QED
      BY <3>2 DEF a, b, c
  <2>3. ASSUME NEW k \in Place, k # r PROVE L - Len(todo'[<<k, Main>>]) + 1 = at[k]
    <3>1. <<k, Main>> # w /\ <<k, Main>> # p /\ <<k, Main>> \in Proc
      BY <1>0, <1>7, <2>3, Threads
    <3>2. todo'[<<k, Main>>] = todo[<<k, Main>>]
      BY <1>9, <3>1
    <3>3. QED
      BY <3>2 DEF at, L
  <2>4. DOMAIN at = Place
    BY DEF at
  <2>5. \A k \in Place : L - Len(todo'[<<k, Main>>]) + 1 = IF k = r THEN at[r] + 1 ELSE at[k]
    BY <1>0, <2>2, <2>3
  <2>6. at' = [k \in Place |-> IF k = r THEN at[r] + 1 ELSE at[k]]
    BY <2>1, <2>5
  <2>7. QED
    BY <2>4, <2>6
<1>16. at'[r] = at[r] + 1 /\ \A k \in Place : k # r => at'[k] = at[k]
  BY <1>0, <1>15 DEF at
<1>17. given' = [q \in WorkerProc |-> GivenTo(setup, at'[q[1]], q[2])]
  BY <1>1, <1>2 DEF given
<1>18. given'[w] = given[w] + Len(job) /\ \A q \in WorkerProc : q # w => given'[q] = given[q]
  <2>1. given'[w] = given[w] + Len(job)
    BY <1>6, <1>7, <1>11, <1>16, <1>17
  <2>2. ASSUME NEW q \in WorkerProc, q # w PROVE given'[q] = given[q]
    <3>1. q[1] \in Place /\ q[2] \in 0..(setup.threads - 1) /\ q = <<q[1], q[2]>>
      BY Threads
    <3>2. given[q] = GivenTo(setup, at[q[1]], q[2]) /\ given'[q] = GivenTo(setup, at'[q[1]], q[2])
      BY <1>17 DEF given
    <3>3. CASE q[1] = r
      <4>1. q[2] # o.worker
        BY <2>2, <3>1, <3>3 DEF w
      <4>2. QED
        BY <1>6, <1>16, <3>1, <3>2, <3>3, <4>1
    <3>4. CASE q[1] # r
      BY <1>16, <3>1, <3>2, <3>4
    <3>5. QED
      BY <3>3, <3>4
  <2>3. QED
    BY <2>1, <2>2
<1>19. \A q \in WorkerProc : q # w => todo'[q] = todo[q]
  BY <1>0, <1>9, Threads
<1>20. workAt' = workAt
  <2>1. workAt' = [q \in WorkerProc |-> given'[q] - Len(todo'[q]) + 1]
    BY <1>2 DEF workAt
  <2>2. given'[w] - Len(todo'[w]) + 1 = given[w] - Len(todo[w]) + 1
    <3> DEFINE a == Len(todo[w])
               b == Len(todo'[w])
               c == given[w]
               d == given'[w]
               e == Len(job)
    <3>1. b = a + e /\ a \in Nat /\ d = c + e /\ e \in Nat /\ c \in Nat
      BY <1>9, <1>11, <1>12, <1>13, <1>18
    <3> HIDE DEF a, b, c, d, e
    <3>2. d - b + 1 = c - a + 1
      BY <3>1
    <3>3. QED
      BY <3>2 DEF a, b, c, d, e
  <2>3. \A q \in WorkerProc : given'[q] - Len(todo'[q]) + 1 = given[q] - Len(todo[q]) + 1
    BY <1>18, <1>19, <2>2
  <2>4. QED
    BY <2>1, <2>3 DEF workAt
<1>21. ASSUME NEW k \in Place PROVE MainPlaced(k)'
  <2>0. MainPlaced(k)' <=> at'[k] \in 1..(L + 1) /\ Left(todo'[<<k, Main>>], MainScript(setup), at'[k])
    BY <1>1 DEF MainPlaced, Left, L
  <2>1. CASE k = r
    <3>1. at'[r] \in 1..(L + 1)
      <4>1. at[r] + 1 \in 1..(L + 1)
        <5>1. at[r] \in 1..(L + 1) /\ L \in Nat \ {0} /\ at[r] <= L
          BY <1>4
        <5>2. QED
          BY ONLY <5>1
      <4>2. at'[r] = at[r] + 1
        BY <1>16
      <4>3. QED
        BY <4>1, <4>2
    <3>2. QED
      BY <1>0, <1>9, <1>10, <1>16, <2>0, <2>1, <3>1
  <2>2. CASE k # r
    <3>1. <<k, Main>> # w /\ <<k, Main>> # p /\ <<k, Main>> \in Proc
      BY <1>0, <1>7, <2>2, Threads
    <3>2. at'[k] = at[k] /\ todo'[<<k, Main>>] = todo[<<k, Main>>]
      BY <1>9, <1>16, <2>2, <3>1
    <3>3. MainPlaced(k)
      BY DEF PlaceInv
    <3>4. QED
      BY <2>0, <3>2, <3>3 DEF MainPlaced, L
  <2>3. QED
    BY <2>1, <2>2
<1>22. ASSUME NEW q \in WorkerProc PROVE WorkerPlaced(q)'
  <2>1. WorkerPlaced(q)' <=> workAt[q] \in 1..(given'[q] + 1) /\ Left(todo'[q], WorkerScript(setup, q[2]), workAt[q])
    BY <1>1, <1>20 DEF WorkerPlaced, Left
  <2>2. CASE q = w
    <3>1. workAt[w] \in 1..(given'[w] + 1)
      BY <1>11, <1>12, <1>18
    <3>2. QED
      BY <1>7, <1>9, <1>13, <2>1, <2>2, <3>1
  <2>3. CASE q # w
    <3>1. WorkerPlaced(q)
      BY DEF PlaceInv
    <3>2. QED
      BY <1>18, <1>19, <2>1, <2>3, <3>1 DEF WorkerPlaced
  <2>4. QED
    BY <2>2, <2>3
<1>23. PlaceInv'
  BY <1>2, <1>21, <1>22 DEF PlaceInv
<1>24. ASSUME NEW q \in WorkerProc, todo[q] # <<>>
       PROVE  todo'[q] # <<>> /\ Head(todo'[q]) = Head(todo[q])
  <2>1. CASE q = w
    <3>1. todo'[w] = todo[w] \o job /\ todo[w] \in Seq(Operation) /\ job \in Seq(Operation)
      BY <1>6, <1>9, <1>11
    <3>2. todo[w] \o job # <<>> /\ Head(todo[w] \o job) = Head(todo[w])
      BY <1>24, <2>1, <3>1
    <3>3. QED
      BY <2>1, <3>1, <3>2
  <2>2. CASE q # w
    BY <1>19, <1>24, <2>2
  <2>3. QED
    BY <2>1, <2>2
<1>25. \A q \in WorkerProc : given'[q] >= given[q]
  <2>1. \A q \in WorkerProc : given[q] \in Nat
    BY AtWorker
  <2>2. QED
    BY <1>12, <1>18, <2>1
<1>26. QED
  BY <1>0, <1>1, <1>14, <1>15, <1>20, <1>23, <1>24, <1>25 DEF MainDone, o, r

-----------------------------------------------------------------------------
(***************************************************************************)
(* The kind of an operation tells its place.                                 *)
(***************************************************************************)
\* The landmarks of main counted from Lead and the number of threads.
LEMMA Marks ==
  ASSUME NEW s, SetupOk(s)
  PROVE  /\ Lead(s) \in {4, 5}
         /\ SyncAt(s) = Lead(s) + s.threads + 1 /\ ReadyAt(s) = Lead(s) + s.threads + 2
         /\ JoinAt(s) = Lead(s) + s.threads + s.threads + s.threads + 3
         /\ EndedAt(s) = Lead(s) + s.threads + s.threads + s.threads + 4
         /\ DestroyAt(s) = Lead(s) + s.threads + s.threads + s.threads + 5
         /\ s.threads \in Nat /\ s.threads >= 1 /\ MainLen(s) \in Nat \ {0}
         /\ IsRun(s) => MainLen(s) > DestroyAt(s)
         /\ s.mode = "config" <=> MainLen(s) = 1
<1> DEFINE L == MainLen(s)
           T == s.threads
<1>1. /\ Lead(s) \in {4, 5} /\ SyncAt(s) = Lead(s) + T + 1 /\ ReadyAt(s) = Lead(s) + T + 2
      /\ JoinAt(s) = Lead(s) + T + T + T + 3 /\ EndedAt(s) = Lead(s) + T + T + T + 4
      /\ DestroyAt(s) = Lead(s) + T + T + T + 5
      /\ T \in Nat /\ T >= 1 /\ L \in Nat \ {0}
  BY Landmarks
<1>2. /\ IsRun(s) => L = IF s.cart THEN DestroyAt(s) + 2 ELSE DestroyAt(s) + 3
      /\ s.mode = "config" => L = 1
      /\ s.mode = "refused" => L = 2
      /\ s.mode = "print" => L = IF s.cart THEN 6 ELSE 8
  BY Landmarks
<1>3. s.mode \in {"config", "refused", "print", "run"}
  BY DEF SetupOk
<1> HIDE DEF L, T
<1>4. IsRun(s) => L > DestroyAt(s) /\ L # 1
  BY <1>1, <1>2
<1>5. s.mode = "config" <=> L = 1
  BY <1>2, <1>3, <1>4 DEF IsRun
<1>6. QED
  BY <1>1, <1>4, <1>5 DEF T, L

\* Which operations main has, and where.
LEMMA MainKinds ==
  ASSUME NEW s, SetupOk(s), NEW n \in 1..MainLen(s), NEW o, MainOp(s, n, o)
  PROVE  /\ o.op \in {"init", "finalize", "sync", "join", "destroy", "schedule", "call"}
         /\ o.op = "init" <=> n = 1
         /\ o.op = "finalize" => n = MainLen(s) /\ n > 1 /\ s.mode # "config"
         /\ n = MainLen(s) => o.op = "finalize" \/ s.mode = "config"
         /\ o.op \in {"sync", "join", "destroy", "schedule"} => IsRun(s)
         /\ o.op \notin {"init", "call"} => Keeps(s, n)
         /\ o.op = "call" => CallOp(s, n, o)
         /\ IsRun(s) => /\ o.op = "sync" <=> n = SyncAt(s)
                        /\ o.op = "join" <=> n = JoinAt(s)
                        /\ o.op = "destroy" <=> n = DestroyAt(s)
<1> DEFINE L == MainLen(s)
           T == s.threads
<1>1. /\ Lead(s) \in {4, 5} /\ SyncAt(s) = Lead(s) + T + 1 /\ ReadyAt(s) = Lead(s) + T + 2
      /\ JoinAt(s) = Lead(s) + T + T + T + 3 /\ EndedAt(s) = Lead(s) + T + T + T + 4
      /\ DestroyAt(s) = Lead(s) + T + T + T + 5
      /\ T \in Nat /\ T >= 1 /\ L \in Nat \ {0} /\ n \in Nat /\ n >= 1 /\ n <= L
      /\ IsRun(s) => L > DestroyAt(s)
      /\ s.mode = "config" <=> L = 1
  BY Marks
<1>2. /\ Op("init").op = "init" /\ Op("finalize").op = "finalize" /\ Op("sync").op = "sync"
      /\ Op("join").op = "join" /\ Op("destroy").op = "destroy"
  BY Operations DEF Plain
<1> HIDE DEF L, T
<1>3. CASE o = Op("init") /\ n = 1
  BY <1>1, <1>2, <1>3 DEF L, T
<1>4. CASE o = Op("finalize") /\ n = L /\ n > 1 /\ s.mode # "config" /\ Keeps(s, n)
  BY <1>1, <1>2, <1>4 DEF L, T
<1>5. CASE IsRun(s) /\ Keeps(s, n) /\ ScheduleOp(s, n, o)
  <2>1. PICK j \in 0..(s.threads - 1) :
          \/ o = Schedule(j, "init") /\ n = Lead(s) + 1 + j
          \/ o = Schedule(j, "exchange") /\ n = ReadyAt(s) + 1 + j + j
          \/ o = Schedule(j, "exit") /\ n = ReadyAt(s) + 2 + j + j
    BY <1>5 DEF ScheduleOp
  <2>2. j \in Nat /\ j <= T - 1
    BY <1>1 DEF T
  <2>3. o.op = "schedule"
    BY <2>1, <2>2, Operations
  <2>4. n # 1 /\ n # SyncAt(s) /\ n # JoinAt(s) /\ n # DestroyAt(s) /\ n # L
    BY <1>1, <1>5, <2>1, <2>2
  <2>5. QED
    BY <1>5, <2>3, <2>4 DEF L
<1>6. CASE IsRun(s) /\ Keeps(s, n) /\ o = Op("sync") /\ n = SyncAt(s)
  BY <1>1, <1>2, <1>6 DEF L, T
<1>7. CASE IsRun(s) /\ Keeps(s, n) /\ o = Op("join") /\ n = JoinAt(s)
  BY <1>1, <1>2, <1>7 DEF L, T
<1>8. CASE IsRun(s) /\ Keeps(s, n) /\ o = Op("destroy") /\ n = DestroyAt(s)
  BY <1>1, <1>2, <1>8 DEF L, T
<1>9. CASE CallOp(s, n, o)
  <2>1. /\ o.op = "call" /\ n > 1 /\ n < L
        /\ IsRun(s) => n <= Lead(s) \/ n = ReadyAt(s) \/ n = EndedAt(s) \/ n > DestroyAt(s)
    BY <1>9 DEF CallOp, L
  <2>2. IsRun(s) => n # SyncAt(s) /\ n # JoinAt(s) /\ n # DestroyAt(s)
    BY <1>1, <2>1
  <2>3. n # 1 /\ n # L
    BY <1>1, <2>1
  <2>4. QED
    BY <1>9, <2>1, <2>2, <2>3 DEF L
<1>10. QED
  BY <1>3, <1>4, <1>5, <1>6, <1>7, <1>8, <1>9 DEF MainOp, L

\* Which operations a worker has, and where.
LEMMA WorkerKinds ==
  ASSUME NEW s, SetupOk(s), NEW j \in 0..(s.threads - 1), NEW n \in 1..LW(s, j), NEW o,
         WorkerOp(s, j, n, o)
  PROVE  /\ o.op \in {"ready", "exit", "step", "meet", "call"}
         /\ o.op = "ready" <=> n = 1
         /\ o.op \in {"step", "meet", "call"} => n \in 2..(LW(s, j) - 1)
         /\ o.op = "call" => /\ j = 0 /\ o.comm = MpiComm(s)
                             /\ o.call \in {"barrier", "bcast", "reduce"}
         /\ o.op = "meet" => o.at \in Meeting
<1>1. LW(s, j) \in Nat /\ LW(s, j) >= 2
  BY WorkerScriptIs
<1>2. Op("ready").op = "ready" /\ Op("exit").op = "exit" /\ Op("step").op = "step"
  BY Operations DEF Plain
<1>3. CASE n = 1 /\ o = Op("ready")
  BY <1>1, <1>2, <1>3
<1>4. CASE n = LW(s, j) /\ n > 1 /\ o = Op("exit")
  BY <1>1, <1>2, <1>4
<1>5. CASE n \in 2..(LW(s, j) - 1) /\ o \in ExchangeOp(s, j)
  <2>1. n # 1
    BY <1>5
  <2>2. CASE o = Op("step")
    BY <1>2, <1>5, <2>1, <2>2
  <2>3. CASE o \in {Meet("b"), Meet("loop")}
    <3>1. o.op = "meet" /\ o.at \in Meeting
      BY <2>3, Operations DEF Meeting
    <3>2. QED
      BY <1>5, <2>1, <3>1
  <2>4. CASE j = 0 /\ o \in {Call(c, MpiComm(s)) : c \in {"barrier", "bcast", "reduce"}}
    <3>1. PICK c \in {"barrier", "bcast", "reduce"} : o = Call(c, MpiComm(s))
      BY <2>4
    <3>2. MpiComm(s) \in Comm /\ c \in CallName
      BY CommIs DEF CallName
    <3>3. o.op = "call" /\ o.call = c /\ o.comm = MpiComm(s)
      BY <3>1, <3>2, Operations
    <3>4. QED
      BY <1>5, <2>1, <2>4, <3>3
  <2>5. QED
    BY <1>5, <2>2, <2>3, <2>4 DEF ExchangeOp
<1>6. QED
  BY <1>3, <1>4, <1>5 DEF WorkerOp

\* What a worker has been given when main is at a landmark.
LEMMA GivenAt ==
  ASSUME NEW s, SetupOk(s), NEW j \in 0..(s.threads - 1), NEW n \in Nat
  PROVE  /\ ~IsRun(s) => GivenTo(s, n, j) = 0
         /\ IsRun(s) => /\ n <= Lead(s) + 1 => GivenTo(s, n, j) = 0
                        /\ n \in {SyncAt(s), ReadyAt(s)} => GivenTo(s, n, j) = 1
                        /\ n <= ReadyAt(s) => GivenTo(s, n, j) <= 1
                        /\ n >= JoinAt(s) => GivenTo(s, n, j) = LW(s, j)
<1> DEFINE T == s.threads
           R == ReadyAt(s)
<1>1. /\ Lead(s) \in {4, 5} /\ SyncAt(s) = Lead(s) + T + 1 /\ R = Lead(s) + T + 2
      /\ JoinAt(s) = R + T + T + 1 /\ T \in Nat /\ T >= 1 /\ j \in Nat /\ j <= T - 1
  BY Landmarks
<1> HIDE DEF T, R
<1>2. ~IsRun(s) => GivenTo(s, n, j) = 0
  BY DEF GivenTo
<1>3. n <= Lead(s) + 1 => n <= Lead(s) + 1 + j
  BY <1>1
<1>4. n \in {SyncAt(s), R} => ~(n <= Lead(s) + 1 + j) /\ n <= R + 1 + j + j
  BY <1>1
<1>5. n <= R => n <= R + 1 + j + j
  BY <1>1
<1>6. n >= JoinAt(s) => /\ ~(n <= Lead(s) + 1 + j) /\ ~(n <= R + 1 + j + j)
                        /\ ~(n <= R + 2 + j + j)
  BY <1>1
<1>7. QED
  BY <1>2, <1>3, <1>4, <1>5, <1>6 DEF GivenTo, R

\* What a collective call carries.
LEMMA CallFields ==
  ASSUME NEW o \in Operation, o.op = "call"
  PROVE  /\ o.comm \in Comm /\ o.call \in CallNames
         /\ o.call = "create" => o.new \in Comm
<1>1. CASE o \in {Call(c, m) : c \in CallName, m \in Comm}
  <2>1. PICK c \in CallName, m \in Comm : o = Call(c, m)
    BY <1>1
  <2>2. o.call = c /\ o.comm = m
    BY <2>1, Operations
  <2>3. QED
    BY <2>1, <2>2 DEF CallNames, CallName
<1>2. CASE o \in {Create(c, m) : c \in Comm, m \in Comm}
  <2>1. PICK c \in Comm, m \in Comm : o = Create(c, m)
    BY <1>2
  <2>2. o.call = "create" /\ o.comm = c /\ o.new = m
    BY <2>1, Operations
  <2>3. QED
    BY <2>1, <2>2 DEF CallNames
<1>3. CASE o \in {Op(k) : k \in Plain}
  <2>1. PICK k \in Plain : o = Op(k)
    BY <1>3
  <2>2. o.op = k
    BY <2>1, Operations
  <2>3. QED
    BY <2>2 DEF Plain
<1>4. CASE o \in {Meet(m) : m \in Meeting}
  BY <1>4, Operations
<1>5. CASE o \in {Schedule(j, k) : j \in Nat, k \in {"init", "exchange", "exit"}}
  BY <1>5, Operations
<1>6. QED
  BY <1>1, <1>2, <1>3, <1>4, <1>5 DEF Operation

-----------------------------------------------------------------------------
(***************************************************************************)
(* The state of a rank follows from the places of its threads.                *)
(***************************************************************************)
\* Only a call, a meeting and a step are begun and ended.
Long == {"call", "meet", "step"}

BusyInv == \A p \in Proc : busy[p] => todo[p] # <<>> /\ Now(p).op \in Long

\* Main at n, worker j at w: beyond sync it is initialised, beyond join done.
WorkOk(s, j, n, w) == IsRun(s) => /\ n > SyncAt(s) => w >= 2
                                  /\ n > JoinAt(s) => w = LW(s, j) + 1

FieldIs(s, n, w) == IF IsRun(s) /\ n > DestroyAt(s) THEN "gone"
                    ELSE IF w >= 2 THEN "ready" ELSE "none"

MpiIs(s, n) == IF n = 1 \/ (n > MainLen(s) /\ s.mode # "config") THEN "off" ELSE Required(s)

WorkInv == \A q \in WorkerProc : WorkOk(setup, q[2], at[q[1]], workAt[q])
FieldsInv == \A q \in WorkerProc : fields[q] = FieldIs(setup, at[q[1]], workAt[q])
MpiInv == \A r \in Place : mpi[r] = MpiIs(setup, at[r])
CommsInv == \A r \in Place : comms[r] = Holds(setup, at[r])

StateInv == /\ Typed /\ PlaceInv /\ BusyInv
            /\ WorkInv /\ FieldsInv /\ MpiInv /\ CommsInv

\* A worker has something to do only between its init and join.
LEMMA WorkerRuns ==
  ASSUME StateInv, NEW q \in WorkerProc, todo[q] # <<>>
  PROVE  /\ IsRun(setup) /\ at[q[1]] > Lead(setup) + 1 /\ at[q[1]] <= JoinAt(setup)
         /\ at[q[1]] \in Nat /\ at[q[1]] <= MainLen(setup)
         /\ Now(q).op # "ready" => at[q[1]] > ReadyAt(setup)
<1> DEFINE n == at[q[1]]
           s == setup
           j == q[2]
           w == workAt[q]
           g == given[q]
           l == LW(s, j)
<1>1. SetupOk(s) /\ q[1] \in Place /\ j \in 0..(s.threads - 1)
  BY Threads DEF StateInv
<1>2. n \in 1..(MainLen(s) + 1) /\ MainLen(s) \in Nat \ {0}
  BY <1>1, AtMain DEF StateInv
<1>3. /\ w \in 1..(g + 1) /\ g \in Nat /\ g <= l /\ g = GivenTo(s, n, j) /\ w <= g
      /\ w \in 1..l /\ WorkerOp(s, j, w, Now(q)) /\ l \in Nat
  BY AtWorker DEF StateInv
<1>4. WorkOk(s, j, n, w)
  BY DEF StateInv, WorkInv
<1>5. Now(q).op = "ready" <=> w = 1
  BY <1>1, <1>3, WorkerKinds
<1>6. /\ Lead(s) \in {4, 5} /\ SyncAt(s) \in Nat /\ ReadyAt(s) \in Nat /\ JoinAt(s) \in Nat
      /\ IsRun(s) => MainLen(s) > JoinAt(s)
  <2>1. SyncAt(s) \in Nat /\ ReadyAt(s) \in Nat /\ JoinAt(s) \in Nat /\ DestroyAt(s) = JoinAt(s) + 2
    BY <1>1, Landmarks
  <2>2. Lead(s) \in {4, 5} /\ MainLen(s) \in Nat \ {0} /\ (IsRun(s) => MainLen(s) > DestroyAt(s))
    BY <1>1, Marks
  <2> HIDE DEF s
  <2>3. QED
    BY <2>1, <2>2
<1>7. n \in Nat
  BY <1>2
<1>8. /\ ~IsRun(s) => g = 0
      /\ IsRun(s) => /\ n <= Lead(s) + 1 => g = 0
                     /\ n <= ReadyAt(s) => g <= 1
  BY <1>1, <1>3, <1>7, GivenAt
<1> HIDE DEF n, s, j, w, g, l
<1>9. IsRun(s) /\ n > Lead(s) + 1
  <2>1. g # 0
    BY <1>3
  <2>2. IsRun(s)
    BY <1>8, <2>1
  <2>3. ~(n <= Lead(s) + 1)
    BY <1>8, <2>1, <2>2
  <2>4. QED
    BY <1>6, <1>7, <2>2, <2>3
<1>10. n <= JoinAt(s)
  <2>1. w # l + 1
    BY <1>3
  <2>2. ~(n > JoinAt(s))
    BY <1>4, <1>9, <2>1 DEF WorkOk, l
  <2>3. QED
    BY <1>6, <1>7, <2>2
<1>11. w # 1 => n > ReadyAt(s)
  BY <1>3, <1>6, <1>7, <1>8, <1>9
<1>12. n <= MainLen(s)
  BY <1>2, <1>6, <1>7, <1>9, <1>10
<1>13. QED
  BY <1>5, <1>7, <1>9, <1>10, <1>11, <1>12 DEF n, s

\* No worker of a rank has anything to do while its main makes a call.
LEMMA Idle ==
  ASSUME StateInv, NEW r \in Place, todo[<<r, Main>>] # <<>>, Now(<<r, Main>>).op = "call",
         NEW q \in WorkerProc, q[1] = r
  PROVE  todo[q] = <<>>
<1> SUFFICES ASSUME todo[q] # <<>> PROVE FALSE
  OBVIOUS
<1> DEFINE n == at[r]
           s == setup
           w == workAt[q]
           g == given[q]
<1>1. SetupOk(s) /\ q[2] \in 0..(s.threads - 1)
  BY Threads DEF StateInv
<1>2. IsRun(s) /\ n > Lead(s) + 1 /\ n <= JoinAt(s) /\ n \in Nat
  BY WorkerRuns
<1>3. MainOp(s, n, Now(<<r, Main>>)) /\ n \in 1..MainLen(s)
  BY AtMain DEF StateInv
<1>4. CallOp(s, n, Now(<<r, Main>>))
  BY <1>1, <1>3, MainKinds
<1>5. n <= Lead(s) \/ n = ReadyAt(s) \/ n = EndedAt(s) \/ n > DestroyAt(s)
  BY <1>2, <1>4 DEF CallOp
<1>6. /\ Lead(s) \in {4, 5} /\ JoinAt(s) \in Nat
      /\ EndedAt(s) = JoinAt(s) + 1 /\ DestroyAt(s) = JoinAt(s) + 2 /\ ReadyAt(s) = SyncAt(s) + 1
      /\ SyncAt(s) \in Nat
  BY <1>1, Landmarks
<1>7. n = ReadyAt(s)
  BY <1>2, <1>5, <1>6
<1>8. g = 1
  BY <1>1, <1>2, <1>7, AtWorker, GivenAt DEF StateInv
<1>9. w \in 1..(g + 1) /\ w <= g
  BY AtWorker DEF StateInv
<1>10. w >= 2
  BY <1>2, <1>6, <1>7 DEF StateInv, WorkInv, WorkOk
<1>11. QED
  BY <1>8, <1>9, <1>10

-----------------------------------------------------------------------------
(***************************************************************************)
(* What follows for the state when a thread has done an operation.            *)
(***************************************************************************)
\* What an operation of main does to fields, MPI and communicators, if it is as
\* their functions of the places say.
LEMMA MainMoves ==
  ASSUME StateInv, setup' = setup, NEW r \in Place, todo[<<r, Main>>] # <<>>, MainDone(r),
         Now(<<r, Main>>).op \in {"sync", "join"} => \A q \in WorkerProc : q[1] = r => todo[q] = <<>>
  PROVE  LET o == Now(<<r, Main>>)
         IN  /\ WorkInv'
             /\ \A q \in WorkerProc : FieldIs(setup, at'[q[1]], workAt'[q])
                                        = IF o.op = "destroy" /\ q[1] = r THEN "gone" ELSE fields[q]
             /\ \A k \in Place : MpiIs(setup, at'[k])
                                   = IF k = r /\ o.op = "init" THEN Required(setup)
                                     ELSE IF k = r /\ o.op = "finalize" THEN "off" ELSE mpi[k]
             /\ \A k \in Place : Holds(setup, at'[k])
                                   = IF k = r /\ o.op = "init" THEN {"world"}
                                     ELSE IF k = r /\ o.op = "call" THEN After(o, comms[r])
                                     ELSE comms[k]
<1> DEFINE o == Now(<<r, Main>>)
           s == setup
           n == at[r]
           L == MainLen(s)
<1>1. SetupOk(s) /\ WorkerProc' = WorkerProc
  BY Threads, SameThreads DEF StateInv
<1>2. n \in 1..L /\ MainOp(s, n, o) /\ n \in Nat /\ L \in Nat
  <2>1. at[r] \in 1..(L + 1) /\ L \in Nat \ {0} /\ at[r] <= L /\ MainOp(s, n, o)
    BY AtMain DEF StateInv
  <2>2. n \in 1..L
    <3> HIDE DEF L, o, s
    <3>1. QED
      BY <2>1
  <2>3. QED
    BY <2>1, <2>2
<1>3. at'[r] = n + 1 /\ (\A k \in Place : k # r => at'[k] = at[k]) /\ workAt' = workAt
  BY DEF MainDone, at
<1>4. /\ o.op \in {"init", "finalize", "sync", "join", "destroy", "schedule", "call"}
      /\ o.op = "init" <=> n = 1
      /\ o.op = "finalize" => n = MainLen(s) /\ n > 1 /\ s.mode # "config"
      /\ n = MainLen(s) => o.op = "finalize" \/ s.mode = "config"
      /\ o.op \in {"sync", "join", "destroy", "schedule"} => IsRun(s)
      /\ o.op \notin {"init", "call"} => Keeps(s, n)
      /\ o.op = "call" => CallOp(s, n, o)
      /\ IsRun(s) => /\ o.op = "sync" <=> n = SyncAt(s)
                     /\ o.op = "join" <=> n = JoinAt(s)
                     /\ o.op = "destroy" <=> n = DestroyAt(s)
  <2> HIDE DEF L, o, s, n
  <2>1. QED
    BY <1>1, <1>2, MainKinds DEF L
<1>5. /\ SyncAt(s) \in Nat /\ JoinAt(s) \in Nat /\ DestroyAt(s) \in Nat
      /\ SyncAt(s) < JoinAt(s)
  <2>1. /\ SyncAt(s) \in Nat /\ JoinAt(s) \in Nat /\ DestroyAt(s) = JoinAt(s) + 2
        /\ ReadyAt(s) = SyncAt(s) + 1 /\ s.threads \in Nat
        /\ JoinAt(s) = ReadyAt(s) + s.threads + s.threads + 1
    BY <1>1, Landmarks
  <2> HIDE DEF s
  <2>2. QED
    BY <2>1
<1>6. ASSUME NEW q \in WorkerProc PROVE WorkOk(s, q[2], at'[q[1]], workAt'[q])
  <2>1. WorkOk(s, q[2], at[q[1]], workAt[q]) /\ q[1] \in Place /\ q[2] \in 0..(s.threads - 1)
    BY Threads DEF StateInv, WorkInv
  <2>2. CASE q[1] # r
    BY <1>3, <2>1, <2>2
  <2>3. CASE q[1] = r
    <3> SUFFICES ASSUME IsRun(s)
                 PROVE  /\ n + 1 > SyncAt(s) => workAt[q] >= 2
                        /\ n + 1 > JoinAt(s) => workAt[q] = LW(s, q[2]) + 1
      BY <1>3, <2>3 DEF WorkOk
    <3>1. /\ n > SyncAt(s) => workAt[q] >= 2
          /\ n > JoinAt(s) => workAt[q] = LW(s, q[2]) + 1
      BY <2>1, <2>3 DEF WorkOk
    <3>2. o.op \in {"sync", "join"} => workAt[q] = GivenTo(s, n, q[2]) + 1
      <4>1. o.op \in {"sync", "join"} => todo[q] = <<>>
        BY <2>3
      <4>2. workAt[q] \in 1..(given[q] + 1) /\ (todo[q] # <<>> <=> workAt[q] <= given[q])
            /\ given[q] \in Nat /\ given[q] = GivenTo(s, n, q[2])
        BY <2>3, AtWorker DEF StateInv
      <4>3. QED
        BY <4>1, <4>2
    <3>3. n = SyncAt(s) => workAt[q] = 2
      BY <1>1, <1>2, <1>4, <2>1, <3>2, GivenAt
    <3>4. n = JoinAt(s) => workAt[q] = LW(s, q[2]) + 1
      <4>1. n = JoinAt(s) => n >= JoinAt(s)
        BY <1>2
      <4>2. QED
        BY <1>1, <1>2, <1>4, <2>1, <3>2, <4>1, GivenAt
    <3> HIDE DEF n, s
    <3>5. QED
      BY <1>2, <1>5, <3>1, <3>3, <3>4
  <2>4. QED
    BY <2>2, <2>3
<1>7. WorkInv'
  BY <1>1, <1>6 DEF WorkInv
<1>8. ASSUME NEW q \in WorkerProc
      PROVE  FieldIs(setup, at'[q[1]], workAt'[q]) = IF o.op = "destroy" /\ q[1] = r THEN "gone" ELSE fields[q]
  <2>1. fields[q] = FieldIs(s, at[q[1]], workAt[q]) /\ q[1] \in Place
    BY Threads DEF StateInv, FieldsInv
  <2>2. CASE q[1] # r
    BY <1>3, <2>1, <2>2
  <2>3. CASE q[1] = r
    <3>1. fields[q] = FieldIs(s, n, workAt[q])
      BY <2>1, <2>3
    <3>2. CASE o.op = "destroy"
      <4>1. IsRun(s) /\ n + 1 > DestroyAt(s)
        <5> HIDE DEF n, s, o
        <5>1. IsRun(s) /\ n = DestroyAt(s)
          BY <1>4, <3>2
        <5>2. QED
          BY <1>5, <5>1
      <4>2. QED
        BY <1>3, <2>3, <3>2, <4>1 DEF FieldIs
    <3>3. CASE o.op # "destroy"
      <4>1. IsRun(s) => (n + 1 > DestroyAt(s) <=> n > DestroyAt(s))
        <5> HIDE DEF n, s, o
        <5>1. IsRun(s) => n # DestroyAt(s)
          BY <1>4, <3>3
        <5>2. QED
          BY <1>2, <1>5, <5>1
      <4>2. FieldIs(s, n + 1, workAt[q]) = FieldIs(s, n, workAt[q])
        BY <4>1 DEF FieldIs
      <4>3. QED
        BY <1>3, <2>3, <3>1, <3>3, <4>2
    <3>4. QED
      BY <3>2, <3>3
  <2>4. QED
    BY <2>2, <2>3
<1>9. ASSUME NEW k \in Place
      PROVE  MpiIs(setup, at'[k]) = IF k = r /\ o.op = "init" THEN Required(setup)
                                    ELSE IF k = r /\ o.op = "finalize" THEN "off" ELSE mpi[k]
  <2>1. mpi[k] = MpiIs(s, at[k])
    BY DEF StateInv, MpiInv
  <2>2. CASE k # r
    BY <1>3, <2>1, <2>2
  <2>3. CASE k = r
    <3>1. n + 1 # 1 /\ (n + 1 > L <=> n = L) /\ (n = L /\ s.mode # "config" <=> o.op = "finalize")
          /\ ~(n > L)
      <4> HIDE DEF n, s, o, L
      <4>1. n + 1 # 1 /\ (n + 1 > L <=> n = L) /\ ~(n > L)
        BY <1>2
      <4>2. n = L /\ s.mode # "config" <=> o.op = "finalize"
        BY <1>4 DEF L, s
      <4>3. QED
        BY <4>1, <4>2
    <3>2. MpiIs(s, n + 1) = IF o.op = "finalize" THEN "off" ELSE Required(s)
      BY <3>1 DEF MpiIs
    <3>3. MpiIs(s, n) = IF o.op = "init" THEN "off" ELSE Required(s)
      BY <1>4, <3>1 DEF MpiIs
    <3>4. MpiIs(setup, at'[k]) = MpiIs(s, n + 1) /\ mpi[k] = MpiIs(s, n)
      BY <1>3, <2>1, <2>3
    <3>5. o.op = "finalize" => o.op # "init"
      OBVIOUS
    <3> HIDE DEF o
    <3>6. QED
      BY <2>3, <3>2, <3>3, <3>4, <3>5
  <2>4. QED
    BY <2>2, <2>3
<1>10. ASSUME NEW k \in Place
       PROVE  Holds(setup, at'[k]) = IF k = r /\ o.op = "init" THEN {"world"}
                                     ELSE IF k = r /\ o.op = "call" THEN After(o, comms[r])
                                     ELSE comms[k]
  <2>1. comms[k] = Holds(s, at[k])
    BY DEF StateInv, CommsInv
  <2>2. CASE k # r
    BY <1>3, <2>1, <2>2
  <2>3. CASE k = r
    <3>0. Holds(setup, at'[k]) = Holds(s, n + 1) /\ comms[r] = Holds(s, n)
      BY <1>3, <2>1, <2>3
    <3>1. CASE o.op = "init"
      <4>1. n = 1
        BY <1>4, <3>1
      <4>2. Holds(s, 2) = {"world"}
        <5>1. CartAt(s) \in {2, 3}
          BY DEF CartAt
        <5> HIDE DEF s, n, o
        <5>2. /\ Holds(s, 2) \subseteq Comm
              /\ "world" \in Holds(s, 2) <=> 2 > 1
              /\ "hw" \in Holds(s, 2) <=> Builds(s) /\ (~s.cart) /\ 2 > 2 /\ 2 <= FreedAt(s, "hw")
              /\ "cart" \in Holds(s, 2) <=> Builds(s) /\ 2 > CartAt(s) /\ 2 <= FreedAt(s, "cart")
          BY HoldsIs
        <5>3. "world" \in Holds(s, 2) /\ "hw" \notin Holds(s, 2) /\ "cart" \notin Holds(s, 2)
          BY <5>1, <5>2
        <5>4. QED
          BY <5>2, <5>3 DEF Comm
      <4>3. n + 1 = 2
        BY <4>1
      <4> HIDE DEF n, s, o
      <4>4. QED
        BY <2>3, <3>0, <3>1, <4>2, <4>3
    <3>2. CASE o.op = "call"
      <4>1. Holds(s, n + 1) = After(o, Holds(s, n))
        BY <1>4, <3>2 DEF CallOp
      <4> HIDE DEF n, s, o
      <4>2. QED
        BY <2>3, <3>0, <3>2, <4>1
    <3>3. CASE o.op \notin {"init", "call"}
      <4>1. Holds(s, n + 1) = Holds(s, n)
        BY <1>4, <3>3 DEF Keeps
      <4> HIDE DEF n, s, o
      <4>2. QED
        BY <2>3, <3>0, <3>3, <4>1
    <3>4. QED
      BY <3>1, <3>2, <3>3
  <2>4. QED
    BY <2>2, <2>3
<1>11. QED
  BY <1>7, <1>8, <1>9, <1>10

\* The same for an operation of a worker, which only gets its own field ready.
LEMMA WorkerMoves ==
  ASSUME StateInv, setup' = setup, NEW p \in WorkerProc, todo[p] # <<>>, WorkerDone(p)
  PROVE  /\ WorkInv'
         /\ \A q \in WorkerProc : FieldIs(setup, at'[q[1]], workAt'[q])
                                    = IF q = p /\ Now(p).op = "ready" THEN "ready" ELSE fields[q]
         /\ \A k \in Place : MpiIs(setup, at'[k]) = mpi[k] /\ Holds(setup, at'[k]) = comms[k]
<1> DEFINE s == setup
           o == Now(p)
           n == at[p[1]]
           w == workAt[p]
           l == LW(s, p[2])
<1>1. SetupOk(s) /\ WorkerProc' = WorkerProc /\ p[2] \in 0..(s.threads - 1)
  BY Threads, SameThreads DEF StateInv
<1>2. at' = at /\ workAt'[p] = w + 1 /\ \A q \in WorkerProc : q # p => workAt'[q] = workAt[q]
  BY DEF WorkerDone, workAt
<1>3. w \in 1..l /\ l \in Nat /\ WorkerOp(s, p[2], w, o)
  BY AtWorker DEF StateInv
<1>4. w \in Nat /\ w >= 1 /\ w <= l /\ w # l + 1 /\ (o.op = "ready" <=> w = 1)
  <2>1. o.op = "ready" <=> w = 1
    <3> HIDE DEF s, o, w
    <3>1. QED
      BY <1>1, <1>3, WorkerKinds DEF l
  <2>2. QED
    BY <1>3, <2>1
<1>5. WorkOk(s, p[2], n, w)
  BY DEF StateInv, WorkInv
<1>6. IsRun(s) /\ n <= JoinAt(s) /\ n \in Nat /\ JoinAt(s) \in Nat /\ DestroyAt(s) = JoinAt(s) + 2
  BY <1>1, WorkerRuns, Landmarks
<1>7. ASSUME NEW q \in WorkerProc PROVE WorkOk(s, q[2], at'[q[1]], workAt'[q])
  <2>1. CASE q # p
    BY <1>2, <2>1 DEF StateInv, WorkInv
  <2>2. CASE q = p
    <3> HIDE DEF w, n, s
    <3>1. ~(n > JoinAt(s)) /\ (w >= 2 => w + 1 >= 2)
      BY <1>4, <1>6
    <3>2. WorkOk(s, p[2], n, w + 1)
      BY <1>5, <3>1 DEF WorkOk
    <3>3. QED
      BY <1>2, <2>2, <3>2 DEF n, s
  <2>3. QED
    BY <2>1, <2>2
<1>8. WorkInv'
  BY <1>1, <1>7 DEF WorkInv
<1>9. ASSUME NEW q \in WorkerProc
      PROVE  FieldIs(s, at'[q[1]], workAt'[q]) = IF q = p /\ o.op = "ready" THEN "ready" ELSE fields[q]
  <2>1. fields[q] = FieldIs(s, at[q[1]], workAt[q])
    BY DEF StateInv, FieldsInv
  <2>2. CASE q # p
    BY <1>2, <2>1, <2>2
  <2>3. CASE q = p
    <3>1. FieldIs(s, at'[q[1]], workAt'[q]) = FieldIs(s, n, w + 1) /\ fields[q] = FieldIs(s, n, w)
      BY <1>2, <2>1, <2>3
    <3> HIDE DEF w, n, s, o
    <3>2. ~(n > DestroyAt(s)) /\ w + 1 >= 2 /\ (w >= 2 <=> w # 1)
      BY <1>4, <1>6
    <3>3. FieldIs(s, n, w + 1) = "ready" /\ (w # 1 => FieldIs(s, n, w) = "ready")
      BY <3>2 DEF FieldIs
    <3>4. QED
      BY <1>4, <2>3, <3>1, <3>3
  <2>4. QED
    BY <2>2, <2>3
<1>10. ASSUME NEW k \in Place PROVE MpiIs(s, at'[k]) = mpi[k] /\ Holds(s, at'[k]) = comms[k]
  BY <1>2 DEF StateInv, MpiInv, CommsInv
<1>11. QED
  BY <1>8, <1>9, <1>10

-----------------------------------------------------------------------------
(***************************************************************************)
(* The steps, by what they do to the places: nothing, or a thread begins a     *)
(* call, a meeting or a step, or it has done its operation.                  *)
(***************************************************************************)
Began(p) == /\ todo[p] # <<>> /\ ~busy[p] /\ NoMove
            /\ busy' = [busy EXCEPT ![p] = TRUE]
            /\ IF Now(p).op = "call"
               THEN calls' = [calls EXCEPT ![p[1]][Now(p).comm] = Append(@, Now(p).call)]
               ELSE calls' = calls

Done(p) == /\ todo[p] # <<>> /\ IF p[2] = Main THEN MainDone(p[1]) ELSE WorkerDone(p)
           /\ busy' = [busy EXCEPT ![p] = FALSE]
           /\ calls' = calls
           /\ Now(p).op = "call" => busy[p] /\ MayEnd(p)

Idles == NoMove /\ busy' = busy /\ calls' = calls

\* Whoever finishes an operation is no longer in progress with one.
LEMMA BusyPop ==
  ASSUME Typed, BusyInv, setup' = setup, NEW p \in Proc,
         todo' = [todo EXCEPT ![p] = Tail(@)], busy' = [busy EXCEPT ![p] = FALSE]
  PROVE  BusyInv'
<1>1. Proc' = Proc
  BY SameThreads
<1>2. ASSUME NEW k \in Proc, busy'[k] PROVE todo'[k] # <<>> /\ Head(todo'[k]).op \in Long
  <2>1. todo \in [Proc -> Seq(Operation)] /\ busy \in [Proc -> BOOLEAN]
    BY DEF Typed
  <2>2. k # p /\ busy[k] /\ todo'[k] = todo[k]
    BY <1>2, <2>1
  <2>3. QED
    BY <2>2 DEF BusyInv, Now
<1>3. QED
  BY <1>1, <1>2 DEF BusyInv, Now

\* Only an operation that takes time is ever begun.
LEMMA BusyBegin ==
  ASSUME Typed, BusyInv, setup' = setup, todo' = todo, NEW p \in Proc, todo[p] # <<>>,
         Now(p).op \in Long, busy' = [busy EXCEPT ![p] = TRUE]
  PROVE  BusyInv' /\ busy' \in [Proc -> BOOLEAN]
<1>1. Proc' = Proc
  BY SameThreads
<1>2. busy \in [Proc -> BOOLEAN]
  BY DEF Typed
<1>3. ASSUME NEW k \in Proc, busy'[k] PROVE todo[k] # <<>> /\ Head(todo[k]).op \in Long
  <2>1. k = p \/ busy[k]
    BY <1>2, <1>3
  <2>2. QED
    BY <2>1 DEF BusyInv, Now
<1>4. QED
  BY <1>1, <1>2, <1>3 DEF BusyInv, Now

\* The parts of StateInv after a step make it up.
LEMMA Assembled ==
  ASSUME setup \in Setups, setup' = setup, TodoOk', PlaceInv', BusyInv', WorkInv',
         busy' \in [Proc -> BOOLEAN],
         mpi' = [k \in Place |-> MpiIs(setup, at'[k])],
         comms' = [k \in Place |-> Holds(setup, at'[k])],
         fields' = [q \in WorkerProc |-> FieldIs(setup, at'[q[1]], workAt'[q])],
         calls' \in [Place -> [Comm -> Seq(CallNames)]],
         met' \in [WorkerProc -> [Meeting -> Nat]],
         steps' \in [WorkerProc -> Nat]
  PROVE  StateInv'
<1>1. Proc' = Proc /\ WorkerProc' = WorkerProc
  BY SameThreads
<1>2. mpi' \in [Place -> {"off", "single", "multiple"}]
  <2>1. \A k \in Place : MpiIs(setup, at'[k]) \in {"off", "single", "multiple"}
    BY DEF MpiIs, Required
  <2>2. QED
    BY <2>1
<1>3. comms' \in [Place -> SUBSET Comm]
  <2>1. \A k \in Place : Holds(setup, at'[k]) \in SUBSET Comm
    BY DEF Holds
  <2>2. QED
    BY <2>1
<1>4. fields' \in [WorkerProc -> {"none", "ready", "gone"}]
  <2>1. \A q \in WorkerProc : FieldIs(setup, at'[q[1]], workAt'[q]) \in {"none", "ready", "gone"}
    BY DEF FieldIs
  <2>2. QED
    BY <2>1
<1>5. todo' \in [Proc -> Seq(Operation)]
  BY <1>1 DEF TodoOk
<1>6. Typed'
  BY <1>1, <1>2, <1>3, <1>4, <1>5 DEF Typed
<1>7. MpiInv' /\ CommsInv' /\ FieldsInv'
  BY <1>1 DEF MpiInv, CommsInv, FieldsInv
<1>8. QED
  BY <1>6, <1>7 DEF StateInv

\* Main does an operation that is no call.
LEMMA MainGoesOn ==
  ASSUME StateInv, NEW p \in Place \X {Main}, MainNext(p)
  PROVE  StateInv' /\ Done(p) /\ Now(p).op # "call"
<1> DEFINE r == p[1]
           o == Now(p)
<1>1. /\ r \in Place /\ p = <<r, Main>> /\ p \in Proc /\ p[2] = Main
      /\ Typed /\ PlaceInv /\ BusyInv /\ setup \in Setups
  BY Threads DEF StateInv, Typed
<1>2. /\ busy \in [Proc -> BOOLEAN] /\ todo \in [Proc -> Seq(Operation)]
      /\ mpi = [k \in Place |-> mpi[k]] /\ comms = [k \in Place |-> comms[k]]
      /\ fields = [q \in WorkerProc |-> fields[q]]
      /\ calls \in [Place -> [Comm -> Seq(CallNames)]]
      /\ met \in [WorkerProc -> [Meeting -> Nat]] /\ steps \in [WorkerProc -> Nat]
  BY <1>1 DEF Typed
<1>3. /\ setup' = setup /\ todo[p] # <<>> /\ busy' = busy /\ calls' = calls /\ met' = met
      /\ steps' = steps /\ o.op \in {"init", "finalize", "schedule", "sync", "join", "destroy"}
  BY DEF MainNext, InitMpi, Finalize, ScheduleJob, Wait, Destroy, Do, IsNext, Now
<1>4. ~busy[p] /\ busy' = [busy EXCEPT ![p] = FALSE]
  <2>1. ~busy[p]
    BY <1>1, <1>3 DEF BusyInv, Long
  <2>2. QED
    BY <1>1, <1>2, <1>3, <2>1
<1>5. TodoOk' /\ PlaceInv' /\ MainDone(r) /\ BusyInv'
  <2>1. CASE ScheduleJob(p)
    <3>1. /\ TodoOk' /\ PlaceInv' /\ MainDone(r)
          /\ \A q \in WorkerProc : todo[q] # <<>> => todo'[q] # <<>> /\ Head(todo'[q]) = Head(todo[q])
      BY <1>1, <2>1, Deal
    <3>2. Proc' = Proc
      BY <1>3, SameThreads
    <3>3. ASSUME NEW k \in Proc, busy[k] PROVE todo'[k] # <<>> /\ Head(todo'[k]).op \in Long
      <4>1. todo[k] # <<>> /\ Head(todo[k]).op \in Long
        BY <1>1, <3>3 DEF BusyInv, Now
      <4>2. CASE k \in WorkerProc
        BY <3>1, <4>1, <4>2
      <4>3. CASE k \notin WorkerProc
        <5>1. k[1] \in Place /\ k = <<k[1], Main>> /\ k # p
          BY <1>1, <1>4, <3>3, <4>3, Threads
        <5>2. o.worker \in Worker
          <6>1. /\ at[r] \in 1..(MainLen(setup) + 1) /\ at[r] <= MainLen(setup) /\ MainOp(setup, at[r], o)
                /\ MainLen(setup) \in Nat \ {0}
            BY <1>1, <1>3, AtMain
          <6>2. SetupOk(setup) /\ o.op = "schedule"
            BY <1>1, <2>1, Threads DEF ScheduleJob, IsNext, Now
          <6>3. at[r] \in 1..MainLen(setup)
            BY ONLY <6>1
          <6>4. o.worker \in 0..(setup.threads - 1)
            BY <6>1, <6>2, <6>3, GivenJob
          <6>5. QED
            BY <6>4 DEF Worker
        <5>3. k # <<r, o.worker>>
          BY <1>1, <4>3, <5>2, Threads
        <5>4. todo' = [todo EXCEPT ![p] = Tail(@), ![<<r, o.worker>>] = @ \o Job(setup, o.worker, o.job)]
          BY <2>1 DEF ScheduleJob
        <5>5. todo'[k] = todo[k]
          BY <1>2, <5>1, <5>3, <5>4
        <5>6. QED
          BY <4>1, <5>5
      <4>4. QED
        BY <4>2, <4>3
    <3>4. BusyInv'
      BY <1>3, <3>2, <3>3 DEF BusyInv, Now
    <3>5. QED
      BY <3>1, <3>4
  <2>2. CASE ~ScheduleJob(p)
    <3>1. todo' = [todo EXCEPT ![p] = Tail(@)] /\ o.op # "schedule"
      BY <2>2 DEF MainNext, InitMpi, Finalize, Wait, Destroy, Do, IsNext, Now
    <3>2. TodoOk' /\ PlaceInv' /\ MainDone(r)
      BY <1>1, <1>3, <3>1, PopMain
    <3>3. BusyInv'
      BY <1>1, <1>3, <1>4, <3>1, BusyPop
    <3>4. QED
      BY <3>2, <3>3
  <2>3. QED
    BY <2>1, <2>2
<1>6. o.op \in {"sync", "join"} => \A q \in WorkerProc : q[1] = r => todo[q] = <<>>
  <2>1. ASSUME o.op \in {"sync", "join"} PROVE \A j \in Worker : todo[<<p[1], j>>] = <<>>
    BY <2>1 DEF MainNext, InitMpi, Finalize, ScheduleJob, Wait, Destroy, Do, IsNext, Now
  <2>2. \A q \in WorkerProc : q[1] = r => q[2] \in Worker /\ q = <<p[1], q[2]>>
    BY <1>1, Threads
  <2>3. QED
    BY <2>1, <2>2
<1>7. /\ WorkInv'
      /\ \A q \in WorkerProc : FieldIs(setup, at'[q[1]], workAt'[q])
                                 = IF o.op = "destroy" /\ q[1] = r THEN "gone" ELSE fields[q]
      /\ \A k \in Place : MpiIs(setup, at'[k])
                            = IF k = r /\ o.op = "init" THEN Required(setup)
                              ELSE IF k = r /\ o.op = "finalize" THEN "off" ELSE mpi[k]
      /\ \A k \in Place : Holds(setup, at'[k])
                            = IF k = r /\ o.op = "init" THEN {"world"}
                              ELSE IF k = r /\ o.op = "call" THEN After(o, comms[r])
                              ELSE comms[k]
  <2>1. /\ todo[<<r, Main>>] # <<>>
        /\ Now(<<r, Main>>).op \in {"sync", "join"} => \A q \in WorkerProc : q[1] = r => todo[q] = <<>>
        /\ o = Now(<<r, Main>>)
    BY <1>1, <1>3, <1>6
  <2> HIDE DEF o, r
  <2>2. QED
    BY <1>1, <1>3, <1>5, <2>1, MainMoves
<1> HIDE DEF o, r
<1>8. mpi' = [k \in Place |-> MpiIs(setup, at'[k])]
  <2>1. mpi' = [k \in Place |-> IF k = r /\ o.op = "init" THEN Required(setup)
                                ELSE IF k = r /\ o.op = "finalize" THEN "off" ELSE mpi[k]]
    <3>1. CASE InitMpi(p)
      <4>1. o.op = "init" /\ mpi' = [mpi EXCEPT ![r] = Required(setup)]
        BY <3>1 DEF InitMpi, Do, IsNext, Now, o, r
      <4>2. QED
        BY <1>1, <1>2, <4>1
    <3>2. CASE Finalize(p)
      <4>1. o.op = "finalize" /\ mpi' = [mpi EXCEPT ![r] = "off"]
        BY <3>2 DEF Finalize, Do, IsNext, Now, o, r
      <4>2. QED
        BY <1>1, <1>2, <4>1
    <3>3. CASE ScheduleJob(p) \/ Wait(p) \/ Destroy(p)
      <4>1. o.op \notin {"init", "finalize"} /\ mpi' = mpi
        BY <3>3 DEF ScheduleJob, Wait, Destroy, Do, IsNext, Now, o, r
      <4>2. QED
        BY <1>1, <1>2, <4>1
    <3>4. QED
      BY <3>1, <3>2, <3>3 DEF MainNext
  <2>2. QED
    BY <1>7, <2>1
<1>9. comms' = [k \in Place |-> Holds(setup, at'[k])]
  <2>1. comms' = [k \in Place |-> IF k = r /\ o.op = "init" THEN {"world"} ELSE comms[k]]
    <3>1. CASE InitMpi(p)
      <4>1. o.op = "init" /\ comms' = [comms EXCEPT ![r] = {"world"}]
        BY <3>1 DEF InitMpi, Do, IsNext, Now, o, r
      <4>2. QED
        BY <1>1, <1>2, <4>1
    <3>2. CASE Finalize(p) \/ ScheduleJob(p) \/ Wait(p) \/ Destroy(p)
      <4>1. o.op # "init" /\ comms' = comms
        BY <3>2 DEF Finalize, ScheduleJob, Wait, Destroy, Do, IsNext, Now, o, r
      <4>2. QED
        BY <1>1, <1>2, <4>1
    <3>3. QED
      BY <3>1, <3>2 DEF MainNext
  <2>2. o.op # "call"
    BY <1>3
  <2>3. QED
    BY <1>7, <2>1, <2>2
<1>10. fields' = [q \in WorkerProc |-> FieldIs(setup, at'[q[1]], workAt'[q])]
  <2>1. fields' = [q \in WorkerProc |-> IF o.op = "destroy" /\ q[1] = r THEN "gone" ELSE fields[q]]
    <3>1. CASE Destroy(p)
      <4>1. o.op = "destroy" /\ fields' = [q \in WorkerProc |-> IF q[1] = r THEN "gone" ELSE fields[q]]
        BY <3>1 DEF Destroy, Do, IsNext, Now, o, r
      <4>2. QED
        BY <4>1
    <3>2. CASE InitMpi(p) \/ Finalize(p) \/ ScheduleJob(p) \/ Wait(p)
      <4>1. o.op # "destroy" /\ fields' = fields
        BY <3>2 DEF InitMpi, Finalize, ScheduleJob, Wait, Do, IsNext, Now, o, r
      <4>2. QED
        BY <1>2, <4>1
    <3>3. QED
      BY <3>1, <3>2 DEF MainNext
  <2>2. QED
    BY <1>7, <2>1
<1>11. StateInv'
  BY <1>1, <1>2, <1>3, <1>5, <1>7, <1>8, <1>9, <1>10, Assembled
<1>12. Done(p) /\ Now(p).op # "call"
  BY <1>1, <1>3, <1>4, <1>5 DEF Done, o, r
<1>13. QED
  BY <1>11, <1>12

\* A worker goes on, but for calls.
LEMMA WorkerGoesOn ==
  ASSUME StateInv, NEW p \in WorkerProc, WorkerNext(p)
  PROVE  StateInv' /\ (Began(p) \/ Done(p)) /\ Now(p).op # "call"
<1> DEFINE o == Now(p)
<1>1. /\ p \in Proc /\ p[2] # Main /\ Typed /\ PlaceInv /\ BusyInv /\ WorkInv /\ setup \in Setups
  BY Threads DEF StateInv, Typed
<1>2. /\ busy \in [Proc -> BOOLEAN] /\ todo \in [Proc -> Seq(Operation)]
      /\ mpi = [k \in Place |-> mpi[k]] /\ comms = [k \in Place |-> comms[k]]
      /\ fields = [q \in WorkerProc |-> fields[q]]
      /\ calls \in [Place -> [Comm -> Seq(CallNames)]]
      /\ met \in [WorkerProc -> [Meeting -> Nat]] /\ steps \in [WorkerProc -> Nat]
  BY <1>1 DEF Typed
<1>3. /\ setup' = setup /\ todo[p] # <<>> /\ mpi' = mpi /\ comms' = comms /\ calls' = calls
      /\ o.op \in {"ready", "exit", "meet", "step"}
  BY DEF WorkerNext, InitRuntime, Exit, BeginMeet, EndMeet, BeginStep, EndStep, Do, Begin, End,
         IsNext, Now
<1>4. o.op = "meet" => o.at \in Meeting
  <2>1. workAt[p] \in 1..LW(setup, p[2]) /\ WorkerOp(setup, p[2], workAt[p], o)
    BY <1>1, <1>3, AtWorker
  <2>2. SetupOk(setup) /\ p[2] \in 0..(setup.threads - 1)
    BY <1>1, Threads
  <2> HIDE DEF o
  <2>3. QED
    BY <2>1, <2>2, WorkerKinds
<1>5. met' \in [WorkerProc -> [Meeting -> Nat]] /\ steps' \in [WorkerProc -> Nat]
  <2>1. CASE BeginMeet(p)
    <3>1. steps' = steps /\ met' = [met EXCEPT ![p][o.at] = @ + 1] /\ o.op = "meet"
      BY <2>1 DEF BeginMeet, Begin, IsNext, Now
    <3> HIDE DEF o
    <3>2. met[p] \in [Meeting -> Nat] /\ met[p][o.at] \in Nat
      BY <1>2, <1>4, <3>1
    <3>3. [met[p] EXCEPT ![o.at] = @ + 1] \in [Meeting -> Nat]
      <4>1. met[p][o.at] + 1 \in Nat
        BY <3>2
      <4>2. QED
        BY <3>2, <4>1
    <3>4. QED
      BY <1>2, <3>1, <3>3
  <2>2. CASE BeginStep(p)
    BY <1>2, <2>2 DEF BeginStep
  <2>3. CASE InitRuntime(p) \/ Exit(p) \/ EndMeet(p) \/ EndStep(p)
    BY <1>2, <2>3 DEF InitRuntime, Exit, EndMeet, EndStep
  <2>4. QED
    BY <2>1, <2>2, <2>3 DEF WorkerNext
<1>6. CASE BeginMeet(p) \/ BeginStep(p)
  <2>1. /\ todo' = todo /\ busy' = [busy EXCEPT ![p] = TRUE] /\ ~busy[p] /\ fields' = fields
        /\ o.op \in Long
    BY <1>6 DEF BeginMeet, BeginStep, Begin, IsNext, Now, Long
  <2>2. TodoOk' /\ PlaceInv' /\ NoMove /\ WorkerProc' = WorkerProc
    <3>1. WorkerProc' = WorkerProc /\ Proc' = Proc
      BY <1>3, SameThreads
    <3>2. at' = at
      BY <1>3, <2>1 DEF at
    <3>3. given' = given
      BY <1>3, <3>1, <3>2 DEF given
    <3>4. workAt' = workAt
      BY <2>1, <3>1, <3>3 DEF workAt
    <3>5. \A k \in Place : MainPlaced(k)'
      BY <1>1, <1>3, <2>1, <3>2 DEF PlaceInv, MainPlaced, Left
    <3>6. \A q \in WorkerProc : WorkerPlaced(q)'
      BY <1>1, <1>3, <2>1, <3>3, <3>4 DEF PlaceInv, WorkerPlaced, Left
    <3>7. PlaceInv'
      BY <3>1, <3>5, <3>6 DEF PlaceInv
    <3>8. TodoOk'
      BY <1>2, <2>1, <3>1 DEF TodoOk
    <3>9. QED
      BY <3>1, <3>2, <3>4, <3>7, <3>8 DEF NoMove
  <2>3. BusyInv' /\ busy' \in [Proc -> BOOLEAN]
    BY <1>1, <1>3, <2>1, BusyBegin
  <2>4. WorkInv'
    BY <1>1, <1>3, <2>2 DEF WorkInv, NoMove
  <2>5. /\ mpi' = [k \in Place |-> MpiIs(setup, at'[k])]
        /\ comms' = [k \in Place |-> Holds(setup, at'[k])]
        /\ fields' = [q \in WorkerProc |-> FieldIs(setup, at'[q[1]], workAt'[q])]
    <3>1. at' = at /\ workAt' = workAt
      BY <2>2 DEF NoMove
    <3>2. \A k \in Place : mpi[k] = MpiIs(setup, at'[k]) /\ comms[k] = Holds(setup, at'[k])
      BY <3>1 DEF StateInv, MpiInv, CommsInv
    <3>3. \A q \in WorkerProc : fields[q] = FieldIs(setup, at'[q[1]], workAt'[q])
      BY <3>1 DEF StateInv, FieldsInv
    <3>4. QED
      BY <1>2, <1>3, <2>1, <3>2, <3>3
  <2>6. calls' \in [Place -> [Comm -> Seq(CallNames)]]
    BY <1>2, <1>3
  <2>7. StateInv'
    BY <1>1, <1>3, <1>5, <2>2, <2>3, <2>4, <2>5, <2>6, Assembled
  <2>8. Began(p)
    BY <1>3, <2>1, <2>2 DEF Began
  <2>9. QED
    BY <1>3, <2>7, <2>8
<1>7. CASE InitRuntime(p) \/ Exit(p) \/ EndMeet(p) \/ EndStep(p)
  <2>1. todo' = [todo EXCEPT ![p] = Tail(@)]
    BY <1>7 DEF InitRuntime, Exit, EndMeet, EndStep, Do, End
  <2>2. busy' = [busy EXCEPT ![p] = FALSE]
    <3>1. CASE InitRuntime(p) \/ Exit(p)
      <4>1. busy' = busy /\ o.op \in {"ready", "exit"}
        BY <3>1 DEF InitRuntime, Exit, Do, IsNext, Now
      <4>2. ~busy[p]
        BY <1>1, <4>1 DEF BusyInv, Long
      <4>3. QED
        BY <1>1, <1>2, <4>1, <4>2
    <3>2. CASE EndMeet(p) \/ EndStep(p)
      BY <3>2 DEF EndMeet, EndStep, End
    <3>3. QED
      BY <1>7, <3>1, <3>2
  <2>3. TodoOk' /\ PlaceInv' /\ WorkerDone(p)
    BY <1>1, <1>3, <2>1, PopWorker
  <2>4. BusyInv'
    BY <1>1, <1>3, <2>1, <2>2, BusyPop
  <2>5. /\ WorkInv'
        /\ \A q \in WorkerProc : FieldIs(setup, at'[q[1]], workAt'[q])
                                   = IF q = p /\ o.op = "ready" THEN "ready" ELSE fields[q]
        /\ \A k \in Place : MpiIs(setup, at'[k]) = mpi[k] /\ Holds(setup, at'[k]) = comms[k]
    BY <1>3, <2>3, WorkerMoves
  <2>6. fields' = [q \in WorkerProc |-> IF q = p /\ o.op = "ready" THEN "ready" ELSE fields[q]]
    <3>1. CASE InitRuntime(p)
      <4>1. o.op = "ready" /\ fields' = [fields EXCEPT ![p] = "ready"]
        BY <3>1 DEF InitRuntime, Do, IsNext, Now
      <4> HIDE DEF o
      <4>2. QED
        BY <1>2, <4>1
    <3>2. CASE Exit(p) \/ EndMeet(p) \/ EndStep(p)
      <4>1. o.op # "ready" /\ fields' = fields
        BY <3>2 DEF Exit, EndMeet, EndStep, Do, End, IsNext, Now
      <4> HIDE DEF o
      <4>2. QED
        BY <1>2, <4>1
    <3>3. QED
      BY <1>7, <3>1, <3>2
  <2>7. /\ mpi' = [k \in Place |-> MpiIs(setup, at'[k])]
        /\ comms' = [k \in Place |-> Holds(setup, at'[k])]
        /\ fields' = [q \in WorkerProc |-> FieldIs(setup, at'[q[1]], workAt'[q])]
    <3> HIDE DEF o
    <3>1. QED
      BY <1>2, <1>3, <2>5, <2>6
  <2>8. busy' \in [Proc -> BOOLEAN] /\ calls' \in [Place -> [Comm -> Seq(CallNames)]]
    BY <1>2, <1>3, <2>2
  <2>9. StateInv'
    BY <1>1, <1>3, <1>5, <2>3, <2>4, <2>5, <2>7, <2>8, Assembled
  <2>10. Done(p)
    BY <1>1, <1>3, <2>2, <2>3 DEF Done
  <2>11. QED
    BY <1>3, <2>9, <2>10
<1>8. QED
  BY <1>6, <1>7 DEF WorkerNext

\* A thread begins or ends a call.
LEMMA CallGoesOn ==
  ASSUME StateInv, NEW p \in Proc, BeginCall(p) \/ EndCall(p)
  PROVE  StateInv' /\ (Began(p) \/ Done(p)) /\ Now(p).op = "call"
<1> DEFINE o == Now(p)
           r == p[1]
<1>1. /\ Typed /\ PlaceInv /\ BusyInv /\ WorkInv /\ setup \in Setups /\ r \in Place
  BY Threads DEF StateInv, Typed
<1>2. /\ busy \in [Proc -> BOOLEAN] /\ todo \in [Proc -> Seq(Operation)]
      /\ mpi = [k \in Place |-> mpi[k]] /\ comms = [k \in Place |-> comms[k]]
      /\ fields = [q \in WorkerProc |-> fields[q]]
      /\ calls \in [Place -> [Comm -> Seq(CallNames)]]
      /\ met \in [WorkerProc -> [Meeting -> Nat]] /\ steps \in [WorkerProc -> Nat]
  BY <1>1 DEF Typed
<1>3. /\ setup' = setup /\ todo[p] # <<>> /\ mpi' = mpi /\ fields' = fields /\ met' = met
      /\ steps' = steps /\ o.op = "call"
  BY DEF BeginCall, EndCall, Begin, End, IsNext, Now
<1>4. o \in Operation
  <2>1. todo[p] \in Seq(Operation)
    BY <1>2
  <2>2. QED
    BY <1>3, <2>1 DEF Now
<1>5. o.comm \in Comm /\ o.call \in CallNames
  <2> HIDE DEF o
  <2>1. QED
    BY <1>3, <1>4, CallFields
<1>6. CASE BeginCall(p)
  <2>1. /\ todo' = todo /\ busy' = [busy EXCEPT ![p] = TRUE] /\ ~busy[p] /\ comms' = comms
        /\ o.op \in Long /\ calls' = [calls EXCEPT ![r][o.comm] = Append(@, o.call)]
    BY <1>3, <1>6 DEF BeginCall, Begin, Long
  <2>2. TodoOk' /\ PlaceInv' /\ NoMove /\ WorkerProc' = WorkerProc
    <3>1. WorkerProc' = WorkerProc /\ Proc' = Proc
      BY <1>3, SameThreads
    <3>2. at' = at
      BY <1>3, <2>1 DEF at
    <3>3. given' = given
      BY <1>3, <3>1, <3>2 DEF given
    <3>4. workAt' = workAt
      BY <2>1, <3>1, <3>3 DEF workAt
    <3>5. \A k \in Place : MainPlaced(k)'
      BY <1>1, <1>3, <2>1, <3>2 DEF PlaceInv, MainPlaced, Left
    <3>6. \A q \in WorkerProc : WorkerPlaced(q)'
      BY <1>1, <1>3, <2>1, <3>3, <3>4 DEF PlaceInv, WorkerPlaced, Left
    <3>7. PlaceInv'
      BY <3>1, <3>5, <3>6 DEF PlaceInv
    <3>8. TodoOk'
      BY <1>2, <2>1, <3>1 DEF TodoOk
    <3>9. QED
      BY <3>1, <3>2, <3>4, <3>7, <3>8 DEF NoMove
  <2>3. BusyInv' /\ busy' \in [Proc -> BOOLEAN]
    BY <1>1, <1>3, <2>1, BusyBegin
  <2>4. WorkInv'
    BY <1>1, <1>3, <2>2 DEF WorkInv, NoMove
  <2>5. /\ mpi' = [k \in Place |-> MpiIs(setup, at'[k])]
        /\ comms' = [k \in Place |-> Holds(setup, at'[k])]
        /\ fields' = [q \in WorkerProc |-> FieldIs(setup, at'[q[1]], workAt'[q])]
    <3>1. at' = at /\ workAt' = workAt
      BY <2>2 DEF NoMove
    <3>2. \A k \in Place : mpi[k] = MpiIs(setup, at'[k]) /\ comms[k] = Holds(setup, at'[k])
      BY <3>1 DEF StateInv, MpiInv, CommsInv
    <3>3. \A q \in WorkerProc : fields[q] = FieldIs(setup, at'[q[1]], workAt'[q])
      BY <3>1 DEF StateInv, FieldsInv
    <3>4. QED
      BY <1>2, <1>3, <2>1, <3>2, <3>3
  <2>6. calls' \in [Place -> [Comm -> Seq(CallNames)]]
    <3> HIDE DEF o, r
    <3>1. calls[r] \in [Comm -> Seq(CallNames)] /\ calls[r][o.comm] \in Seq(CallNames)
      BY <1>1, <1>2, <1>5
    <3>2. Append(calls[r][o.comm], o.call) \in Seq(CallNames)
      BY <1>5, <3>1
    <3>3. [calls[r] EXCEPT ![o.comm] = Append(@, o.call)] \in [Comm -> Seq(CallNames)]
      BY <3>1, <3>2
    <3>4. QED
      BY <1>1, <1>2, <2>1, <3>3
  <2>7. met' \in [WorkerProc -> [Meeting -> Nat]] /\ steps' \in [WorkerProc -> Nat]
    BY <1>2, <1>3
  <2>8. StateInv'
    BY <1>1, <1>3, <2>2, <2>3, <2>4, <2>5, <2>6, <2>7, Assembled
  <2>9. Began(p)
    BY <1>3, <2>1, <2>2 DEF Began
  <2>10. QED
    BY <1>3, <2>8, <2>9
<1>7. CASE EndCall(p)
  <2>1. /\ todo' = [todo EXCEPT ![p] = Tail(@)] /\ busy' = [busy EXCEPT ![p] = FALSE]
        /\ calls' = calls /\ busy[p] /\ MayEnd(p)
        /\ comms' = [comms EXCEPT ![r] = After(o, comms[r])]
    BY <1>7 DEF EndCall, End, After
  <2>2. BusyInv'
    BY <1>1, <1>3, <2>1, BusyPop
  <2>3. /\ busy' \in [Proc -> BOOLEAN] /\ calls' \in [Place -> [Comm -> Seq(CallNames)]]
        /\ met' \in [WorkerProc -> [Meeting -> Nat]] /\ steps' \in [WorkerProc -> Nat]
    BY <1>2, <1>3, <2>1
  <2>4. comms' = [k \in Place |-> IF k = r THEN After(o, comms[r]) ELSE comms[k]]
    <3> HIDE DEF o, r
    <3>1. QED
      BY <1>1, <1>2, <2>1
  <2>5. CASE p \in WorkerProc
    <3>1. TodoOk' /\ PlaceInv' /\ WorkerDone(p) /\ p[2] # Main
      BY <1>1, <1>3, <2>1, <2>5, PopWorker, Threads
    <3>2. /\ WorkInv'
          /\ \A q \in WorkerProc : FieldIs(setup, at'[q[1]], workAt'[q])
                                     = IF q = p /\ o.op = "ready" THEN "ready" ELSE fields[q]
          /\ \A k \in Place : MpiIs(setup, at'[k]) = mpi[k] /\ Holds(setup, at'[k]) = comms[k]
      BY <1>3, <2>5, <3>1, WorkerMoves
    <3>3. After(o, comms[r]) = comms[r]
      <4>1. workAt[p] \in 1..LW(setup, p[2]) /\ WorkerOp(setup, p[2], workAt[p], o)
        BY <1>1, <1>3, <2>5, AtWorker
      <4>2. SetupOk(setup) /\ p[2] \in 0..(setup.threads - 1)
        BY <1>1, <2>5, Threads
      <4> HIDE DEF o
      <4>3. o.call \in {"barrier", "bcast", "reduce"}
        BY <1>3, <4>1, <4>2, WorkerKinds
      <4>4. QED
        BY <4>3 DEF After
    <3>4. /\ mpi' = [k \in Place |-> MpiIs(setup, at'[k])]
          /\ comms' = [k \in Place |-> Holds(setup, at'[k])]
          /\ fields' = [q \in WorkerProc |-> FieldIs(setup, at'[q[1]], workAt'[q])]
      <4> HIDE DEF o, r
      <4>1. o.op # "ready"
        BY <1>3
      <4>2. QED
        BY <1>2, <1>3, <2>4, <3>2, <3>3, <4>1
    <3>5. StateInv'
      BY <1>1, <1>3, <2>2, <2>3, <3>1, <3>2, <3>4, Assembled
    <3>6. Done(p)
      BY <1>3, <2>1, <3>1 DEF Done
    <3>7. QED
      BY <1>3, <3>5, <3>6
  <2>6. CASE p \notin WorkerProc
    <3>0. p = <<r, Main>> /\ p[2] = Main
      BY <1>1, <2>6, Threads
    <3>1. TodoOk' /\ PlaceInv' /\ MainDone(r)
      <4>1. o.op # "schedule" /\ o = Now(<<r, Main>>) /\ todo[<<r, Main>>] # <<>>
            /\ todo' = [todo EXCEPT ![<<r, Main>>] = Tail(@)]
        <5> DEFINE k == <<r, Main>>
        <5>1. k = p
          BY <3>0
        <5> HIDE DEF k
        <5>2. /\ o.op # "schedule" /\ o = Now(k) /\ todo[k] # <<>>
              /\ todo' = [todo EXCEPT ![k] = Tail(@)]
          BY <1>3, <2>1, <5>1
        <5>3. QED
          BY <5>2 DEF k
      <4> HIDE DEF o, r
      <4>2. QED
        BY <1>1, <1>3, <4>1, PopMain
    <3>2. /\ WorkInv'
          /\ \A q \in WorkerProc : FieldIs(setup, at'[q[1]], workAt'[q])
                                     = IF o.op = "destroy" /\ q[1] = r THEN "gone" ELSE fields[q]
          /\ \A k \in Place : MpiIs(setup, at'[k])
                                = IF k = r /\ o.op = "init" THEN Required(setup)
                                  ELSE IF k = r /\ o.op = "finalize" THEN "off" ELSE mpi[k]
          /\ \A k \in Place : Holds(setup, at'[k])
                                = IF k = r /\ o.op = "init" THEN {"world"}
                                  ELSE IF k = r /\ o.op = "call" THEN After(o, comms[r])
                                  ELSE comms[k]
      <4>1. o.op \notin {"sync", "join"} /\ o = Now(<<r, Main>>) /\ todo[<<r, Main>>] # <<>>
        BY <1>3, <3>0
      <4> HIDE DEF o, r
      <4>2. QED
        BY <1>1, <1>3, <3>1, <4>1, MainMoves
    <3>3. /\ mpi' = [k \in Place |-> MpiIs(setup, at'[k])]
          /\ comms' = [k \in Place |-> Holds(setup, at'[k])]
          /\ fields' = [q \in WorkerProc |-> FieldIs(setup, at'[q[1]], workAt'[q])]
      <4> HIDE DEF o, r
      <4>1. o.op \notin {"init", "finalize", "destroy"}
        BY <1>3
      <4>2. QED
        BY <1>2, <1>3, <2>4, <3>2, <4>1
    <3>4. StateInv'
      BY <1>1, <1>3, <2>2, <2>3, <3>1, <3>2, <3>3, Assembled
    <3>5. Done(p)
      BY <1>3, <2>1, <3>0, <3>1 DEF Done
    <3>6. QED
      BY <1>3, <3>4, <3>5
  <2>7. QED
    BY <2>5, <2>6
<1>8. QED
  BY <1>6, <1>7

\* Every step keeps StateInv, and is no more than one thread beginning or finishing
\* its operation.
LEMMA Steps ==
  ASSUME StateInv, [Next]_vars
  PROVE  StateInv' /\ setup' = setup /\ (Idles \/ \E p \in Proc : Began(p) \/ Done(p))
<1>1. CASE UNCHANGED vars
  <2>1. /\ setup' = setup /\ todo' = todo /\ busy' = busy /\ mpi' = mpi /\ comms' = comms
        /\ calls' = calls /\ met' = met /\ steps' = steps /\ fields' = fields
    BY <1>1 DEF vars
  <2>2. Worker' = Worker /\ WorkerProc' = WorkerProc /\ Proc' = Proc
    BY <2>1, SameThreads
  <2>3. at' = at
    BY <2>1 DEF at
  <2>4. given' = given
    BY <2>1, <2>2, <2>3 DEF given
  <2>5. workAt' = workAt
    BY <2>1, <2>2, <2>4 DEF workAt
  <2>6. Typed' /\ BusyInv'
    BY <2>1, <2>2 DEF StateInv, Typed, BusyInv, Now
  <2>7. PlaceInv'
    <3>1. \A k \in Place : MainPlaced(k)'
      BY <2>1, <2>3 DEF StateInv, PlaceInv, MainPlaced, Left
    <3>2. \A q \in WorkerProc : WorkerPlaced(q)'
      BY <2>1, <2>4, <2>5 DEF StateInv, PlaceInv, WorkerPlaced, Left
    <3>3. QED
      BY <2>2, <3>1, <3>2 DEF PlaceInv
  <2>8. WorkInv' /\ FieldsInv' /\ MpiInv' /\ CommsInv'
    BY <2>1, <2>2, <2>3, <2>5 DEF StateInv, WorkInv, FieldsInv, MpiInv, CommsInv
  <2>9. QED
    BY <2>1, <2>3, <2>5, <2>6, <2>7, <2>8 DEF StateInv, Idles, NoMove
<1>2. CASE \E p \in Place \X {Main} : MainNext(p)
  <2>1. PICK p \in Place \X {Main} : MainNext(p)
    BY <1>2
  <2>2. p \in Proc
    BY DEF Proc
  <2>3. setup' = setup
    BY <2>1 DEF MainNext, InitMpi, Finalize, ScheduleJob, Wait, Destroy, Do
  <2>4. QED
    BY <2>1, <2>2, <2>3, MainGoesOn
<1>3. CASE \E p \in WorkerProc : WorkerNext(p)
  <2>1. PICK p \in WorkerProc : WorkerNext(p)
    BY <1>3
  <2>2. p \in Proc
    BY DEF Proc, WorkerProc
  <2>3. setup' = setup
    BY <2>1 DEF WorkerNext, InitRuntime, Exit, BeginMeet, EndMeet, BeginStep, EndStep, Do, Begin, End
  <2>4. QED
    BY <2>1, <2>2, <2>3, WorkerGoesOn
<1>4. CASE \E p \in Proc : BeginCall(p) \/ EndCall(p)
  <2>1. PICK p \in Proc : BeginCall(p) \/ EndCall(p)
    BY <1>4
  <2>2. setup' = setup
    BY <2>1 DEF BeginCall, EndCall, Begin, End
  <2>3. QED
    BY <2>1, <2>2, CallGoesOn
<1>5. QED
  BY <1>1, <1>2, <1>3, <1>4 DEF Next

\* At the start every rank is at the first operation of its programs.
LEMMA InitState == Init => StateInv
<1> SUFFICES ASSUME Init PROVE StateInv
  OBVIOUS
<1> USE DEF Init
<1>1. setup \in Setups /\ SetupOk(setup)
  BY SetupsOk
<1> DEFINE s == setup
           c == MainScript(s)
           L == MainLen(s)
<1>2. c \in Seq(Operation) /\ Len(c) = L /\ L \in Nat \ {0}
  BY <1>1, MainScriptIs, Landmarks
<1>3. todo = [p \in Proc |-> IF p[2] = Main THEN c ELSE <<>>]
  BY DEF MainScript
<1> HIDE DEF c, L
<1>4. todo \in [Proc -> Seq(Operation)]
  <2>1. <<>> \in Seq(Operation)
    OBVIOUS
  <2>2. \A p \in Proc : (IF p[2] = Main THEN c ELSE <<>>) \in Seq(Operation)
    BY <1>2, <2>1
  <2>3. QED
    BY <1>3, <2>2
<1>5. Typed
  <2>1. busy \in [Proc -> BOOLEAN]
    OBVIOUS
  <2>2. mpi \in [Place -> {"off", "single", "multiple"}]
    OBVIOUS
  <2>3. comms \in [Place -> SUBSET Comm]
    OBVIOUS
  <2>4. calls \in [Place -> [Comm -> Seq(CallNames)]]
    <3>1. <<>> \in Seq(CallNames)
      OBVIOUS
    <3>2. [m \in Comm |-> <<>>] \in [Comm -> Seq(CallNames)]
      BY <3>1
    <3>3. QED
      BY <3>2
  <2>5. met \in [WorkerProc -> [Meeting -> Nat]]
    OBVIOUS
  <2>6. steps \in [WorkerProc -> Nat]
    OBVIOUS
  <2>7. fields \in [WorkerProc -> {"none", "ready", "gone"}]
    OBVIOUS
  <2>8. QED
    BY <1>1, <1>4, <2>1, <2>2, <2>3, <2>4, <2>5, <2>6, <2>7 DEF Typed
<1>6. /\ \A r \in Place : <<r, Main>> \in Proc
      /\ \A q \in WorkerProc : q \in Proc /\ q[1] \in Place /\ q[2] \in 0..(s.threads - 1) /\ q[2] # Main
  BY <1>5, Threads
<1>7. ASSUME NEW r \in Place PROVE todo[<<r, Main>>] = c /\ at[r] = 1
  <2>1. todo[<<r, Main>>] = c
    BY <1>3, <1>6
  <2>2. at[r] = L - Len(c) + 1
    BY <2>1 DEF at, L
  <2>3. QED
    BY <1>2, <2>1, <2>2
<1>8. ASSUME NEW q \in WorkerProc PROVE todo[q] = <<>> /\ given[q] = 0 /\ workAt[q] = 1
  <2>1. todo[q] = <<>>
    BY <1>3, <1>6
  <2>2. GivenTo(s, 1, q[2]) = 0
    <3>1. Lead(s) \in {4, 5}
      BY <1>1, Marks
    <3>2. 1 <= Lead(s) + 1
      BY <3>1
    <3> HIDE DEF s
    <3>3. QED
      BY <1>1, <1>6, <3>2, GivenAt DEF s
  <2>3. given[q] = 0
    BY <1>6, <1>7, <2>2 DEF given
  <2>4. QED
    BY <2>1, <2>3 DEF workAt
<1>9. PlaceInv
  <2>1. ASSUME NEW r \in Place PROVE MainPlaced(r)
    <3>1. 1 \in 1..(L + 1)
      BY <1>2
    <3>2. Left(c, c, 1)
      BY <1>2 DEF Left
    <3>3. QED
      BY <1>7, <3>1, <3>2 DEF MainPlaced, L, c
  <2>2. ASSUME NEW q \in WorkerProc PROVE WorkerPlaced(q)
    <3>1. todo[q] = <<>> /\ given[q] = 0 /\ workAt[q] = 1
      BY <1>8
    <3> HIDE DEF Init
    <3>2. Len(todo[q]) = 0 /\ workAt[q] \in 1..(given[q] + 1)
      BY <3>1
    <3>3. QED
      BY <3>2 DEF WorkerPlaced, Left
  <2>3. QED
    BY <2>1, <2>2 DEF PlaceInv
<1>10. BusyInv
  BY DEF BusyInv
<1>15. \A q \in WorkerProc : fields[q] = "none"
  OBVIOUS
<1>11. WorkInv /\ FieldsInv
  <2>1. SyncAt(s) \in Nat /\ JoinAt(s) \in Nat /\ DestroyAt(s) \in Nat /\ SyncAt(s) >= 1
        /\ JoinAt(s) >= 1 /\ DestroyAt(s) >= 1
    <3>1. /\ Lead(s) \in {4, 5} /\ s.threads \in Nat /\ SyncAt(s) = Lead(s) + s.threads + 1
          /\ JoinAt(s) = Lead(s) + s.threads + s.threads + s.threads + 3
          /\ DestroyAt(s) = Lead(s) + s.threads + s.threads + s.threads + 5
      BY <1>1, Marks
    <3> HIDE DEF s, Init
    <3>2. QED
      BY <3>1
  <2>2. ~(1 > SyncAt(s)) /\ ~(1 > JoinAt(s)) /\ ~(1 > DestroyAt(s))
    BY <2>1
  <2>3. \A q \in WorkerProc : at[q[1]] = 1
    BY <1>6, <1>7
  <2>4. WorkInv
    BY <2>2, <2>3 DEF WorkInv, WorkOk
  <2>5. FieldsInv
    <3> HIDE DEF Init
    <3>1. \A q \in WorkerProc : workAt[q] = 1 /\ fields[q] = "none"
      BY <1>8, <1>15
    <3>2. \A q \in WorkerProc : ~(at[q[1]] > DestroyAt(s)) /\ ~(workAt[q] >= 2)
      BY <2>2, <2>3, <3>1
    <3>3. QED
      BY <3>1, <3>2 DEF FieldsInv, FieldIs
  <2>6. QED
    BY <2>4, <2>5
<1>12. MpiInv
  BY <1>7 DEF MpiInv, MpiIs
<1>13. CommsInv
  <2>1. Holds(s, 1) = {}
    <3>1. CartAt(s) \in {2, 3}
      BY DEF CartAt
    <3>2. /\ Holds(s, 1) \subseteq Comm
          /\ "world" \in Holds(s, 1) <=> 1 > 1
          /\ "hw" \in Holds(s, 1) <=> Builds(s) /\ (~s.cart) /\ 1 > 2 /\ 1 <= FreedAt(s, "hw")
          /\ "cart" \in Holds(s, 1) <=> Builds(s) /\ 1 > CartAt(s) /\ 1 <= FreedAt(s, "cart")
      BY HoldsIs
    <3> HIDE DEF s
    <3>3. "world" \notin Holds(s, 1) /\ "hw" \notin Holds(s, 1) /\ "cart" \notin Holds(s, 1)
      BY <3>1, <3>2
    <3>4. QED
      BY <3>2, <3>3 DEF Comm
  <2>2. QED
    BY <1>7, <2>1 DEF CommsInv
<1>14. QED
  BY <1>5, <1>9, <1>10, <1>11, <1>12, <1>13 DEF StateInv

-----------------------------------------------------------------------------
(***************************************************************************)
(* The calls of a rank in the order it makes them.  All of them have an index:  *)
(* those of main up to its barrier of ready workers come first, then those of   *)
(* worker 0, then the others of main.                                        *)
(***************************************************************************)
Cut(s) == IF IsRun(s) THEN ReadyAt(s) ELSE MainLen(s)
Work0(s) == LW(s, 0)
Indices(s) == 1..(MainLen(s) + Work0(s))

OpAt(s, u) == IF u <= Cut(s) THEN MainScript(s)[u]
              ELSE IF u <= Cut(s) + Work0(s) THEN WorkerScript(s, 0)[u - Cut(s)]
              ELSE MainScript(s)[u - Work0(s)]

CallsOn(s, c) == {u \in Indices(s) : OpAt(s, u).op = "call" /\ OpAt(s, u).comm = c}

CallsTo(s, c, u) == {v \in CallsOn(s, c) : v <= u}

MainBegun(r, n) == n < at[r] \/ (n = at[r] /\ busy[<<r, Main>>])
WorkBegun(r, n) == n < workAt[<<r, 0>>] \/ (n = workAt[<<r, 0>>] /\ busy[<<r, 0>>])

Begun(r, u) == IF u <= Cut(setup) THEN MainBegun(r, u)
               ELSE IF u <= Cut(setup) + Work0(setup) THEN WorkBegun(r, u - Cut(setup))
               ELSE MainBegun(r, u - Work0(setup))

BegunOn(r, c) == {u \in CallsOn(setup, c) : Begun(r, u)}

\* The i-th call on a communicator is the i-th of those begun.
IsCall(r, c, i, u) == i = Cardinality(CallsTo(setup, c, u)) /\ calls[r][c][i] = OpAt(setup, u).call

CallsInv == \A r \in Place, c \in Comm :
              /\ Len(calls[r][c]) = Cardinality(BegunOn(r, c))
              /\ \A i \in 1..Len(calls[r][c]) : \E u \in BegunOn(r, c) : IsCall(r, c, i, u)

\* Where the calls of a rank are cut: main before the workers, worker 0, main after.
LEMMA Indexed ==
  ASSUME NEW s, SetupOk(s)
  PROVE  /\ Cut(s) \in Nat /\ Cut(s) >= 1 /\ Work0(s) \in Nat /\ MainLen(s) \in Nat
         /\ 0 \in 0..(s.threads - 1) /\ Cut(s) <= MainLen(s)
         /\ ~IsRun(s) => Cut(s) = MainLen(s)
         /\ IsRun(s) => Cut(s) = ReadyAt(s)
<1>1. /\ s.threads \in Nat /\ s.threads >= 1 /\ MainLen(s) \in Nat \ {0}
      /\ Lead(s) \in {4, 5} /\ ReadyAt(s) = Lead(s) + s.threads + 2
      /\ DestroyAt(s) = Lead(s) + s.threads + s.threads + s.threads + 5
      /\ IsRun(s) => MainLen(s) > DestroyAt(s)
  BY Marks
<1>2. 0 \in 0..(s.threads - 1)
  BY <1>1
<1>3. Work0(s) \in Nat
  BY <1>2, WorkerScriptIs DEF Work0
<1>4. CASE IsRun(s)
  <2>1. Cut(s) = ReadyAt(s)
    BY <1>4 DEF Cut
  <2>2. QED
    BY <1>1, <1>2, <1>3, <1>4, <2>1
<1>5. CASE ~IsRun(s)
  <2>1. Cut(s) = MainLen(s)
    BY <1>5 DEF Cut
  <2>2. QED
    BY <1>1, <1>2, <1>3, <1>5, <2>1
<1>6. QED
  BY <1>4, <1>5

\* Where a call is made: by main early, by worker 0, or by main late.
Early(s, u) == u <= Cut(s)
Middle(s, u) == u > Cut(s) /\ u <= Cut(s) + Work0(s)
Late(s, u) == u > Cut(s) + Work0(s)

\* Each call of a rank is of one of the three parts.
LEMMA WhereCalled ==
  ASSUME NEW s, SetupOk(s), NEW c, NEW u \in CallsOn(s, c)
  PROVE  /\ u \in Nat /\ OpAt(s, u).op = "call" /\ OpAt(s, u).comm = c
         /\ Early(s, u) \/ Middle(s, u) \/ Late(s, u)
         /\ Early(s, u) => u \in 1..MainLen(s) /\ OpAt(s, u) = MainScript(s)[u]
         /\ Middle(s, u) => /\ u - Cut(s) \in 2..(Work0(s) - 1)
                            /\ OpAt(s, u) = WorkerScript(s, 0)[u - Cut(s)]
         /\ Late(s, u) => /\ IsRun(s) /\ u - Work0(s) \in 1..MainLen(s)
                          /\ u - Work0(s) >= EndedAt(s)
                          /\ OpAt(s, u) = MainScript(s)[u - Work0(s)]
<1> DEFINE C == Cut(s)
           W == Work0(s)
           L == MainLen(s)
<1>1. /\ C \in Nat /\ C >= 1 /\ W \in Nat /\ L \in Nat /\ C <= L
      /\ ~IsRun(s) => C = L
      /\ IsRun(s) => C = ReadyAt(s)
      /\ 0 \in 0..(s.threads - 1)
  BY Indexed
<1>2. u \in 1..(L + W) /\ OpAt(s, u).op = "call" /\ OpAt(s, u).comm = c
  BY DEF CallsOn, Indices
<1>3. Early(s, u) => OpAt(s, u) = MainScript(s)[u]
  BY DEF Early, OpAt
<1> HIDE DEF C, W, L
<1>4. u \in Nat /\ u >= 1 /\ u <= L + W
  BY <1>1, <1>2
<1>5. Middle(s, u) => ~(u <= C) /\ u <= C + W
  BY <1>1, <1>4 DEF Middle, C, W
<1>6. Late(s, u) => ~(u <= C) /\ ~(u <= C + W) /\ u > C + W
  BY <1>1, <1>4 DEF Late, C, W
<1>7. Early(s, u) => u <= C
  BY DEF Early, C
<1>8. Early(s, u) \/ Middle(s, u) \/ Late(s, u)
  BY <1>1, <1>4 DEF Early, Middle, Late, C, W
<1>9. ASSUME Middle(s, u) PROVE u - C \in 2..(W - 1) /\ OpAt(s, u) = WorkerScript(s, 0)[u - C]
  <2>1. OpAt(s, u) = WorkerScript(s, 0)[u - C]
    BY <1>5, <1>9 DEF OpAt, C, W
  <2>2. u - C \in 1..W
    BY <1>1, <1>4, <1>5, <1>9
  <2>3. W = LW(s, 0)
    BY DEF W, Work0
  <2>4. WorkerOp(s, 0, u - C, OpAt(s, u))
    BY <1>1, <2>1, <2>2, <2>3, WorkerScriptIs
  <2>5. u - C \in 2..(W - 1)
    BY <1>1, <1>2, <2>2, <2>3, <2>4, WorkerKinds
  <2>6. QED
    BY <2>1, <2>5
<1>10. ASSUME Late(s, u)
       PROVE  /\ IsRun(s) /\ u - W \in 1..L /\ u - W >= EndedAt(s)
              /\ OpAt(s, u) = MainScript(s)[u - W]
  <2> DEFINE n == u - W
  <2>1. OpAt(s, u) = MainScript(s)[n]
    BY <1>6, <1>10 DEF OpAt, C, W
  <2>2. n \in 1..L /\ n > C
    BY <1>1, <1>4, <1>6, <1>10
  <2> HIDE DEF n
  <2>3. IsRun(s) /\ n > ReadyAt(s)
    BY <1>1, <2>2
  <2>4. MainOp(s, n, OpAt(s, u))
    BY <2>1, <2>2, MainScriptIs DEF L
  <2>5. CallOp(s, n, OpAt(s, u))
    BY <1>2, <2>2, <2>4, MainKinds DEF L
  <2>6. n <= Lead(s) \/ n = ReadyAt(s) \/ n = EndedAt(s) \/ n > DestroyAt(s)
    BY <2>3, <2>5 DEF CallOp
  <2>7. /\ Lead(s) \in {4, 5} /\ s.threads \in Nat /\ s.threads >= 1
        /\ ReadyAt(s) = Lead(s) + s.threads + 2
        /\ EndedAt(s) = Lead(s) + s.threads + s.threads + s.threads + 4
        /\ DestroyAt(s) = Lead(s) + s.threads + s.threads + s.threads + 5
    BY Marks
  <2>8. n \in Nat
    BY <2>2
  <2>9. n >= EndedAt(s)
    BY <2>3, <2>6, <2>7, <2>8
  <2>10. QED
    BY <2>1, <2>2, <2>3, <2>9 DEF n
<1>11. Early(s, u) => u \in 1..L
  BY <1>1, <1>4, <1>7
<1>12. QED
  BY <1>2, <1>3, <1>4, <1>8, <1>9, <1>10, <1>11 DEF C, W, L

\* Where worker 0 is, once main is beyond sync and beyond join.
LEMMA Places ==
  ASSUME StateInv, NEW r \in Place
  PROVE  /\ SetupOk(setup) /\ <<r, 0>> \in WorkerProc /\ <<r, 0>>[1] = r /\ <<r, 0>>[2] = 0
         /\ at[r] \in Nat /\ at[r] >= 1 /\ workAt[<<r, 0>>] \in Nat
         /\ at[r] <= MainLen(setup) + 1 /\ workAt[<<r, 0>>] <= Work0(setup) + 1
         /\ IsRun(setup) => /\ at[r] > SyncAt(setup) => workAt[<<r, 0>>] >= 2
                            /\ at[r] > JoinAt(setup) => workAt[<<r, 0>>] = Work0(setup) + 1
<1>1. SetupOk(setup) /\ 0 \in 0..(setup.threads - 1)
  BY Threads, Indexed DEF StateInv
<1>2. <<r, 0>> \in WorkerProc
  BY <1>1 DEF WorkerProc, Worker
<1>3. at[r] \in 1..(MainLen(setup) + 1) /\ MainLen(setup) \in Nat \ {0}
  BY AtMain DEF StateInv
<1>4. /\ workAt[<<r, 0>>] \in 1..(given[<<r, 0>>] + 1) /\ given[<<r, 0>>] \in Nat
      /\ given[<<r, 0>>] <= LW(setup, 0) /\ LW(setup, 0) \in Nat
  BY <1>2, AtWorker DEF StateInv
<1>5. WorkOk(setup, 0, at[r], workAt[<<r, 0>>])
  BY <1>2 DEF StateInv, WorkInv
<1>6. at[r] \in Nat /\ at[r] >= 1 /\ at[r] <= MainLen(setup) + 1
  BY <1>3
<1>7. workAt[<<r, 0>>] \in Nat /\ workAt[<<r, 0>>] <= LW(setup, 0) + 1
  BY <1>4
<1>8. QED
  BY <1>1, <1>2, <1>5, <1>6, <1>7 DEF WorkOk, Work0

\* A worker that has begun an operation after its init: main is beyond the
\* barrier of ready workers.
LEMMA WorkBegunLate ==
  ASSUME StateInv, NEW r \in Place, NEW n \in Nat, n >= 2, WorkBegun(r, n)
  PROVE  IsRun(setup) /\ at[r] > ReadyAt(setup)
<1> DEFINE q == <<r, 0>>
           g == given[q]
           w == workAt[q]
<1>1. /\ SetupOk(setup) /\ q \in WorkerProc /\ q[1] = r /\ q[2] = 0 /\ at[r] \in Nat
      /\ 0 \in 0..(setup.threads - 1)
  BY Places, Indexed
<1>2. /\ w \in 1..(g + 1) /\ g \in Nat /\ g = GivenTo(setup, at[r], 0)
      /\ todo[q] # <<>> <=> w <= g
  BY <1>1, AtWorker DEF StateInv
<1>3. q \in Proc /\ (busy[q] => todo[q] # <<>>)
  BY <1>1, Threads DEF StateInv, BusyInv
<1>4. n < w \/ (n = w /\ busy[q])
  BY DEF WorkBegun
<1> HIDE DEF g, w, q
<1>5. g >= 2
  BY <1>2, <1>3, <1>4
<1>6. /\ ~IsRun(setup) => g = 0
      /\ IsRun(setup) => (at[r] <= ReadyAt(setup) => g <= 1)
  BY <1>1, <1>2, GivenAt
<1>7. ReadyAt(setup) \in Nat
  BY <1>1, Landmarks
<1>8. IsRun(setup)
  BY <1>5, <1>6
<1>9. ~(at[r] <= ReadyAt(setup))
  BY <1>2, <1>5, <1>6, <1>8
<1>10. QED
  BY <1>1, <1>7, <1>8, <1>9

\* A rank begins its calls one after the other.
LEMMA InTurn ==
  ASSUME StateInv, NEW r \in Place, NEW c, NEW d, NEW u \in BegunOn(r, c),
         NEW v \in CallsOn(setup, d), v < u
  PROVE  v \in BegunOn(r, d)
<1> DEFINE s == setup
           C == Cut(s)
           W == Work0(s)
           n == at[r]
           w == workAt[<<r, 0>>]
           R == ReadyAt(s)
<1>1. /\ SetupOk(s) /\ n \in Nat /\ w \in Nat
      /\ IsRun(s) => (n > JoinAt(s) => w = W + 1)
  BY Places
<1>2. /\ C \in Nat /\ W \in Nat
      /\ IsRun(s) => C = R
  BY <1>1, Indexed
<1>3. u \in CallsOn(s, c) /\ Begun(r, u)
  BY DEF BegunOn
<1>4. /\ u \in Nat
      /\ Early(s, u) \/ Middle(s, u) \/ Late(s, u)
      /\ Middle(s, u) => u - C \in 2..(W - 1)
      /\ Late(s, u) => IsRun(s) /\ u - W >= EndedAt(s)
  BY <1>1, <1>3, WhereCalled
<1>5. /\ v \in Nat
      /\ Early(s, v) \/ Middle(s, v) \/ Late(s, v)
      /\ Middle(s, v) => v - C \in 2..(W - 1)
      /\ Late(s, v) => IsRun(s) /\ v - W >= EndedAt(s)
  BY <1>1, WhereCalled
<1>6. /\ EndedAt(s) = JoinAt(s) + 1 /\ JoinAt(s) \in Nat /\ R \in Nat /\ JoinAt(s) > R
  <2>1. /\ EndedAt(s) = JoinAt(s) + 1 /\ JoinAt(s) \in Nat /\ R \in Nat
        /\ JoinAt(s) = R + s.threads + s.threads + 1 /\ s.threads \in Nat
    BY <1>1, Landmarks
  <2> HIDE DEF s, R
  <2>2. QED
    BY <2>1
<1>7. ASSUME NEW x \in {u, v}
      PROVE  /\ Early(s, x) => x <= C /\ (Begun(r, x) <=> MainBegun(r, x))
             /\ Middle(s, x) => x > C /\ x <= C + W /\ (Begun(r, x) <=> WorkBegun(r, x - C))
             /\ Late(s, x) => x > C + W /\ (Begun(r, x) <=> MainBegun(r, x - W))
  <2>1. x \in Nat
    BY <1>4, <1>5
  <2>2. Early(s, x) => x <= C
    BY DEF Early
  <2>3. Middle(s, x) => x > C /\ x <= C + W /\ ~(x <= C)
    BY <1>2, <2>1 DEF Middle
  <2>4. Late(s, x) => x > C + W /\ ~(x <= C) /\ ~(x <= C + W)
    <3>1. Late(s, x) => x > C + W
      BY DEF Late
    <3> HIDE DEF C, W, s
    <3>2. QED
      BY <1>2, <2>1, <3>1
  <2>5. QED
    BY <2>2, <2>3, <2>4 DEF Begun
<1>8. \A m : MainBegun(r, m) <=> m < n \/ (m = n /\ busy[<<r, Main>>])
  BY DEF MainBegun
<1>9. \A m : WorkBegun(r, m) <=> m < w \/ (m = w /\ busy[<<r, 0>>])
  BY DEF WorkBegun
<1>10. ASSUME Middle(s, u) PROVE IsRun(s) /\ n > R
  <2>1. WorkBegun(r, u - C) /\ u - C \in Nat /\ u - C >= 2
    BY <1>2, <1>3, <1>4, <1>7, <1>10
  <2>2. QED
    BY <2>1, WorkBegunLate
<1> HIDE DEF s, C, W, n, w, R
<1>11. CASE Early(s, v)
  <2>1. CASE Early(s, u)
    BY <1>1, <1>3, <1>4, <1>5, <1>7, <1>8, <1>11, <2>1 DEF BegunOn, s
  <2>2. CASE Middle(s, u)
    <3>1. v < n
      BY <1>1, <1>2, <1>5, <1>6, <1>7, <1>10, <1>11, <2>2
    <3>2. QED
      BY <1>7, <1>8, <1>11, <3>1 DEF BegunOn, s
  <2>3. CASE Late(s, u)
    <3>1. u - W <= n
      BY <1>1, <1>2, <1>3, <1>4, <1>7, <1>8, <2>3
    <3>2. v < n
      BY <1>1, <1>2, <1>4, <1>5, <1>6, <1>7, <1>11, <2>3, <3>1
    <3>3. QED
      BY <1>7, <1>8, <1>11, <3>2 DEF BegunOn, s
  <2>4. QED
    BY <1>4, <2>1, <2>2, <2>3
<1>12. CASE Middle(s, v)
  <2>1. CASE Early(s, u)
    BY <1>2, <1>4, <1>5, <1>7, <1>12, <2>1
  <2>2. CASE Middle(s, u)
    <3>1. u - C <= w
      BY <1>1, <1>2, <1>3, <1>4, <1>7, <1>9, <2>2
    <3>2. v - C < w
      BY <1>1, <1>2, <1>4, <1>5, <3>1
    <3>3. QED
      BY <1>7, <1>9, <1>12, <3>2 DEF BegunOn, s
  <2>3. CASE Late(s, u)
    <3>1. u - W <= n
      BY <1>1, <1>2, <1>3, <1>4, <1>7, <1>8, <2>3
    <3>2. IsRun(s) /\ n > JoinAt(s)
      BY <1>1, <1>2, <1>4, <1>6, <2>3, <3>1
    <3>3. w = W + 1
      BY <1>1, <3>2
    <3>4. v - C < w
      BY <1>1, <1>2, <1>5, <1>12, <3>3
    <3>5. QED
      BY <1>7, <1>9, <1>12, <3>4 DEF BegunOn, s
  <2>4. QED
    BY <1>4, <2>1, <2>2, <2>3
<1>13. CASE Late(s, v)
  <2>1. CASE Early(s, u)
    BY <1>2, <1>4, <1>5, <1>7, <1>13, <2>1
  <2>2. CASE Middle(s, u)
    BY <1>2, <1>4, <1>5, <1>7, <1>13, <2>2
  <2>3. CASE Late(s, u)
    <3>1. u - W <= n
      BY <1>1, <1>2, <1>3, <1>4, <1>7, <1>8, <2>3
    <3>2. v - W < n
      BY <1>1, <1>2, <1>4, <1>5, <3>1
    <3>3. QED
      BY <1>7, <1>8, <1>13, <3>2 DEF BegunOn, s
  <2>4. QED
    BY <1>4, <2>1, <2>2, <2>3
<1>14. QED
  BY <1>5, <1>11, <1>12, <1>13

-----------------------------------------------------------------------------
(***************************************************************************)
(* A call is begun, and is then the last of those begun.                     *)
(***************************************************************************)
IndexOf(p) == IF p[2] = Main
              THEN IF at[p[1]] <= Cut(setup) THEN at[p[1]] ELSE at[p[1]] + Work0(setup)
              ELSE Cut(setup) + workAt[p]

\* Only main and worker 0 call MPI, and a call has begun just if its thread is
\* in progress with it.
LEMMA Caller ==
  ASSUME StateInv, NEW p \in Proc, todo[p] # <<>>, Now(p).op = "call"
  PROVE  /\ p[1] \in Place /\ (p = <<p[1], Main>> \/ p = <<p[1], 0>>)
         /\ Now(p).comm \in Comm /\ Now(p).call \in CallNames
         /\ IndexOf(p) \in CallsOn(setup, Now(p).comm) /\ OpAt(setup, IndexOf(p)) = Now(p)
         /\ Begun(p[1], IndexOf(p)) <=> busy[p]
<1> DEFINE s == setup
           r == p[1]
           o == Now(p)
           C == Cut(s)
           W == Work0(s)
           L == MainLen(s)
           n == at[r]
           w == workAt[p]
           i == IndexOf(p)
<1>1. SetupOk(s) /\ r \in Place
  BY Threads DEF StateInv
<1>2. C \in Nat /\ C >= 1 /\ W \in Nat /\ L \in Nat /\ C <= L
  BY <1>1, Indexed
<1>3. n \in Nat /\ n >= 1
  BY <1>1, Places
<1>4. o.comm \in Comm /\ o.call \in CallNames
  <2>1. todo[p] \in Seq(Operation)
    BY DEF StateInv, Typed
  <2>2. o \in Operation
    BY <2>1 DEF Now
  <2> HIDE DEF o
  <2>3. QED
    BY <2>2, CallFields DEF o
<1>5. CASE p \notin WorkerProc
  <2>1. p = <<r, Main>> /\ p[2] = Main
    BY <1>5, Threads DEF StateInv
  <2>2. n <= L /\ o = MainScript(s)[n]
    BY <1>1, <2>1, AtMain DEF StateInv
  <2>3. i = IF n <= C THEN n ELSE n + W
    BY <2>1 DEF IndexOf
  <2>4. MainBegun(r, n) <=> busy[p]
    <3>1. MainBegun(r, n) <=> n < n \/ (n = n /\ busy[p])
      BY <2>1 DEF MainBegun
    <3>2. ~(n < n)
      BY <1>3
    <3>3. QED
      BY <3>1, <3>2
  <2> HIDE DEF n, C, W, L, i
  <2>5. CASE n <= C
    <3>1. i = n /\ i \in 1..(L + W) /\ i <= C
      BY <1>2, <1>3, <2>2, <2>3, <2>5
    <3>2. OpAt(s, i) = o
      BY <2>2, <3>1 DEF OpAt, C
    <3>3. Begun(r, i) <=> busy[p]
      BY <2>4, <3>1 DEF Begun, C
    <3>4. QED
      BY <1>1, <1>4, <2>1, <3>1, <3>2, <3>3 DEF CallsOn, Indices, L, W, i
  <2>6. CASE ~(n <= C)
    <3>1. i = n + W /\ i \in 1..(L + W) /\ ~(i <= C) /\ ~(i <= C + W) /\ i - W = n
      BY <1>2, <1>3, <2>2, <2>3, <2>6
    <3>2. OpAt(s, i) = o
      BY <2>2, <3>1 DEF OpAt, C, W
    <3>3. Begun(r, i) <=> busy[p]
      BY <2>4, <3>1 DEF Begun, C, W
    <3>4. QED
      BY <1>1, <1>4, <2>1, <3>1, <3>2, <3>3 DEF CallsOn, Indices, L, W, i
  <2>7. QED
    BY <2>5, <2>6
<1>6. CASE p \in WorkerProc
  <2>1. p = <<r, p[2]>> /\ p[2] # Main /\ p[2] \in 0..(s.threads - 1)
    BY <1>6, Threads DEF StateInv
  <2>2. w \in 1..LW(s, p[2]) /\ o = WorkerScript(s, p[2])[w] /\ WorkerOp(s, p[2], w, o)
    BY <1>6, AtWorker DEF StateInv
  <2>3. p[2] = 0
    <3> HIDE DEF s, o, w
    <3>1. QED
      BY <1>1, <2>1, <2>2, WorkerKinds DEF o
  <2>4. p = <<r, 0>>
    BY <2>1, <2>3
  <2>5. i = C + w
    BY <2>1 DEF IndexOf
  <2>6. WorkBegun(r, w) <=> busy[p]
    <3>1. WorkBegun(r, w) <=> w < w \/ (w = w /\ busy[p])
      BY <2>4 DEF WorkBegun
    <3>2. ~(w < w)
      BY <2>2
    <3>3. QED
      BY <3>1, <3>2
  <2>7. w \in 1..W /\ o = WorkerScript(s, 0)[w]
    BY <2>2, <2>3 DEF Work0
  <2> HIDE DEF w, C, W, L, i
  <2>8. i \in 1..(L + W) /\ ~(i <= C) /\ i <= C + W /\ i - C = w
    BY <1>2, <2>5, <2>7
  <2>9. OpAt(s, i) = o
    BY <2>7, <2>8 DEF OpAt, C, W
  <2>10. Begun(r, i) <=> busy[p]
    BY <2>6, <2>8 DEF Begun, C, W
  <2>11. QED
    BY <1>1, <1>4, <2>4, <2>8, <2>9, <2>10 DEF CallsOn, Indices, L, W, i
<1>7. QED
  BY <1>5, <1>6

\* A step begins no call of main but the one it begins.
LEMMA MainBegunNext ==
  ASSUME StateInv, setup' = setup, NEW p \in Proc, Began(p) \/ Done(p), NEW k \in Place,
         NEW n \in 1..MainLen(setup), MainScript(setup)[n].op = "call"
  PROVE  MainBegun(k, n)' <=> MainBegun(k, n) \/ (Began(p) /\ p = <<k, Main>> /\ n = at[k])
<1> DEFINE m == <<k, Main>>
<1>1. /\ m \in Proc /\ p[1] \in Place /\ (p[2] = Main => p = <<p[1], Main>>)
      /\ m[2] = Main /\ m[1] = k
      /\ busy \in [Proc -> BOOLEAN]
  BY Threads DEF StateInv, Typed
<1>2. at[k] \in Nat
  BY Places
<1>3. MainBegun(k, n)' <=> n < at'[k] \/ (n = at'[k] /\ busy'[m])
  BY DEF MainBegun
<1>4. MainBegun(k, n) <=> n < at[k] \/ (n = at[k] /\ busy[m])
  BY DEF MainBegun
<1>5. n \in Nat
  OBVIOUS
<1>6. CASE Began(p)
  <2>1. at'[k] = at[k] /\ busy' = [busy EXCEPT ![p] = TRUE]
    BY <1>6 DEF Began, NoMove
  <2>2. busy'[m] <=> busy[m] \/ p = m
    BY <1>1, <2>1
  <2>3. QED
    BY <1>3, <1>4, <1>6, <2>1, <2>2
<1>7. CASE Done(p) /\ ~Began(p)
  <2>1. busy' = [busy EXCEPT ![p] = FALSE]
    BY <1>7 DEF Done
  <2>2. CASE p = m
    <3>1. at'[k] = at[k] + 1 /\ ~busy'[m]
      BY <1>1, <1>7, <2>1, <2>2 DEF Done, MainDone, at
    <3>2. n = at[k] => busy[m]
      <4>1. Now(m) = MainScript(setup)[at[k]] /\ (Now(m).op = "call" => busy[m])
        BY <1>7, <2>2, AtMain DEF StateInv, Done
      <4>2. QED
        BY <4>1
    <3> HIDE DEF m
    <3>3. MainBegun(k, n)' <=> n < at[k] + 1
      BY <1>3, <3>1
    <3>4. n < at[k] + 1 <=> n < at[k] \/ n = at[k]
      BY <1>2, <1>5
    <3>5. QED
      BY <1>4, <1>7, <3>2, <3>3, <3>4
  <2>3. CASE p # m
    <3>1. at'[k] = at[k]
      <4>1. CASE p[2] = Main
        <5>1. p[1] # k
          BY <1>1, <2>3, <4>1
        <5>2. QED
          BY <1>7, <4>1, <5>1 DEF Done, MainDone, at
      <4>2. CASE p[2] # Main
        BY <1>7, <4>2 DEF Done, WorkerDone
      <4>3. QED
        BY <4>1, <4>2
    <3>2. busy'[m] = busy[m]
      BY <1>1, <2>1, <2>3
    <3>3. QED
      BY <1>3, <1>4, <1>7, <3>1, <3>2
  <2>4. QED
    BY <2>2, <2>3
<1>8. QED
  BY <1>6, <1>7

\* A step begins no call of worker 0 but the one it begins.
LEMMA WorkBegunNext ==
  ASSUME StateInv, setup' = setup, NEW p \in Proc, Began(p) \/ Done(p), NEW k \in Place,
         NEW n \in Nat, WorkerScript(setup, 0)[n].op = "call"
  PROVE  WorkBegun(k, n)' <=> WorkBegun(k, n) \/ (Began(p) /\ p = <<k, 0>> /\ n = workAt[<<k, 0>>])
<1> DEFINE m == <<k, 0>>
<1>1. /\ m \in WorkerProc /\ m \in Proc /\ m[2] # Main /\ m[2] = 0
      /\ busy \in [Proc -> BOOLEAN] /\ workAt[m] \in Nat
  <2>1. m \in WorkerProc /\ workAt[m] \in Nat /\ m[2] = 0
    BY Places
  <2>2. m \in Proc /\ m[2] # Main
    BY <2>1, Threads DEF StateInv
  <2>3. QED
    BY <2>1, <2>2 DEF StateInv, Typed
<1>3. WorkBegun(k, n)' <=> n < workAt'[m] \/ (n = workAt'[m] /\ busy'[m])
  BY DEF WorkBegun
<1>4. WorkBegun(k, n) <=> n < workAt[m] \/ (n = workAt[m] /\ busy[m])
  BY DEF WorkBegun
<1>6. CASE Began(p)
  <2>1. workAt' = workAt /\ busy' = [busy EXCEPT ![p] = TRUE]
    BY <1>6 DEF Began, NoMove
  <2>2. busy'[m] <=> busy[m] \/ p = m
    BY <1>1, <2>1
  <2>3. QED
    BY <1>3, <1>4, <1>6, <2>1, <2>2
<1>7. CASE Done(p) /\ ~Began(p)
  <2>1. busy' = [busy EXCEPT ![p] = FALSE]
    BY <1>7 DEF Done
  <2>2. CASE p = m
    <3>1. workAt'[m] = workAt[m] + 1 /\ ~busy'[m]
      BY <1>1, <1>7, <2>1, <2>2 DEF Done, WorkerDone, workAt
    <3>2. n = workAt[m] => busy[m]
      <4>1. todo[m] # <<>> /\ (Now(m).op = "call" => busy[m])
        BY <1>7, <2>2 DEF Done
      <4>2. Now(m) = WorkerScript(setup, 0)[workAt[m]]
        BY <1>1, <4>1, AtWorker DEF StateInv
      <4>3. QED
        BY <4>1, <4>2
    <3> HIDE DEF m
    <3>3. WorkBegun(k, n)' <=> n < workAt[m] + 1
      BY <1>3, <3>1
    <3>4. n < workAt[m] + 1 <=> n < workAt[m] \/ n = workAt[m]
      BY <1>1
    <3>5. QED
      BY <1>4, <1>7, <3>2, <3>3, <3>4 DEF m
  <2>3. CASE p # m
    <3>1. workAt'[m] = workAt[m]
      <4>1. CASE p[2] = Main
        BY <1>7, <4>1 DEF Done, MainDone
      <4>2. CASE p[2] # Main
        BY <1>1, <1>7, <2>3, <4>2 DEF Done, WorkerDone, workAt
      <4>3. QED
        BY <4>1, <4>2
    <3>2. busy'[m] = busy[m]
      BY <1>1, <2>1, <2>3
    <3>3. QED
      BY <1>3, <1>4, <1>7, <3>1, <3>2
  <2>4. QED
    BY <2>2, <2>3
<1>8. QED
  BY <1>6, <1>7

\* A step begins no call of a rank but the one it begins.
LEMMA BegunNext ==
  ASSUME StateInv, setup' = setup, NEW p \in Proc, Began(p) \/ Done(p), NEW k \in Place, NEW c,
         NEW u \in CallsOn(setup, c)
  PROVE  Begun(k, u)' <=> Begun(k, u) \/ (Began(p) /\ Now(p).op = "call" /\ p[1] = k /\ u = IndexOf(p))
<1> DEFINE s == setup
           C == Cut(s)
           W == Work0(s)
           n == at[k]
           w == workAt[<<k, 0>>]
           new == Began(p) /\ Now(p).op = "call" /\ p[1] = k /\ u = IndexOf(p)
<1>1. /\ SetupOk(s) /\ n \in Nat /\ n >= 1 /\ w \in Nat /\ <<k, 0>> \in WorkerProc
      /\ <<k, 0>>[2] = 0 /\ <<k, 0>>[1] = k
  BY Places
<1>2. C \in Nat /\ C >= 1 /\ W \in Nat /\ MainLen(s) \in Nat /\ C <= MainLen(s)
  BY <1>1, Indexed
<1>3. w >= 1
  BY <1>1, AtWorker DEF StateInv
<1>4. /\ u \in Nat /\ OpAt(s, u).op = "call"
      /\ Early(s, u) \/ Middle(s, u) \/ Late(s, u)
      /\ Early(s, u) => u \in 1..MainLen(s) /\ OpAt(s, u) = MainScript(s)[u]
      /\ Middle(s, u) => /\ u - C \in 2..(W - 1)
                         /\ OpAt(s, u) = WorkerScript(s, 0)[u - C]
      /\ Late(s, u) => /\ u - W \in 1..MainLen(s)
                       /\ OpAt(s, u) = MainScript(s)[u - W]
  BY <1>1, WhereCalled
<1>5. <<k, Main>>[2] = Main /\ <<k, Main>>[1] = k /\ <<k, 0>>[2] # Main
  BY DEF Main
<1>6. IndexOf(<<k, Main>>) = (IF n <= C THEN n ELSE n + W) /\ IndexOf(<<k, 0>>) = C + w
  BY <1>5 DEF IndexOf
<1>7. new => p = <<k, Main>> \/ p = <<k, 0>>
  <2>1. ASSUME new PROVE p = <<p[1], Main>> \/ p = <<p[1], 0>>
    <3>1. todo[p] # <<>>
      BY <2>1 DEF Began
    <3>2. QED
      BY <2>1, <3>1, Caller
  <2>2. QED
    BY <2>1
<1>8. Began(p) /\ p = <<k, Main>> => Now(p) = MainScript(s)[n]
  <2>1. Began(p) /\ p = <<k, Main>> => todo[<<k, Main>>] # <<>>
    BY DEF Began
  <2>2. QED
    BY <2>1, AtMain DEF StateInv
<1>9. Began(p) /\ p = <<k, 0>> => Now(p) = WorkerScript(s, 0)[w]
  <2>1. Began(p) /\ p = <<k, 0>> => todo[<<k, 0>>] # <<>>
    BY DEF Began
  <2>2. todo[<<k, 0>>] # <<>> => Now(<<k, 0>>) = WorkerScript(s, 0)[w]
    BY <1>1, AtWorker DEF StateInv
  <2>3. QED
    BY <2>1, <2>2
<1>10. CASE Early(s, u)
  <2>1. u <= C /\ u \in 1..MainLen(s) /\ MainScript(s)[u].op = "call"
    BY <1>4, <1>10 DEF Early
  <2>2. (Begun(k, u)' <=> MainBegun(k, u)') /\ (Begun(k, u) <=> MainBegun(k, u))
    BY <2>1 DEF Begun, MainBegun
  <2>3. MainBegun(k, u)' <=> MainBegun(k, u) \/ (Began(p) /\ p = <<k, Main>> /\ u = n)
    BY <2>1, MainBegunNext
  <2>4. new <=> Began(p) /\ p = <<k, Main>> /\ u = n
    <3>1. ASSUME new PROVE p = <<k, Main>> /\ u = n
      <4>1. u # C + w
        <5> HIDE DEF C, w
        <5>1. QED
          BY <1>1, <1>2, <1>3, <1>4, <2>1
      <4>2. p # <<k, 0>>
        BY <1>6, <3>1, <4>1
      <4>3. p = <<k, Main>> /\ u = IF n <= C THEN n ELSE n + W
        BY <1>6, <1>7, <3>1, <4>2
      <4> HIDE DEF C, W, n
      <4>4. QED
        BY <1>1, <1>2, <1>4, <2>1, <4>3
    <3>2. ASSUME Began(p), p = <<k, Main>>, u = n PROVE new
      <4>1. Now(p).op = "call"
        BY <1>8, <2>1, <3>2
      <4>2. u = IndexOf(p) /\ p[1] = k
        BY <1>5, <1>6, <2>1, <3>2
      <4>3. QED
        BY <3>2, <4>1, <4>2
    <3> HIDE DEF new
    <3>3. QED
      BY <3>1, <3>2 DEF new
  <2>5. QED
    BY <2>2, <2>3, <2>4
<1>11. CASE Middle(s, u)
  <2>1. u > C /\ u <= C + W /\ ~(u <= C) /\ u - C \in Nat /\ WorkerScript(s, 0)[u - C].op = "call"
    <3>1. u > C /\ u <= C + W /\ u - C \in 2..(W - 1) /\ WorkerScript(s, 0)[u - C].op = "call"
      BY <1>4, <1>11 DEF Middle
    <3> HIDE DEF C, W
    <3>2. QED
      BY <1>2, <1>4, <3>1
  <2>2. (Begun(k, u)' <=> WorkBegun(k, u - C)') /\ (Begun(k, u) <=> WorkBegun(k, u - C))
    BY <2>1 DEF Begun, WorkBegun
  <2>3. WorkBegun(k, u - C)' <=> WorkBegun(k, u - C) \/ (Began(p) /\ p = <<k, 0>> /\ u - C = w)
    BY <2>1, WorkBegunNext
  <2>4. new <=> Began(p) /\ p = <<k, 0>> /\ u - C = w
    <3>1. ASSUME new PROVE p = <<k, 0>> /\ u - C = w
      <4>1. u # IF n <= C THEN n ELSE n + W
        <5> HIDE DEF C, w, n, W
        <5>1. QED
          BY <1>1, <1>2, <1>3, <1>4, <2>1
      <4>2. p # <<k, Main>>
        BY <1>6, <3>1, <4>1
      <4>3. p = <<k, 0>> /\ u = C + w
        BY <1>6, <1>7, <3>1, <4>2
      <4> HIDE DEF C, w
      <4>4. QED
        BY <1>1, <1>2, <1>4, <4>3
    <3>2. ASSUME Began(p), p = <<k, 0>>, u - C = w PROVE new
      <4>1. Now(p).op = "call"
        BY <1>9, <2>1, <3>2
      <4>2. u = C + w
        <5> HIDE DEF C, w
        <5>1. QED
          BY <1>1, <1>2, <1>4, <3>2
      <4>3. u = IndexOf(p) /\ p[1] = k
        BY <1>1, <1>6, <3>2, <4>2
      <4>4. QED
        BY <3>2, <4>1, <4>3
    <3> HIDE DEF new
    <3>3. QED
      BY <3>1, <3>2 DEF new
  <2>5. QED
    BY <2>2, <2>3, <2>4
<1>12. CASE Late(s, u)
  <2>1. u > C + W /\ ~(u <= C) /\ ~(u <= C + W) /\ u - W \in 1..MainLen(s) /\ MainScript(s)[u - W].op = "call"
    <3>1. u > C + W /\ u - W \in 1..MainLen(s) /\ MainScript(s)[u - W].op = "call"
      BY <1>4, <1>12 DEF Late
    <3> HIDE DEF C, W
    <3>2. QED
      BY <1>2, <1>4, <3>1
  <2>2. (Begun(k, u)' <=> MainBegun(k, u - W)') /\ (Begun(k, u) <=> MainBegun(k, u - W))
    BY <2>1 DEF Begun, MainBegun
  <2>3. MainBegun(k, u - W)' <=> MainBegun(k, u - W) \/ (Began(p) /\ p = <<k, Main>> /\ u - W = n)
    BY <2>1, MainBegunNext
  <2>4. new <=> Began(p) /\ p = <<k, Main>> /\ u - W = n
    <3>1. ASSUME new PROVE p = <<k, Main>> /\ u - W = n
      <4>1. p = <<k, 0>> => u # C + w
        <5> HIDE DEF C, w, W
        <5>1. p = <<k, 0>> => w <= W
          <6>1. ASSUME p = <<k, 0>> PROVE w <= W
            <7>1. todo[p] # <<>>
              BY <3>1 DEF Began
            <7>2. workAt[<<k, 0>>] \in 1..LW(setup, 0)
              BY <1>1, <6>1, <7>1, AtWorker DEF StateInv
            <7>3. w \in 1..W
              BY <7>2 DEF w, W, Work0
            <7>4. QED
              BY <1>2, <7>3
          <6>2. QED
            BY <6>1
        <5>2. QED
          BY <1>1, <1>2, <1>4, <2>1, <5>1
      <4>2. p # <<k, 0>>
        BY <1>6, <3>1, <4>1
      <4>3. p = <<k, Main>> /\ u = IF n <= C THEN n ELSE n + W
        BY <1>6, <1>7, <3>1, <4>2
      <4> HIDE DEF C, W, n
      <4>4. QED
        BY <1>1, <1>2, <1>4, <2>1, <4>3
    <3>2. ASSUME Began(p), p = <<k, Main>>, u - W = n PROVE new
      <4>1. Now(p).op = "call"
        BY <1>8, <2>1, <3>2
      <4>2. u = n + W /\ ~(n <= C)
        <5> HIDE DEF C, W, n
        <5>1. QED
          BY <1>1, <1>2, <1>4, <2>1, <3>2
      <4>3. u = IndexOf(p) /\ p[1] = k
        BY <1>5, <1>6, <3>2, <4>2
      <4>4. QED
        BY <3>2, <4>1, <4>3
    <3> HIDE DEF new
    <3>3. QED
      BY <3>1, <3>2 DEF new
  <2>5. QED
    BY <2>2, <2>3, <2>4
<1>13. QED
  BY <1>4, <1>10, <1>11, <1>12

-----------------------------------------------------------------------------
(***************************************************************************)
(* What a rank has called is what it has begun of the calls, in order.         *)
(***************************************************************************)
\* The calls of a rank can be counted.
LEMMA FiniteCalls ==
  ASSUME NEW s, SetupOk(s), NEW c, NEW T, T \subseteq CallsOn(s, c)
  PROVE  IsFiniteSet(T) /\ Cardinality(T) \in Nat /\ T \subseteq Nat
<1>1. Work0(s) \in Nat /\ MainLen(s) \in Nat
  BY Indexed
<1>2. IsFiniteSet(Indices(s)) /\ Indices(s) \subseteq Nat
  <2>1. 1 \in Int /\ MainLen(s) + Work0(s) \in Int
    BY <1>1
  <2>2. IsFiniteSet(1..(MainLen(s) + Work0(s)))
    BY <2>1, FS_Interval
  <2>3. QED
    BY <1>1, <2>2 DEF Indices
<1>3. T \subseteq Indices(s)
  BY DEF CallsOn
<1>4. IsFiniteSet(T)
  BY <1>2, <1>3, FS_Subset
<1>5. Cardinality(T) \in Nat
  BY <1>4, FS_CardinalityType
<1>6. QED
  BY <1>2, <1>3, <1>4, <1>5

\* At the start no call has been made.
LEMMA InitCalls == Init => CallsInv
<1> SUFFICES ASSUME Init PROVE CallsInv
  OBVIOUS
<1>1. StateInv /\ SetupOk(setup)
  BY InitState, Threads DEF StateInv
<1>2. /\ \A r \in Place, c \in Comm : calls[r][c] = <<>>
      /\ \A p \in Proc : ~busy[p]
      /\ \A q \in WorkerProc : fields[q] = "none"
      /\ \A r \in Place : todo[<<r, Main>>] = MainScript(setup)
  <2>1. \A r \in Place : <<r, Main>> \in Proc
    BY <1>1, Threads DEF StateInv
  <2>2. \A r \in Place : <<r, Main>>[2] = Main
    OBVIOUS
  <2>3. QED
    BY <2>1, <2>2 DEF Init, MainScript
<1>3. ASSUME NEW r \in Place PROVE at[r] = 1 /\ workAt[<<r, 0>>] = 1
  <2>1. MainLen(setup) = Len(MainScript(setup)) /\ MainLen(setup) \in Nat
    BY <1>1, MainScriptIs, Landmarks
  <2>2. at[r] = MainLen(setup) - Len(MainScript(setup)) + 1
    BY <1>1, <1>2, AtMain DEF StateInv
  <2>3. at[r] = 1
    BY <2>1, <2>2
  <2>4. <<r, 0>> \in WorkerProc /\ workAt[<<r, 0>>] \in Nat
    BY <1>1, Places
  <2>5. workAt[<<r, 0>>] >= 1
    <3>1. workAt[<<r, 0>>] \in 1..(given[<<r, 0>>] + 1)
      BY <1>1, <2>4, AtWorker DEF StateInv
    <3>2. QED
      BY <2>4, <3>1
  <2>6. FieldIs(setup, at[r], workAt[<<r, 0>>]) = "none"
    <3>1. fields[<<r, 0>>] = "none"
      BY <1>2, <2>4
    <3>2. <<r, 0>>[1] = r
      OBVIOUS
    <3>3. QED
      BY <1>1, <2>4, <3>1, <3>2 DEF StateInv, FieldsInv
  <2>7. ~(workAt[<<r, 0>>] >= 2)
    BY <2>6 DEF FieldIs
  <2>8. workAt[<<r, 0>>] = 1
    BY <2>4, <2>5, <2>7
  <2>9. QED
    BY <2>3, <2>8
<1>4. ASSUME NEW r \in Place, NEW c \in Comm PROVE BegunOn(r, c) = {}
  <2> SUFFICES ASSUME NEW u \in CallsOn(setup, c), Begun(r, u) PROVE FALSE
    BY DEF BegunOn
  <2> DEFINE C == Cut(setup)
             W == Work0(setup)
  <2>1. /\ u \in Nat
        /\ Early(setup, u) \/ Middle(setup, u) \/ Late(setup, u)
        /\ Early(setup, u) => u \in 1..MainLen(setup)
        /\ Middle(setup, u) => u - C \in 2..(W - 1)
        /\ Late(setup, u) => u - W \in 1..MainLen(setup)
    BY <1>1, WhereCalled
  <2>2. C \in Nat /\ W \in Nat
    BY <1>1, Indexed
  <2>3. \A n \in Nat : n >= 1 => ~MainBegun(r, n)
    <3>1. ~busy[<<r, Main>>]
      BY <1>1, <1>2, Threads DEF StateInv
    <3>2. at[r] = 1
      BY <1>3
    <3>3. \A n \in Nat : n >= 1 => ~(n < 1)
      OBVIOUS
    <3>4. \A n : MainBegun(r, n) => n < 1 \/ busy[<<r, Main>>]
      BY <3>2 DEF MainBegun
    <3>5. QED
      BY <3>1, <3>3, <3>4
  <2>4. \A n \in Nat : n >= 1 => ~WorkBegun(r, n)
    <3>1. ~busy[<<r, 0>>]
      BY <1>1, <1>2, Places, Threads DEF StateInv
    <3>2. workAt[<<r, 0>>] = 1
      BY <1>3
    <3>3. \A n \in Nat : n >= 1 => ~(n < 1)
      OBVIOUS
    <3>4. \A n : WorkBegun(r, n) => n < 1 \/ busy[<<r, 0>>]
      BY <3>2 DEF WorkBegun
    <3>5. QED
      BY <3>1, <3>3, <3>4
  <2>5. CASE Early(setup, u)
    <3>1. u <= C /\ u >= 1
      BY <2>1, <2>5 DEF Early
    <3>2. QED
      BY <2>1, <2>3, <3>1 DEF Begun
  <2>6. CASE Middle(setup, u)
    <3>1. u > C /\ u <= C + W /\ u - C \in 2..(W - 1)
      BY <2>1, <2>6 DEF Middle
    <3> HIDE DEF C, W
    <3>2. ~(u <= C) /\ u <= C + W /\ u - C \in Nat /\ u - C >= 1
      BY <2>1, <2>2, <3>1
    <3>3. QED
      BY <2>4, <3>2 DEF Begun, C, W
  <2>7. CASE Late(setup, u)
    <3>1. u > C + W /\ u - W \in 1..MainLen(setup)
      BY <2>1, <2>7 DEF Late
    <3> HIDE DEF C, W
    <3>2. ~(u <= C) /\ ~(u <= C + W) /\ u - W \in Nat /\ u - W >= 1
      BY <2>1, <2>2, <3>1
    <3>3. QED
      BY <2>3, <3>2 DEF Begun, C, W
  <2>8. QED
    BY <2>1, <2>5, <2>6, <2>7
<1>5. ASSUME NEW r \in Place, NEW c \in Comm
      PROVE  /\ Len(calls[r][c]) = Cardinality(BegunOn(r, c))
             /\ \A i \in 1..Len(calls[r][c]) : \E u \in BegunOn(r, c) : IsCall(r, c, i, u)
  <2>1. calls[r][c] = <<>> /\ BegunOn(r, c) = {}
    BY <1>2, <1>4
  <2>2. Cardinality({}) = 0
    BY FS_EmptySet
  <2>3. Len(calls[r][c]) = 0
    BY <2>1
  <2>4. \A i \in 1..0 : FALSE
    OBVIOUS
  <2>5. QED
    BY <2>1, <2>2, <2>3, <2>4
<1>6. QED
  BY <1>5 DEF CallsInv

\* What a step does to them.
LEMMA BegunOnNext ==
  ASSUME StateInv, setup' = setup, NEW p \in Proc, Began(p) \/ Done(p), NEW k \in Place, NEW c \in Comm
  PROVE  BegunOn(k, c)' = IF Began(p) /\ Now(p).op = "call" /\ p[1] = k /\ Now(p).comm = c
                          THEN BegunOn(k, c) \union {IndexOf(p)} ELSE BegunOn(k, c)
<1> DEFINE new == Began(p) /\ Now(p).op = "call" /\ p[1] = k
<1>1. \A u \in CallsOn(setup, c) : Begun(k, u)' <=> Begun(k, u) \/ (new /\ u = IndexOf(p))
  BY BegunNext
<1>2. CallsOn(setup, c)' = CallsOn(setup, c)
  OBVIOUS
<1>3. new => /\ IndexOf(p) \in CallsOn(setup, Now(p).comm)
             /\ \A d : IndexOf(p) \in CallsOn(setup, d) => d = Now(p).comm
  <2>1. ASSUME new PROVE IndexOf(p) \in CallsOn(setup, Now(p).comm)
    <3>1. todo[p] # <<>>
      BY <2>1 DEF Began
    <3>2. QED
      BY <2>1, <3>1, Caller
  <2>2. QED
    BY <2>1 DEF CallsOn
<1>4. \A u : u \in BegunOn(k, c)' <=> u \in CallsOn(setup, c) /\ (Begun(k, u) \/ (new /\ u = IndexOf(p)))
  BY <1>1, <1>2 DEF BegunOn
<1> HIDE DEF new
<1>5. CASE new /\ Now(p).comm = c
  <2>1. \A u : u \in BegunOn(k, c)' <=> u \in BegunOn(k, c) \/ u = IndexOf(p)
    BY <1>3, <1>4, <1>5 DEF BegunOn
  <2>2. BegunOn(k, c)' = BegunOn(k, c) \union {IndexOf(p)}
    BY <2>1
  <2>3. QED
    BY <1>5, <2>2 DEF new
<1>6. CASE ~(new /\ Now(p).comm = c)
  <2>1. \A u : u \in BegunOn(k, c)' <=> u \in BegunOn(k, c)
    BY <1>3, <1>4, <1>6 DEF BegunOn
  <2>2. BegunOn(k, c)' = BegunOn(k, c)
    BY <2>1
  <2>3. QED
    BY <1>6, <2>2 DEF new
<1>7. QED
  BY <1>5, <1>6

\* InTurn as a formula on states.
OneByOne == \A r \in Place, c \in Comm :
              \A u \in BegunOn(r, c), v \in CallsOn(setup, c) : v < u => v \in BegunOn(r, c)

LEMMA Ordered == StateInv => OneByOne
  BY InTurn DEF OneByOne

\* A begun call is the next of its rank's programs, so the calls stay a prefix.
LEMMA NextCalls ==
  ASSUME StateInv, CallsInv, [Next]_vars
  PROVE  CallsInv'
<1>1. StateInv' /\ setup' = setup /\ (Idles \/ \E p \in Proc : Began(p) \/ Done(p))
  BY Steps
<1>2. SetupOk(setup) /\ calls \in [Place -> [Comm -> Seq(CallNames)]]
  BY Threads DEF StateInv, Typed
<1>0. OneByOne'
  BY <1>1, Ordered, PTL
<1> SUFFICES ASSUME NEW r \in Place, NEW c \in Comm
             PROVE  /\ Len(calls'[r][c]) = Cardinality(BegunOn(r, c)')
                    /\ \A i \in 1..Len(calls'[r][c]) : \E u \in BegunOn(r, c)' : IsCall(r, c, i, u)'
  BY DEF CallsInv
<1> DEFINE l == calls[r][c]
           B == BegunOn(r, c)
<1>3. /\ Len(l) = Cardinality(B)
      /\ \A i \in 1..Len(l) : \E u \in B : IsCall(r, c, i, u)
  BY DEF CallsInv
<1>4. l \in Seq(CallNames) /\ Len(l) \in Nat
  BY <1>2
<1>5. \A i, u : IsCall(r, c, i, u)' <=> i = Cardinality(CallsTo(setup, c, u)) /\ calls'[r][c][i] = OpAt(setup, u).call
  BY <1>1 DEF IsCall
<1>6. ASSUME BegunOn(r, c)' = B, calls'[r][c] = l
      PROVE  /\ Len(calls'[r][c]) = Cardinality(BegunOn(r, c)')
             /\ \A i \in 1..Len(calls'[r][c]) : \E u \in BegunOn(r, c)' : IsCall(r, c, i, u)'
  <2>1. \A i, u : IsCall(r, c, i, u)' <=> IsCall(r, c, i, u)
    BY <1>5, <1>6 DEF IsCall
  <2>2. QED
    BY <1>3, <1>6, <2>1
<1>7. CASE Idles
  <2>1. at' = at /\ workAt' = workAt /\ busy' = busy /\ calls' = calls
    BY <1>7 DEF Idles, NoMove
  <2>2. BegunOn(r, c)' = B
    BY <1>1, <2>1 DEF BegunOn, Begun, MainBegun, WorkBegun
  <2>3. QED
    BY <1>6, <2>1, <2>2
<1>8. ASSUME NEW p \in Proc, Began(p) \/ Done(p)
      PROVE  /\ Len(calls'[r][c]) = Cardinality(BegunOn(r, c)')
             /\ \A i \in 1..Len(calls'[r][c]) : \E u \in BegunOn(r, c)' : IsCall(r, c, i, u)'
  <2> DEFINE new == Began(p) /\ Now(p).op = "call" /\ p[1] = r /\ Now(p).comm = c
             x == Now(p).call
  <2>1. BegunOn(r, c)' = IF new THEN B \union {IndexOf(p)} ELSE B
    BY <1>1, <1>8, BegunOnNext
  <2>2. CASE ~new
    <3>1. calls'[r][c] = l
      <4>1. CASE Began(p) /\ Now(p).op = "call"
        <5>1. calls' = [calls EXCEPT ![p[1]][Now(p).comm] = Append(@, Now(p).call)] /\ (p[1] # r \/ Now(p).comm # c)
          BY <2>2, <4>1 DEF Began
        <5>2. p[1] \in Place /\ Now(p).comm \in Comm
          BY <4>1, Caller DEF Began
        <5> DEFINE k == p[1]
                   m == Now(p).comm
        <5> HIDE DEF k, m
        <5>3. calls' = [calls EXCEPT ![k][m] = Append(@, x)] /\ (k # r \/ m # c) /\ k \in Place /\ m \in Comm
          BY <5>1, <5>2 DEF k, m
        <5> HIDE DEF x
        <5>4. QED
          BY <1>2, <5>3
      <4>2. CASE ~(Began(p) /\ Now(p).op = "call")
        <5>1. calls' = calls
          BY <1>8, <4>2 DEF Began, Done
        <5>2. QED
          BY <5>1
      <4>3. QED
        BY <4>1, <4>2
    <3>2. BegunOn(r, c)' = B
      BY <2>1, <2>2
    <3>3. QED
      BY <1>6, <3>1, <3>2
  <2>3. CASE new
    <3>2. todo[p] # <<>> /\ ~busy[p] /\ Now(p).op = "call" /\ p[1] = r /\ Now(p).comm = c
      BY <2>3 DEF Began
    <3>0. PICK v \in CallsOn(setup, c) : v = IndexOf(p)
      BY <3>2, Caller
    <3>1. BegunOn(r, c)' = B \union {v}
      BY <2>1, <2>3, <3>0
    <3>3. v \in CallsOn(setup, c) /\ OpAt(setup, v) = Now(p) /\ ~Begun(r, v) /\ x \in CallNames
      BY <3>0, <3>2, Caller
    <3>4. calls'[r][c] = Append(l, x)
      <4>1. calls' = [calls EXCEPT ![p[1]][Now(p).comm] = Append(@, Now(p).call)]
        BY <2>3 DEF Began
      <4>2. calls' = [calls EXCEPT ![r][c] = Append(@, x)]
        BY <3>2, <4>1
      <4> HIDE DEF x
      <4>3. QED
        BY <1>2, <4>2
    <3>5. /\ Len(Append(l, x)) = Len(l) + 1 /\ Append(l, x)[Len(l) + 1] = x
          /\ \A i \in 1..Len(l) : Append(l, x)[i] = l[i]
      <4> HIDE DEF l, x
      <4>1. QED
        BY <1>4, <3>3
    <3> HIDE DEF l, x, new
    <3>6. IsFiniteSet(B) /\ v \notin B /\ Cardinality(B) \in Nat
      <4>1. B \subseteq CallsOn(setup, c)
        BY DEF BegunOn
      <4>2. IsFiniteSet(B) /\ Cardinality(B) \in Nat
        BY <1>2, <4>1, FiniteCalls
      <4>3. v \notin B
        BY <3>3 DEF BegunOn
      <4>4. QED
        BY <4>2, <4>3
    <3>7. Cardinality(B \union {v}) = Len(l) + 1
      <4>1. Cardinality(B \union {v}) = IF v \in B THEN Cardinality(B) ELSE Cardinality(B) + 1
        BY <3>6, FS_AddElement
      <4>2. QED
        BY <1>3, <3>6, <4>1
    <3>8. CallsTo(setup, c, v) = B \union {v}
      <4>1. ASSUME NEW u \in CallsOn(setup, c), u < v PROVE u \in B
        <5>1. v \in BegunOn(r, c)' /\ u \in CallsOn(setup, c)'
          BY <1>1, <3>1
        <5>2. u \in BegunOn(r, c)'
          <6>1. \A a \in BegunOn(r, c)', b \in CallsOn(setup, c)' : b < a => b \in BegunOn(r, c)'
            BY <1>0 DEF OneByOne
          <6>2. QED
            BY <4>1, <5>1, <6>1
        <5>3. u # v
          <6>1. u \in Nat /\ v \in Nat
            BY <1>2, <3>3, WhereCalled
          <6>2. QED
            BY <4>1, <6>1
        <5>4. QED
          BY <3>1, <5>2, <5>3
      <4>2. ASSUME NEW u \in B PROVE u <= v
        <5>1. u \in CallsOn(setup, c) /\ u \in Nat /\ v \in Nat
          BY <1>2, <3>3, WhereCalled DEF BegunOn
        <5>2. ~(v < u)
          BY <3>3, <3>6, InTurn
        <5>3. QED
          BY <5>1, <5>2
      <4>3. v <= v
        <5>1. v \in Nat
          BY <1>2, <3>3, WhereCalled
        <5>2. QED
          BY <5>1
      <4>4. B \union {v} \subseteq CallsTo(setup, c, v)
        BY <3>3, <4>2, <4>3 DEF CallsTo, BegunOn
      <4>5. CallsTo(setup, c, v) \subseteq B \union {v}
        <5>1. ASSUME NEW u \in CallsTo(setup, c, v) PROVE u \in B \union {v}
          <6>1. u \in CallsOn(setup, c) /\ u <= v
            BY DEF CallsTo
          <6>2. u \in Nat /\ v \in Nat
            BY <1>2, <3>3, <6>1, WhereCalled
          <6>3. u < v \/ u = v
            BY <6>1, <6>2
          <6>4. QED
            BY <4>1, <6>1, <6>3
        <5>2. QED
          BY <5>1
      <4>6. QED
        BY <4>4, <4>5
    <3>9. ASSUME NEW i \in 1..(Len(l) + 1) PROVE \E u \in BegunOn(r, c)' : IsCall(r, c, i, u)'
      <4>1. CASE i = Len(l) + 1
        <5>1. i = Cardinality(CallsTo(setup, c, v))
          BY <3>7, <3>8, <4>1
        <5>2. calls'[r][c][i] = OpAt(setup, v).call
          BY <3>3, <3>4, <3>5, <4>1 DEF x
        <5>3. IsCall(r, c, i, v)'
          BY <1>5, <5>1, <5>2
        <5>4. QED
          BY <3>1, <5>3
      <4>2. CASE i # Len(l) + 1
        <5>1. i \in 1..Len(l)
          BY <1>4, <4>2
        <5>2. PICK u \in B : IsCall(r, c, i, u)
          BY <1>3, <5>1
        <5>3. calls'[r][c][i] = l[i]
          BY <3>4, <3>5, <5>1
        <5>4. IsCall(r, c, i, u)'
          BY <1>5, <5>2, <5>3 DEF IsCall, l
        <5>5. QED
          BY <3>1, <5>4
      <4>3. QED
        BY <4>1, <4>2
    <3>10. Len(calls'[r][c]) = Len(l) + 1
      BY <3>4, <3>5
    <3>11. Len(calls'[r][c]) = Cardinality(BegunOn(r, c)')
      BY <3>1, <3>7, <3>10
    <3>12. QED
      BY <3>9, <3>10, <3>11
  <2>4. QED
    BY <2>2, <2>3
<1>9. QED
  BY <1>1, <1>7, <1>8

-----------------------------------------------------------------------------
(***************************************************************************)
(* The barriers of main keep the ranks together.                             *)
(***************************************************************************)
MeetInv == IsRun(setup) =>
             \A r, k \in Place : \A n \in {ReadyAt(setup), EndedAt(setup)} : at[r] > n => at[k] >= n

\* A rank that has made as many calls has begun the same ones.
LEMMA Behind ==
  ASSUME StateInv, CallsInv, NEW r \in Place, NEW k \in Place, NEW c \in Comm, NEW i \in BegunOn(r, c),
         Len(calls[k][c]) >= Len(calls[r][c])
  PROVE  i \in BegunOn(k, c)
<1> SUFFICES ASSUME i \notin BegunOn(k, c) PROVE FALSE
  OBVIOUS
<1> DEFINE R == BegunOn(r, c)
           K == BegunOn(k, c)
<1>1. SetupOk(setup)
  BY Threads DEF StateInv
<1>2. R \subseteq CallsOn(setup, c) /\ K \subseteq CallsOn(setup, c)
  BY DEF BegunOn
<1>3. IsFiniteSet(R) /\ Cardinality(R) \in Nat /\ R \subseteq Nat
  BY <1>1, <1>2, FiniteCalls
<1>4. IsFiniteSet(K) /\ Cardinality(K) \in Nat /\ K \subseteq Nat
  BY <1>1, <1>2, FiniteCalls
<1>5. Cardinality(K) >= Cardinality(R)
  BY DEF CallsInv
<1>6. ASSUME NEW v \in K PROVE v \in R
  <2>1. v \in CallsOn(setup, c) /\ i \in CallsOn(setup, c)
    BY <1>2
  <2>2. ~(i < v)
    BY <2>1, InTurn
  <2>3. v # i
    OBVIOUS
  <2>4. v \in Nat /\ i \in Nat
    BY <1>3, <1>4
  <2>5. v < i
    BY <2>2, <2>3, <2>4
  <2>6. QED
    BY <2>1, <2>5, InTurn
<1>7. K \in SUBSET R
  BY <1>6
<1>8. Cardinality(K) <= Cardinality(R) /\ (Cardinality(R) = Cardinality(K) => R = K)
  BY <1>3, <1>7, FS_Subset
<1>9. R # K
  OBVIOUS
<1> HIDE DEF R, K
<1>10. QED
  BY <1>3, <1>4, <1>5, <1>8, <1>9

\* What main does at the two landmarks is the barrier.
LEMMA AtBarrier ==
  ASSUME StateInv, IsRun(setup), NEW r \in Place, todo[<<r, Main>>] # <<>>,
         at[r] \in {ReadyAt(setup), EndedAt(setup)}
  PROVE  Now(<<r, Main>>) = Bar(setup)
<1> DEFINE s == setup
           n == at[r]
           o == Now(<<r, Main>>)
           T == s.threads
           R == ReadyAt(s)
<1>1. SetupOk(s)
  BY Threads DEF StateInv
<1>2. n \in 1..(MainLen(s) + 1) /\ n <= MainLen(s) /\ MainOp(s, n, o)
  BY AtMain DEF StateInv
<1>3. /\ Lead(s) \in {4, 5} /\ T \in Nat /\ T >= 1 /\ MainLen(s) \in Nat
      /\ SyncAt(s) = Lead(s) + T + 1 /\ R = Lead(s) + T + 2
      /\ JoinAt(s) = R + T + T + 1 /\ EndedAt(s) = R + T + T + 2
      /\ DestroyAt(s) = R + T + T + 3 /\ MainLen(s) > DestroyAt(s)
  <2>1. /\ Lead(s) \in {4, 5} /\ T \in Nat /\ T >= 1 /\ MainLen(s) \in Nat
        /\ SyncAt(s) = Lead(s) + T + 1 /\ R = Lead(s) + T + 2
        /\ JoinAt(s) = Lead(s) + T + T + T + 3 /\ EndedAt(s) = Lead(s) + T + T + T + 4
        /\ DestroyAt(s) = Lead(s) + T + T + T + 5 /\ MainLen(s) > DestroyAt(s)
    BY <1>1, Marks
  <2> DEFINE l == Lead(s)
             y == SyncAt(s)
             a == JoinAt(s)
             e == EndedAt(s)
             d == DestroyAt(s)
  <2> HIDE DEF s, R, T, l, y, a, e, d
  <2>2. a = R + T + T + 1 /\ e = R + T + T + 2 /\ d = R + T + T + 3
    <3>1. /\ l \in {4, 5} /\ T \in Nat /\ R = l + T + 2
          /\ a = l + T + T + T + 3 /\ e = l + T + T + T + 4 /\ d = l + T + T + T + 5
      BY <2>1 DEF l, a, e, d
    <3>2. QED
      BY ONLY <3>1
  <2>3. QED
    BY <2>1, <2>2 DEF a, e, d
<1> HIDE DEF s, n, o, T, R
<1>4. n = R \/ n = R + T + T + 2
  BY <1>3 DEF s, n, R
<1>5. ~ScheduleOp(s, n, o)
  <2>1. ASSUME NEW j \in 0..(T - 1)
        PROVE  n # Lead(s) + 1 + j /\ n # R + 1 + j + j /\ n # R + 2 + j + j
    <3> DEFINE l == Lead(s)
    <3>1. j \in Nat /\ j <= T - 1 /\ T \in Nat
      BY <1>3
    <3> HIDE DEF l
    <3>2. l \in {4, 5} /\ R = l + T + 2
      BY <1>3 DEF l
    <3>3. n # l + 1 + j
      BY ONLY <1>4, <3>1, <3>2
    <3>4. n # R + 1 + j + j
      BY ONLY <1>4, <3>1, <3>2
    <3>5. n # R + 2 + j + j
      BY ONLY <1>4, <3>1, <3>2
    <3>6. QED
      BY <3>3, <3>4, <3>5 DEF l
  <2>2. QED
    BY <2>1 DEF ScheduleOp, T, R
<1>6. n # 1 /\ n # MainLen(s) /\ n # SyncAt(s) /\ n # JoinAt(s) /\ n # DestroyAt(s)
  <2> DEFINE l == Lead(s)
             M == MainLen(s)
             y == SyncAt(s)
             a == JoinAt(s)
             d == DestroyAt(s)
  <2> HIDE DEF l, M, y, a, d
  <2>1. /\ l \in {4, 5} /\ T \in Nat /\ T >= 1 /\ M \in Nat /\ y = l + T + 1 /\ R = l + T + 2
        /\ a = R + T + T + 1 /\ d = R + T + T + 3 /\ M > d
    BY <1>3 DEF l, M, y, a, d
  <2>2. n # 1 /\ n # M /\ n # y /\ n # a /\ n # d
    BY ONLY <1>4, <2>1
  <2>3. QED
    BY <2>2 DEF M, y, a, d
<1>7. CallOp(s, n, o)
  BY <1>2, <1>5, <1>6 DEF MainOp
<1>8. QED
  BY <1>7 DEF CallOp, s, n, o

\* When a rank leaves a barrier of main, the others have come to it: every rank has
\* made as many calls on the communicator as it.
LEMMA Arrival ==
  ASSUME StateInv, CallsInv, IsRun(setup), NEW r \in Place, NEW k \in Place, Done(<<r, Main>>),
         at[r] \in {ReadyAt(setup), EndedAt(setup)}
  PROVE  at[k] >= at[r]
<1> DEFINE p == <<r, Main>>
           n == at[r]
           m == MpiComm(setup)
           C == Cut(setup)
           W == Work0(setup)
           i == IndexOf(p)
<1>1. /\ p \in Proc /\ p[1] = r /\ p[2] = Main /\ todo[p] # <<>>
  BY Threads DEF StateInv, Done
<1>2. Now(p) = Bar(setup)
  BY <1>1, AtBarrier
<1>3. Now(p).op = "call" /\ Now(p).call = "barrier" /\ Now(p).comm = m
  BY <1>2 DEF Bar, Call
<1>4. busy[p] /\ AllArrived(p)
  BY <1>3 DEF Done, MayEnd
<1>5. Len(calls[k][m]) >= Len(calls[r][m])
  BY <1>1, <1>3, <1>4 DEF AllArrived, Arrived
<1>6. m \in Comm
  BY DEF MpiComm, Comm
<1>7. i \in BegunOn(r, m)
  <2>1. i \in CallsOn(setup, Now(p).comm) /\ (Begun(p[1], i) <=> busy[p])
    BY <1>1, <1>3, Caller
  <2>2. QED
    BY <1>1, <1>3, <1>4, <2>1 DEF BegunOn
<1>8. Begun(k, i)
  BY <1>5, <1>6, <1>7, Behind DEF BegunOn
<1>9. i = IF n <= C THEN n ELSE n + W
  BY <1>1 DEF IndexOf
<1>10. C \in Nat /\ W \in Nat /\ n \in Nat /\ at[k] \in Nat
  BY Places, Indexed
<1>11. MainBegun(k, n)
  <2>1. CASE n <= C
    BY <1>8, <1>9, <2>1 DEF Begun
  <2>2. CASE ~(n <= C)
    <3>1. i = n + W
      BY <1>9, <2>2
    <3> HIDE DEF C, W, n, i
    <3>2. ~(i <= C) /\ ~(i <= C + W) /\ i - W = n
      BY <1>10, <2>2, <3>1
    <3>3. QED
      BY <1>8, <3>2 DEF Begun, C, W
  <2>3. QED
    BY <2>1, <2>2
<1>12. n < at[k] \/ n = at[k]
  BY <1>11 DEF MainBegun
<1>13. QED
  BY <1>10, <1>12

LEMMA InitMeet == Init => MeetInv
<1> SUFFICES ASSUME Init, IsRun(setup), NEW r \in Place PROVE ~(at[r] > ReadyAt(setup)) /\ ~(at[r] > EndedAt(setup))
  BY DEF MeetInv
<1>1. StateInv /\ SetupOk(setup)
  BY InitState, Threads DEF StateInv
<1>2. todo[<<r, Main>>] = MainScript(setup)
  <2>1. <<r, Main>> \in Proc
    BY <1>1, Threads DEF StateInv
  <2>2. <<r, Main>>[2] = Main
    OBVIOUS
  <2>3. QED
    BY <2>1, <2>2 DEF Init, MainScript
<1>3. Len(MainScript(setup)) = MainLen(setup) /\ MainLen(setup) \in Nat
  BY <1>1, MainScriptIs, Landmarks
<1>4. at[r] = MainLen(setup) - Len(MainScript(setup)) + 1
  BY <1>1, <1>2, AtMain DEF StateInv
<1>5. at[r] = 1
  BY <1>3, <1>4
<1>6. ReadyAt(setup) \in Nat /\ EndedAt(setup) \in Nat /\ ReadyAt(setup) >= 1 /\ EndedAt(setup) >= 1
  <2>1. /\ Lead(setup) \in {4, 5} /\ setup.threads \in Nat
        /\ ReadyAt(setup) = Lead(setup) + setup.threads + 2
        /\ EndedAt(setup) = Lead(setup) + setup.threads + setup.threads + setup.threads + 4
    BY <1>1, Marks
  <2>2. QED
    BY <2>1
<1>7. QED
  BY <1>5, <1>6

\* No step takes a rank beyond a barrier that another has not come to.
LEMMA NextMeet ==
  ASSUME StateInv, CallsInv, MeetInv, [Next]_vars
  PROVE  MeetInv'
<1>1. setup' = setup /\ (Idles \/ \E p \in Proc : Began(p) \/ Done(p))
  BY Steps
<1> SUFFICES ASSUME IsRun(setup), NEW r \in Place, NEW k \in Place,
                    NEW n \in {ReadyAt(setup), EndedAt(setup)}, at'[r] > n
             PROVE  at'[k] >= n
  BY <1>1 DEF MeetInv
<1>2. SetupOk(setup) /\ \A x \in Place : at[x] \in Nat
  BY Places
<1>3. n \in Nat
  <2>1. /\ Lead(setup) \in {4, 5} /\ setup.threads \in Nat
        /\ ReadyAt(setup) = Lead(setup) + setup.threads + 2
        /\ EndedAt(setup) = Lead(setup) + setup.threads + setup.threads + setup.threads + 4
    BY <1>2, Marks
  <2>2. QED
    BY <2>1
<1>4. at[r] > n => at[k] >= n
  BY DEF MeetInv
<1>5. CASE at' = at
  BY <1>4, <1>5
<1>6. ASSUME NEW p \in Proc, Done(p), p[2] = Main PROVE at'[k] >= n
  <2>1. p[1] \in Place /\ p = <<p[1], Main>>
    BY <1>6, Threads DEF StateInv
  <2>2. at' = [at EXCEPT ![p[1]] = @ + 1] /\ at = [x \in Place |-> at[x]]
    BY <1>6 DEF Done, MainDone, at
  <2> DEFINE x == p[1]
  <2> HIDE DEF x
  <2>3. at'[k] >= at[k]
    <3>1. at'[k] = at[k] \/ at'[k] = at[k] + 1
      BY <2>2
    <3>2. QED
      BY <1>2, <3>1
  <2>4. at[k] >= n
    <3>1. CASE at[r] > n
      BY <1>4, <3>1
    <3>2. CASE ~(at[r] > n)
      <4>1. p[1] = r /\ at[r] + 1 > n
        BY <2>2, <3>2
      <4>2. at[r] = n
        BY <1>2, <1>3, <3>2, <4>1
      <4>3. Done(<<r, Main>>) /\ at[r] \in {ReadyAt(setup), EndedAt(setup)}
        BY <1>6, <2>1, <4>1, <4>2
      <4>4. at[k] >= at[r]
        BY <4>3, Arrival
      <4>5. QED
        BY <4>2, <4>4
    <3>3. QED
      BY <3>1, <3>2
  <2>5. at'[k] \in Nat
    <3>1. at'[k] = at[k] \/ at'[k] = at[k] + 1
      BY <2>2
    <3>2. QED
      BY <1>2, <3>1
  <2>6. QED
    BY <1>2, <1>3, <2>3, <2>4, <2>5
<1>7. QED
  BY <1>1, <1>5, <1>6 DEF Idles, NoMove, Began, Done, WorkerDone

-----------------------------------------------------------------------------
(***************************************************************************)
(* The inductive invariant, and what follows from it.                        *)
(***************************************************************************)
RunInv == StateInv /\ CallsInv /\ MeetInv

\* Wherever the threads of the ranks are: the state of each rank is what its
\* programs make of it, the collective calls are those of its programs in their
\* order, and no rank is beyond a barrier of main that another has not come to
\* (benchmark.cpp:47-253, runtime.cpp:44-120).
THEOREM Invariance == Spec => []RunInv
<1>1. Init => RunInv
  BY InitState, InitCalls, InitMeet DEF RunInv
<1>2. RunInv /\ [Next]_vars => RunInv'
  BY Steps, NextCalls, NextMeet DEF RunInv
<1>3. QED
  BY <1>1, <1>2, PTL DEF Spec

\* Only a call, a meeting or a halo step is ever in progress, and MPI, fields
\* and communicators are in one of their states.
THEOREM TypeCorrect == Spec => []TypeOK
<1>1. RunInv => TypeOK
  <2> SUFFICES ASSUME RunInv PROVE TypeOK
    OBVIOUS
  <2>1. Typed /\ BusyInv
    BY DEF RunInv, StateInv
  <2>2. \A r \in Place, c \in Comm : Len(calls[r][c]) \in Nat
    <3>1. \A r \in Place, c \in Comm : calls[r][c] \in Seq(CallNames)
      BY <2>1 DEF Typed
    <3>2. QED
      BY <3>1
  <2>3. QED
    BY <2>1, <2>2 DEF TypeOK, Typed, BusyInv, Long
<1>2. QED
  BY <1>1, Invariance, PTL

\* No field or buffer of any thread is missing while a thread of any rank is in a
\* halo step: sync and the barrier before it, join and the barrier after it
\* (benchmark.cpp:227-251).
THEOREM FieldsAlive == Spec => []FieldsAliveInSteps
<1>1. ASSUME RunInv, NEW p \in WorkerProc, busy[p], Now(p).op = "step", NEW q \in WorkerProc
      PROVE  fields[q] = "ready"
  <2> DEFINE s == setup
             m == at[p[1]]
             n == at[q[1]]
             w == workAt[q]
  <2>1. StateInv /\ SetupOk(s) /\ p \in Proc /\ p[1] \in Place /\ q[1] \in Place /\ q[2] \in 0..(s.threads - 1)
    BY <1>1, Threads DEF RunInv, StateInv
  <2>2. todo[p] # <<>>
    BY <1>1, <2>1 DEF StateInv, BusyInv
  <2>3. IsRun(s) /\ m > ReadyAt(s) /\ m <= JoinAt(s) /\ m \in Nat
    BY <1>1, <2>1, <2>2, WorkerRuns
  <2>4. (m > ReadyAt(s) => n >= ReadyAt(s)) /\ (n > EndedAt(s) => m >= EndedAt(s))
    BY <1>1, <2>1, <2>3 DEF RunInv, MeetInv
  <2>5. WorkOk(s, q[2], n, w) /\ fields[q] = FieldIs(s, n, w)
    BY <2>1 DEF StateInv, WorkInv, FieldsInv
  <2>6. n \in Nat
    BY <2>1, Places
  <2>7. /\ SyncAt(s) \in Nat /\ ReadyAt(s) = SyncAt(s) + 1 /\ JoinAt(s) \in Nat
        /\ EndedAt(s) = JoinAt(s) + 1 /\ DestroyAt(s) = JoinAt(s) + 2
    BY <2>1, Landmarks
  <2> HIDE DEF s, m, n, w
  <2>8. n > SyncAt(s) /\ ~(n > DestroyAt(s))
    BY ONLY <2>3, <2>4, <2>6, <2>7
  <2>9. w >= 2
    BY <2>3, <2>5, <2>8 DEF WorkOk
  <2>10. QED
    BY <2>5, <2>8, <2>9 DEF FieldIs
<1>2. RunInv => FieldsAliveInSteps
  BY <1>1 DEF FieldsAliveInSteps
<1>3. QED
  BY <1>2, Invariance, PTL

\* No two calls of a communicator have the same number.
LEMMA CallNumbers ==
  ASSUME NEW s, SetupOk(s), NEW c, NEW u \in CallsOn(s, c), NEW v \in CallsOn(s, c),
         Cardinality(CallsTo(s, c, u)) = Cardinality(CallsTo(s, c, v))
  PROVE  u = v
<1>1. u \in Nat /\ v \in Nat
  BY WhereCalled
<1>2. ASSUME NEW x \in CallsOn(s, c), NEW y \in CallsOn(s, c), x \in Nat, y \in Nat, x < y,
             Cardinality(CallsTo(s, c, x)) = Cardinality(CallsTo(s, c, y))
      PROVE  FALSE
  <2>1. CallsTo(s, c, y) \subseteq CallsOn(s, c)
    BY DEF CallsTo
  <2>2. IsFiniteSet(CallsTo(s, c, y)) /\ CallsTo(s, c, y) \subseteq Nat
    BY <2>1, FiniteCalls
  <2>3. \A k \in CallsOn(s, c) : k \in Nat
    BY WhereCalled
  <2>4. ASSUME NEW k \in CallsTo(s, c, x) PROVE k \in CallsTo(s, c, y)
    <3>1. k \in CallsOn(s, c) /\ k <= x
      BY DEF CallsTo
    <3>2. k <= y
      BY <1>2, <2>3, <3>1
    <3>3. QED
      BY <3>1, <3>2 DEF CallsTo
  <2>5. CallsTo(s, c, x) \in SUBSET CallsTo(s, c, y)
    BY <2>4
  <2>6. CallsTo(s, c, x) = CallsTo(s, c, y)
    BY <1>2, <2>2, <2>5, FS_Subset
  <2>7. y <= y /\ ~(y <= x)
    BY <1>2
  <2>8. y \in CallsTo(s, c, y) /\ y \notin CallsTo(s, c, x)
    BY <2>7 DEF CallsTo
  <2>9. QED
    BY <2>6, <2>8
<1>3. ~(u < v) /\ ~(v < u)
  BY <1>1, <1>2
<1>4. QED
  BY <1>1, <1>3

\* A sequence that agrees with a longer one as far as it goes is a prefix of it.
LEMMA PrefixOf ==
  ASSUME NEW S, NEW a \in Seq(S), NEW b \in Seq(S), Len(a) <= Len(b),
         \A i \in 1..Len(a) : a[i] = b[i]
  PROVE  IsPrefix(a, b)
<1>1. Len(a) \in Nat /\ Len(b) \in Nat
  OBVIOUS
<1>2. /\ SubSeq(a, 1, Len(a)) = [i \in 1..Len(a) |-> a[i]]
      /\ SubSeq(b, 1, Len(a)) = [i \in 1..Len(a) |-> b[i]]
  BY <1>1
<1>3. SubSeq(a, 1, Len(a)) = SubSeq(b, 1, Len(a))
  BY <1>2
<1>4. QED
  BY <1>3 DEF IsPrefix

\* Main is in MPI only in a call.
LEMMA InMpiKinds ==
  ASSUME StateInv, NEW x \in Proc, InMpi(x)
  PROVE  /\ todo[x] # <<>> /\ x[1] \in Place
         /\ x \in WorkerProc \/ (x = <<x[1], Main>> /\ InCall(x))
<1>1. todo[x] # <<>> /\ busy[x] /\ x[1] \in Place
  BY Threads DEF InMpi, StateInv, BusyInv
<1>2. ASSUME x \notin WorkerProc PROVE x = <<x[1], Main>> /\ Now(x).op = "call"
  <2>1. x = <<x[1], Main>>
    BY <1>2, Threads DEF StateInv
  <2>2. /\ at[x[1]] \in 1..(MainLen(setup) + 1) /\ MainLen(setup) \in Nat
        /\ at[x[1]] <= MainLen(setup) /\ MainOp(setup, at[x[1]], Now(x))
    <3>1. /\ at[x[1]] \in 1..(MainLen(setup) + 1) /\ MainLen(setup) \in Nat
          /\ todo[<<x[1], Main>>] # <<>> => /\ at[x[1]] <= MainLen(setup)
                                            /\ MainOp(setup, at[x[1]], Now(<<x[1], Main>>))
      BY <1>1, AtMain DEF StateInv
    <3>2. QED
      BY <1>1, <2>1, <3>1
  <2>3. SetupOk(setup) /\ at[x[1]] \in 1..MainLen(setup)
    BY <2>2, Threads DEF StateInv
  <2>4. Now(x).op # "step"
    BY <2>2, <2>3, MainKinds
  <2>5. QED
    BY <2>1, <2>4 DEF InMpi
<1>3. QED
  BY <1>1, <1>2 DEF InCall

\* While main is in a call no worker of its rank is in anything, and only
\* worker 0 makes calls: there is one call of a rank at a time.
LEMMA OneCall ==
  ASSUME StateInv, NEW p \in Proc, NEW q \in Proc, p # q, p[1] = q[1], InCall(p), InMpi(q)
  PROVE  /\ p = <<p[1], 0>> /\ q \in WorkerProc /\ ~InCall(q)
<1>1. ASSUME NEW x \in Proc, NEW y \in WorkerProc, InMpi(x), InMpi(y), x \notin WorkerProc, x[1] = y[1]
      PROVE  FALSE
  <2>1. x = <<x[1], Main>> /\ todo[x] # <<>> /\ Now(x).op = "call" /\ x[1] \in Place
    BY <1>1, InMpiKinds DEF InCall
  <2>2. todo[<<x[1], Main>>] # <<>> /\ Now(<<x[1], Main>>).op = "call"
    BY <2>1
  <2>3. todo[y] = <<>>
    BY <1>1, <2>1, <2>2, Idle
  <2>4. y \in Proc
    BY Threads DEF StateInv
  <2>5. QED
    BY <1>1, <2>3, <2>4, InMpiKinds
<1>2. InMpi(p)
  BY DEF InCall, InMpi
<1>3. p \in WorkerProc
  <2> SUFFICES ASSUME p \notin WorkerProc PROVE FALSE
    OBVIOUS
  <2>1. q \in WorkerProc
    BY <1>2, InMpiKinds
  <2>2. QED
    BY <1>1, <1>2, <2>1
<1>4. q \in WorkerProc
  BY <1>1, <1>2, <1>3
<1>5. ASSUME NEW x \in WorkerProc, x \in Proc, InCall(x) PROVE x = <<x[1], 0>>
  <2>1. todo[x] # <<>> /\ Now(x).op = "call"
    BY <1>5 DEF InCall, StateInv, BusyInv
  <2>2. x = <<x[1], Main>> \/ x = <<x[1], 0>>
    BY <1>5, <2>1, Caller
  <2>3. x[1] \in Place /\ <<x[1], Main>> \notin WorkerProc
    BY <1>5, Threads DEF StateInv
  <2>4. QED
    BY <2>2, <2>3
<1>6. p = <<p[1], 0>>
  BY <1>3, <1>5
<1>7. ~InCall(q)
  BY <1>4, <1>5, <1>6
<1>8. QED
  BY <1>4, <1>6, <1>7

\* All ranks make the same collective calls on a communicator in the same order,
\* although some are made by main and others by worker 0, and never two at a time
\* (benchmark.cpp:97-253, runtime.cpp:78-120).
THEOREM CallsMatch == Spec => []CollectivesMatch
<1>1. ASSUME RunInv, NEW r \in Place, NEW s \in Place, NEW c \in Comm,
             Len(calls[r][c]) <= Len(calls[s][c])
      PROVE  IsPrefix(calls[r][c], calls[s][c])
  <2>1. /\ SetupOk(setup) /\ CallsInv
        /\ calls[r][c] \in Seq(CallNames) /\ calls[s][c] \in Seq(CallNames)
    BY <1>1, Threads DEF RunInv, StateInv, Typed
  <2>2. ASSUME NEW i \in 1..Len(calls[r][c]) PROVE calls[r][c][i] = calls[s][c][i]
    <3>1. i \in 1..Len(calls[s][c])
      <4>1. Len(calls[r][c]) \in Nat /\ Len(calls[s][c]) \in Nat
        BY <2>1
      <4>2. QED
        BY <1>1, <4>1
    <3>2. PICK u \in BegunOn(r, c) : IsCall(r, c, i, u)
      BY <2>1 DEF CallsInv
    <3>3. PICK v \in BegunOn(s, c) : IsCall(s, c, i, v)
      BY <2>1, <3>1 DEF CallsInv
    <3>4. u \in CallsOn(setup, c) /\ v \in CallsOn(setup, c)
      BY DEF BegunOn
    <3>5. Cardinality(CallsTo(setup, c, u)) = Cardinality(CallsTo(setup, c, v))
      BY <3>2, <3>3 DEF IsCall
    <3>6. u = v
      BY <2>1, <3>4, <3>5, CallNumbers
    <3>7. QED
      BY <3>2, <3>3, <3>6 DEF IsCall
  <2>3. QED
    BY <1>1, <2>1, <2>2, PrefixOf
<1>2. ASSUME RunInv, NEW r \in Place, NEW s \in Place, NEW c \in Comm
      PROVE  IsPrefix(calls[r][c], calls[s][c]) \/ IsPrefix(calls[s][c], calls[r][c])
  <2>1. Len(calls[r][c]) \in Nat /\ Len(calls[s][c]) \in Nat
    <3>1. calls[r][c] \in Seq(CallNames) /\ calls[s][c] \in Seq(CallNames)
      BY <1>2 DEF RunInv, StateInv, Typed
    <3>2. QED
      BY <3>1
  <2>2. Len(calls[r][c]) <= Len(calls[s][c]) \/ Len(calls[s][c]) <= Len(calls[r][c])
    BY <2>1
  <2>3. QED
    BY <1>1, <1>2, <2>2
<1>3. ASSUME RunInv, NEW p \in Proc, NEW q \in Proc, p # q, p[1] = q[1], InCall(p), InCall(q)
      PROVE  FALSE
  <2>1. StateInv /\ InMpi(q)
    BY <1>3 DEF RunInv, InCall, InMpi
  <2>2. QED
    BY <1>3, <2>1, OneCall
<1>4. RunInv => CollectivesMatch
  BY <1>2, <1>3 DEF CollectivesMatch
<1>5. QED
  BY <1>4, Invariance, PTL

\* MPI is used only between its init and finalize, on communicators that the rank
\* holds, and by several threads at once only if main has asked for it
\* (benchmark.cpp:50-62, 205-253).
THEOREM CallsLegal == Spec => []MpiCallsLegal
<1>1. ASSUME StateInv, NEW p \in Proc, InMpi(p)
      PROVE  /\ mpi[p[1]] = Required(setup)
             /\ (IF Now(p).op = "call" THEN Now(p).comm ELSE MpiComm(setup)) \in comms[p[1]]
  <2> DEFINE r == p[1]
             s == setup
             o == Now(p)
             n == at[r]
             m == IF o.op = "call" THEN o.comm ELSE MpiComm(s)
  <2>1. /\ SetupOk(s) /\ r \in Place /\ todo[p] # <<>> /\ o.op \in {"call", "step"}
    BY <1>1, Threads DEF StateInv, InMpi, BusyInv
  <2>2. mpi[r] = MpiIs(s, n) /\ comms[r] = Holds(s, n)
    BY <1>1, <2>1 DEF StateInv, MpiInv, CommsInv
  <2>3. n \in Nat /\ MainLen(s) \in Nat
    <3>1. n \in 1..(MainLen(s) + 1) /\ MainLen(s) \in Nat
      BY <1>1, <2>1, AtMain DEF StateInv
    <3>2. QED
      BY <3>1
  <2>4. n > 1 /\ n <= MainLen(s) /\ m \in Holds(s, n)
    <3>1. CASE p \in WorkerProc
      <4>1. /\ IsRun(s) /\ n > Lead(s) + 1 /\ n <= JoinAt(s) /\ n <= MainLen(s)
        BY <1>1, <2>1, <3>1, WorkerRuns
      <4>2. m = MpiComm(s)
        <5>1. workAt[p] \in 1..LW(s, p[2]) /\ WorkerOp(s, p[2], workAt[p], o) /\ p[2] \in 0..(s.threads - 1)
          BY <1>1, <2>1, <3>1, AtWorker, Threads DEF StateInv
        <5> HIDE DEF o, s
        <5>2. o.op = "call" => o.comm = MpiComm(s)
          BY <2>1, <5>1, WorkerKinds
        <5>3. QED
          BY <5>2 DEF s
      <4>3. /\ Lead(s) \in {4, 5} /\ CartAt(s) \in {2, 3} /\ JoinAt(s) \in Nat /\ DestroyAt(s) = JoinAt(s) + 2
        BY <2>1, Landmarks DEF CartAt
      <4>4. Builds(s)
        BY <4>1 DEF IsRun, Builds
      <4> HIDE DEF n, s, m
      <4>5. n > CartAt(s) /\ n <= DestroyAt(s) /\ n > 1
        BY ONLY <2>3, <4>1, <4>3
      <4>6. MpiComm(s) \in Holds(s, n)
        BY <2>1, <2>3, <4>1, <4>4, <4>5, CommHeld
      <4>7. QED
        BY <4>1, <4>2, <4>5, <4>6
    <3>2. CASE p \notin WorkerProc
      <4>1. p = <<r, Main>>
        BY <1>1, <3>2, Threads DEF StateInv
      <4>2. n <= MainLen(s) /\ MainOp(s, n, o) /\ n \in 1..(MainLen(s) + 1)
        BY <1>1, <2>1, <4>1, AtMain DEF StateInv
      <4>3. n \in 1..MainLen(s)
        BY <2>3, <4>2
      <4> HIDE DEF n, s, o
      <4>4. o.op = "call" /\ CallOp(s, n, o)
        BY <2>1, <4>2, <4>3, MainKinds
      <4>5. QED
        BY <4>2, <4>4 DEF CallOp
    <3>3. QED
      BY <3>1, <3>2
  <2>5. MpiIs(s, n) = Required(s)
    <3>1. n # 1 /\ ~(n > MainLen(s))
      BY <2>3, <2>4
    <3>2. QED
      BY <3>1 DEF MpiIs
  <2>6. QED
    BY <2>2, <2>4, <2>5
<1>2. ASSUME StateInv, NEW p \in Proc, NEW q \in Proc, q # p, q[1] = p[1], InMpi(p), InMpi(q)
      PROVE  Required(setup) # "single"
  <2>1. p \in WorkerProc /\ q \in WorkerProc
    <3>1. ASSUME NEW x \in Proc, NEW y \in Proc, x # y, x[1] = y[1], InMpi(x), InMpi(y), x \notin WorkerProc
          PROVE  FALSE
      <4>1. x = <<x[1], Main>> /\ InCall(x)
        BY <1>2, <3>1, InMpiKinds
      <4>2. x = <<x[1], 0>>
        BY <1>2, <3>1, <4>1, OneCall
      <4>3. Main # 0
        BY DEF Main
      <4>4. QED
        BY <4>1, <4>2, <4>3
    <3>2. QED
      BY <1>2, <3>1
  <2>2. p = <<p[1], p[2]>> /\ q = <<q[1], q[2]>> /\ p[2] \in 0..(setup.threads - 1)
        /\ q[2] \in 0..(setup.threads - 1) /\ setup.threads \in Nat
    BY <1>2, <2>1, Threads, Marks DEF StateInv
  <2>3. p[2] # q[2]
    BY <1>2, <2>2
  <2>4. setup.threads > 1
    BY <2>2, <2>3
  <2>5. QED
    BY <2>4 DEF Required
<1>3. RunInv => MpiCallsLegal
  <2> SUFFICES ASSUME RunInv, NEW p \in Proc, InMpi(p)
               PROVE  /\ mpi[p[1]] # "off"
                      /\ (IF Now(p).op = "call" THEN Now(p).comm ELSE MpiComm(setup)) \in comms[p[1]]
                      /\ mpi[p[1]] = "single" => \A q \in Proc : q # p /\ q[1] = p[1] => ~InMpi(q)
    BY DEF MpiCallsLegal
  <2>1. StateInv
    BY DEF RunInv
  <2>2. mpi[p[1]] = Required(setup)
    BY <1>1, <2>1
  <2>3. Required(setup) # "off"
    BY DEF Required
  <2>4. QED
    BY <1>1, <1>2, <2>1, <2>2, <2>3
<1>4. QED
  BY <1>3, Invariance, PTL
=============================================================================
