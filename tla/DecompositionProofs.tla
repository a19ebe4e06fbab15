------------------------ MODULE DecompositionProofs ------------------------
(***************************************************************************)
(* Proofs about DecompositionWalk for every set of decompositions.            *)
(***************************************************************************)
EXTENDS DecompositionWalk, GridProofs, FiniteSetTheorems, FunctionTheorems,
        SequenceTheorems

\* All decompositions are grids.
LEMMA Grids == \A E \in Decompositions : IsGrid(E)
BY DecompositionsAssumption DEF IsGrid

-----------------------------------------------------------------------------
(***************************************************************************)
(* The inductive invariant: wherever the walk is, it knows that block as its   *)
(* owner does.                                                              *)
(***************************************************************************)
IInv == D \in Decompositions /\ \E c \in GlobalCoord(D) : here = BlockAt(D, c)

\* Thread 0 of the first rank has the first block.
LEMMA InitInv == Init => IInv
<1> SUFFICES ASSUME Init PROVE IInv
  OBVIOUS
<1> DEFINE o == <<0, 0, 0>>
<1>1. \A d \in Dim : /\ D.threads[d] \in Nat \ {0} /\ D.grid[d] \in Nat \ {0}
                     /\ Blocks(D, d) \in Nat \ {0}
  BY Grids, Sizes DEF Init
<1>2. 1 \in Dim /\ 2 \in Dim /\ 3 \in Dim
  BY DEF Dim
<1>3. \A d \in Dim : /\ 0 % D.threads[d] = 0 /\ 0 \div D.threads[d] = 0
                     /\ 0 * D.threads[d] = 0 /\ D.threads[d] * 0 = 0
  <2>1. ASSUME NEW n \in Nat \ {0}
        PROVE  0 % n = 0 /\ 0 \div n = 0 /\ 0 * n = 0 /\ n * 0 = 0
    <3>1. 0 \in 0..(n - 1) /\ n * 0 = 0 /\ 0 * n = 0 /\ 0 + n * 0 = 0
      OBVIOUS
    <3>2. (0 + n * 0) \div n = 0 /\ (0 + n * 0) % n = 0
      BY <3>1, DivModOf
    <3>3. QED
      BY <3>1, <3>2
  <2>2. QED
    BY <1>1, <2>1
<1>4. Coord(D, o, 0) = o
  BY <1>1, <1>2, <1>3 DEF Coord
<1>5. RankOf(D, o) = o
  BY <1>2, <1>3 DEF RankOf, Triple
<1>6. ThreadOf(D, o) = 0
  BY <1>1, <1>2, <1>3 DEF ThreadOf
<1>7. o \in GlobalCoord(D)
  BY <1>1, <1>2 DEF GlobalCoord
<1>8. here = BlockAt(D, o)
  BY <1>4, <1>5, <1>6 DEF Init, Domain, BlockAt
<1>9. QED
  BY <1>7, <1>8 DEF Init, IInv

\* A step leads to the block that it shifts to.
LEMMA NextInv == IInv /\ [Next]_vars => IInv'
<1> SUFFICES ASSUME IInv, [Next]_vars PROVE IInv'
  OBVIOUS
<1>1. PICK c \in GlobalCoord(D) : here = BlockAt(D, c)
  BY DEF IInv
<1>2. CASE UNCHANGED vars
  BY <1>2 DEF vars, IInv
<1>3. ASSUME NEW d \in Dim, NEW way \in {-1, 1}, Move(d, way) PROVE IInv'
  <2>1. D' = D /\ D \in Decompositions
    BY <1>3 DEF Move, IInv
  <2>2. here' = BlockAt(D, Shift(D, c, d, way))
    BY <1>1, <1>3, <2>1, Grids, AskedByOwner DEF Move
  <2>3. Shift(D, c, d, way) \in GlobalCoord(D)
    BY <2>1, Grids, StepAndBack
  <2>4. QED
    BY <2>1, <2>2, <2>3 DEF IInv
<1>4. QED
  BY <1>2, <1>3 DEF Next

(***************************************************************************)
(* No walk from neighbour to neighbour leaves the blocks and their owners.     *)
(***************************************************************************)
THEOREM Invariance == Spec => []IInv
<1>1. QED
  BY InitInv, NextInv, PTL DEF Spec

(***************************************************************************)
(* Every block that neighbor leads to is one of the grid, with a rank and a    *)
(* thread that exist.                                                       *)
(***************************************************************************)
THEOREM TypeCorrect == Spec => []TypeOK
<1>1. IInv => TypeOK
  <2> SUFFICES ASSUME IInv PROVE TypeOK
    OBVIOUS
  <2>1. PICK c \in GlobalCoord(D) : here = BlockAt(D, c)
    BY DEF IInv
  <2>2. 1 \in Dim /\ 1 \in {-1, 1} /\ D \in Decompositions
    BY DEF Dim, IInv
  <2>3. here.rank \in Rank(D) /\ here.thread \in Tid(D) /\ here.coord = c
    BY <2>1, <2>2, Grids, AskedByOwner
  <2>4. QED
    BY <2>2, <2>3 DEF TypeOK
<1>2. QED
  BY <1>1, Invariance, PTL

-----------------------------------------------------------------------------
\* What two neighbours know of each other.
LEMMA Mutual ==
  ASSUME IInv, NEW d \in Dim, NEW way \in {-1, 1}, NEW there, there = To(d, way)
  PROVE  /\ there = Domain(D, there.rank, there.thread)
         /\ here = Neighbor(D, there.rank, there.thread, d, -way)
         /\ here = Domain(D, here.rank, here.thread)
<1>1. PICK c \in GlobalCoord(D) : here = BlockAt(D, c)
  BY DEF IInv
<1>2. D \in Decompositions /\ -way \in {-1, 1}
  BY DEF IInv
<1> DEFINE s == Shift(D, c, d, way)
<1>3. s \in GlobalCoord(D) /\ Shift(D, s, d, -way) = c
  BY <1>2, Grids, StepAndBack
<1>4. there = BlockAt(D, s) /\ here = Domain(D, here.rank, here.thread)
  BY <1>1, <1>2, Grids, AskedByOwner DEF To
<1> HIDE DEF s
<1>5. /\ Domain(D, there.rank, there.thread) = there
      /\ Neighbor(D, there.rank, there.thread, d, -way) = BlockAt(D, Shift(D, s, d, -way))
  BY <1>2, <1>3, <1>4, Grids, AskedByOwner
<1>6. QED
  BY <1>1, <1>3, <1>4, <1>5

(***************************************************************************)
(* The block one step away is the one its own rank and thread know as their   *)
(* domain, and we are its neighbour on the other side (decomposition::domain  *)
(* and neighbor).                                                           *)
(***************************************************************************)
THEOREM NeighborsMutual == Spec => []NeighborsKnowEachOther
<1>1. IInv => NeighborsKnowEachOther
  BY Mutual DEF NeighborsKnowEachOther
<1>2. QED
  BY <1>1, Invariance, PTL

(***************************************************************************)
(* Sender and receiver compute the same tag, each from what it knows         *)
(* (neighborhood::sendtag and recvtag).                                     *)
(***************************************************************************)
THEOREM TagsMatch == Spec => []TagsAgree
<1>1. ASSUME IInv, NEW dim \in Dim, NEW left \in BOOLEAN, NEW field
      PROVE  LET nb == Neighborhood(D, here.rank, here.thread)
                 there == Target(nb, dim, left)
             IN  sendtag(nb, field, dim, left)
                   = recvtag(Neighborhood(D, there.rank, there.thread), field, dim, left)
  <2> DEFINE nb == Neighborhood(D, here.rank, here.thread)
             way == IF left THEN -1 ELSE 1
             there == To(dim, way)
             far == Neighborhood(D, there.rank, there.thread)
  <2>1. way \in {-1, 1} /\ -way = (IF left THEN 1 ELSE -1)
    OBVIOUS
  <2>2. Target(nb, dim, left) = there
    BY DEF Target, Neighborhood, Triple, Dim, To
  <2>3. Source(far, dim, left) = Neighbor(D, there.rank, there.thread, dim, -way)
    BY <2>1 DEF Source, Neighborhood, Triple, Dim
  <2>4. Source(far, dim, left) = here /\ nb.d = here
    BY <1>1, <2>1, <2>3, Mutual DEF Neighborhood
  <2>5. far.num_fields = nb.num_fields
    BY DEF Neighborhood
  <2>6. QED
    BY <2>2, <2>4, <2>5 DEF sendtag, recvtag, Tag
<1>2. IInv => TagsAgree
  BY <1>1 DEF TagsAgree
<1>3. QED
  BY <1>2, Invariance, PTL

-----------------------------------------------------------------------------
(***************************************************************************)
(* The ids of the blocks.                                                   *)
(***************************************************************************)
\* Every number of two digits has them, and every number of three.
TwoDigitsOf(i, n, a, q, m) == q \in 0..(n - 1) /\ m \in 0..(a - 1) /\ m + a * q = i

ThreeDigitsOf(i, a, b, c, x, y, z) ==
    /\ x \in 0..(a - 1) /\ y \in 0..(b - 1) /\ z \in 0..(c - 1)
    /\ x + a * (y + b * z) = i

LEMMA InTwoDigits ==
  ASSUME NEW n \in Nat \ {0}, NEW a \in Nat \ {0}, NEW i \in 0..(n * a - 1)
  PROVE  \E q, m : TwoDigitsOf(i, n, a, q, m)
<1>1. i \div a \in 0..(n - 1)
  BY Digits, Zenon
<1>2. i - (i \div a) * a \in 0..(a - 1)
  BY Digits, Zenon
<1>3. PICK q, m : q = i \div a /\ m = i - q * a
  OBVIOUS
<1>4. q \in 0..(n - 1) /\ m \in 0..(a - 1)
  BY <1>1, <1>2, <1>3
<1>5. m + a * q = i
  <2>1. i \in Int
    BY Positive
  <2>2. QED
    BY <1>3, <1>4, <2>1
<1>6. QED
  BY <1>4, <1>5, Zenon DEF TwoDigitsOf

LEMMA InThreeDigits ==
  ASSUME NEW a \in Nat \ {0}, NEW b \in Nat \ {0}, NEW c \in Nat \ {0},
         NEW i \in 0..((c * b) * a - 1)
  PROVE  \E x, y, z : ThreeDigitsOf(i, a, b, c, x, y, z)
<1>1. c * b \in Nat \ {0}
  BY Positive
<1>2. PICK k, x : TwoDigitsOf(i, c * b, a, k, x)
  BY <1>1, InTwoDigits, Zenon
<1>3. k \in 0..(c * b - 1)
  BY <1>2, Zenon DEF TwoDigitsOf
<1>4. PICK z, y : TwoDigitsOf(k, c, b, z, y)
  BY <1>3, InTwoDigits, Zenon
<1>5. ThreeDigitsOf(i, a, b, c, x, y, z)
  BY <1>2, <1>4 DEF TwoDigitsOf, ThreeDigitsOf
<1>6. QED
  BY <1>5, Zenon

\* Every number below that of the blocks is the id of one.
LEMMA IdsReached ==
  ASSUME NEW E, IsGrid(E),
         NEW i \in 0..((Blocks(E, 3) * Blocks(E, 2)) * Blocks(E, 1) - 1)
  PROVE  \E c \in GlobalCoord(E) : DomainId(E, c) = i
<1>1. Blocks(E, 1) \in Nat \ {0} /\ Blocks(E, 2) \in Nat \ {0} /\ Blocks(E, 3) \in Nat \ {0}
  BY Sizes DEF Dim
<1>2. PICK x, y, z : ThreeDigitsOf(i, Blocks(E, 1), Blocks(E, 2), Blocks(E, 3), x, y, z)
  BY <1>1, InThreeDigits, Zenon
<1>3. <<x, y, z>> \in GlobalCoord(E) /\ DomainId(E, <<x, y, z>>) = i
  BY <1>2 DEF GlobalCoord, DomainId, ThreeDigitsOf
<1>4. QED
  BY <1>3

\* So there are as many ranks as the sides of their grid multiply to.
LEMMA RankCount ==
  ASSUME NEW E, IsGrid(E)
  PROVE  Cardinality(Rank(E)) = (E.grid[3] * E.grid[2]) * E.grid[1]
<1> DEFINE F == [grid |-> E.grid, threads |-> <<1, 1, 1>>]
           n == (E.grid[3] * E.grid[2]) * E.grid[1]
           f == [r \in Rank(E) |-> DomainId(F, r)]
<1>1. IsGrid(F)
  BY DEF IsGrid, Dim
<1>2. \A d \in Dim : E.grid[d] \in Nat \ {0} /\ Blocks(F, d) = E.grid[d]
  BY DEF Blocks, IsGrid, Dim
<1>3. 1 \in Dim /\ 2 \in Dim /\ 3 \in Dim
  BY DEF Dim
<1>4. GlobalCoord(F) = Rank(E)
  BY <1>2, <1>3 DEF GlobalCoord, Rank
<1>5. (Blocks(F, 3) * Blocks(F, 2)) * Blocks(F, 1) = n
  BY <1>2, <1>3
<1> HIDE DEF F, n
<1>6. \A r \in Rank(E) : /\ f[r] \in 0..(n - 1)
                         /\ \A s \in Rank(E) : f[r] = f[s] => r = s
  BY <1>1, <1>4, <1>5, IdsDiffer
<1>7. \A i \in 0..(n - 1) : \E r \in Rank(E) : f[r] = i
  BY <1>1, <1>4, <1>5, IdsReached
<1>8. f \in Bijection(Rank(E), 0..(n - 1))
  BY <1>6, <1>7, Fun_IsBij
<1>9. n \in Nat \ {0}
  <2>1. E.grid[3] * E.grid[2] \in Nat \ {0}
    BY <1>2, <1>3, Positive
  <2>2. QED
    BY <1>2, <1>3, <2>1, Positive DEF n
<1>10. IsFiniteSet(0..(n - 1)) /\ Cardinality(0..(n - 1)) = n
  <2>1. 0 \in Int /\ n - 1 \in Int
    BY <1>9
  <2>2. QED
    BY <1>9, <2>1, FS_Interval
<1>11. ExistsBijection(0..(n - 1), Rank(E))
  BY <1>8, Fun_ExistsBijSymmetric DEF ExistsBijection
<1>12. QED
  BY <1>10, <1>11, FS_Bijection DEF n

\* The ids of the blocks are the numbers below theirs.
LEMMA Ids ==
  ASSUME NEW E, IsGrid(E), NEW n, n = Cardinality(Rank(E)) * ThreadsPerRank(E)
  PROVE  /\ {Domain(E, r, t).id : r \in Rank(E), t \in Tid(E)} = 0..(n - 1)
         /\ Cardinality(0..(n - 1)) = n
<1> DEFINE G(d) == E.grid[d]
           T(d) == E.threads[d]
           N == (Blocks(E, 3) * Blocks(E, 2)) * Blocks(E, 1)
<1>1. /\ G(1) \in Nat \ {0} /\ G(2) \in Nat \ {0} /\ G(3) \in Nat \ {0}
      /\ T(1) \in Nat \ {0} /\ T(2) \in Nat \ {0} /\ T(3) \in Nat \ {0}
  BY DEF IsGrid, Dim
<1>2. n = N
  <2>1. Cardinality(Rank(E)) = (G(3) * G(2)) * G(1)
    BY RankCount
  <2>2. n = ((G(3) * G(2)) * G(1)) * (T(1) * T(2) * T(3))
    BY <2>1 DEF ThreadsPerRank
  <2>3. N = ((G(3) * T(3)) * (G(2) * T(2))) * (G(1) * T(1))
    BY DEF Blocks
  <2> HIDE DEF G, T, N
  <2>4. QED
    BY <1>1, <2>2, <2>3
<1>3. ASSUME NEW r \in Rank(E), NEW t \in Tid(E)
      PROVE  Domain(E, r, t).id \in 0..(N - 1)
  BY <1>3, BlockOfOwner, IdsDiffer DEF Domain, DomainAt
<1>4. ASSUME NEW i \in 0..(N - 1)
      PROVE  \E r \in Rank(E), t \in Tid(E) : Domain(E, r, t).id = i
  <2>1. PICK c \in GlobalCoord(E) : DomainId(E, c) = i
    BY <1>4, IdsReached
  <2>2. /\ RankOf(E, c) \in Rank(E) /\ ThreadOf(E, c) \in Tid(E)
        /\ Coord(E, RankOf(E, c), ThreadOf(E, c)) = c
    BY BlockOwner
  <2>3. Domain(E, RankOf(E, c), ThreadOf(E, c)).id = i
    BY <2>1, <2>2 DEF Domain, DomainAt
  <2>4. QED
    BY <2>2, <2>3
<1>5. {Domain(E, r, t).id : r \in Rank(E), t \in Tid(E)} = 0..(N - 1)
  <2> HIDE DEF N
  <2>1. QED
    BY <1>3, <1>4
<1>6. N \in Nat
  <2>1. PICK a, b, c : /\ a = Blocks(E, 1) /\ a \in Nat /\ b = Blocks(E, 2) /\ b \in Nat
                       /\ c = Blocks(E, 3) /\ c \in Nat
    BY Sizes DEF Dim
  <2>2. c * b \in Nat
    BY <2>1
  <2>3. (c * b) * a \in Nat
    BY <2>1, <2>2
  <2>4. QED
    BY <2>1, <2>3
<1> HIDE DEF N
<1>7. Cardinality(0..(N - 1)) = N
  <2>1. 0 \in Int /\ N - 1 \in Int
    BY <1>6
  <2>2. QED
    BY <1>6, <2>1, FS_Interval
<1>8. QED
  BY <1>2, <1>5, <1>7

-----------------------------------------------------------------------------
(***************************************************************************)
(* The blocks are numbered from 0 without a gap and without a clash, and in *)
(* every dimension they tile the global domain, whatever its size (init_domain *)
(* and domain, decomposition.cpp:160-260).                                  *)
(***************************************************************************)
THEOREM TilesExactly == Spec => []BlocksTile
<1>1. IInv => IdsAreExact
  <2> SUFFICES ASSUME IInv PROVE IdsAreExact
    OBVIOUS
  <2> DEFINE n == Cardinality(Rank(D)) * ThreadsPerRank(D)
             ids == {Domain(D, r, t).id : r \in Rank(D), t \in Tid(D)}
  <2>1. D \in Decompositions /\ IsGrid(D)
    BY Grids DEF IInv
  <2>2. ids = 0..(n - 1) /\ Cardinality(0..(n - 1)) = n
    BY <2>1, Ids
  <2>3. here.rank \in Rank(D) /\ here.thread \in Tid(D)
        /\ here = Domain(D, here.rank, here.thread)
    <3>1. PICK c \in GlobalCoord(D) : here = BlockAt(D, c)
      BY DEF IInv
    <3>2. 1 \in Dim /\ 1 \in {-1, 1}
      BY DEF Dim
    <3>3. QED
      BY <2>1, <3>1, <3>2, AskedByOwner
  <2>4. here.id \in ids
    BY <2>3
  <2> HIDE DEF ids
  <2>5. here.id \in 0..(n - 1) /\ Cardinality(ids) = n
    BY <2>2, <2>4
  <2>6. QED
    BY <2>5 DEF IdsAreExact, ids
<1>2. IInv => RowsTile
  <2> SUFFICES ASSUME IInv, NEW d \in Dim, NEW right, right = To(d, 1)
               PROVE  /\ here.coord[d] = 0 => here.begin[d] = 0
                      /\ here.begin[d] + here.ext[d]
                           = IF here.coord[d] = Blocks(D, d) - 1
                             THEN GlobalDomain(D, d) ELSE right.begin[d]
                      /\ right.ext[d] - here.ext[d] \in -1..1
    BY DEF RowsTile
  <2>1. D \in Decompositions /\ IsGrid(D) /\ D.cells[d] \in Nat
    BY Grids, DecompositionsAssumption DEF IInv
  <2>2. PICK c \in GlobalCoord(D) : here = BlockAt(D, c)
    BY DEF IInv
  <2> DEFINE s == Shift(D, c, d, 1)
             n == Blocks(D, d)
             at == DomainCoord(D, d)
             ext(i) == DomainExt(D, d, i)
  <2>3. right = BlockAt(D, s)
    BY <2>1, <2>2, AskedByOwner DEF To
  <2>4. \A x : BlockAt(D, x).begin[d] = at[x[d]] /\ BlockAt(D, x).ext[d] = ext(x[d])
               /\ BlockAt(D, x).coord = x
    BY DEF BlockAt, DomainAt, Triple, Dim
  <2>5. n \in Nat \ {0} /\ c[d] \in 0..(n - 1)
    BY <2>1, Sizes DEF GlobalCoord, Dim
  <2>6. s[d] = IF c[d] = n - 1 THEN 0 ELSE c[d] + 1
    <3>1. OneStep(d, 1)[d] = 1
      BY DEF OneStep, Triple, Dim
    <3>2. s[d] = Wrap(D, d, c[d] + 1)
      BY <3>1 DEF Shift, Triple, Dim
    <3>3. QED
      BY <2>5, <3>2 DEF Wrap
  <2>7. /\ at[0] = 0 /\ at[n] = GlobalDomain(D, d)
        /\ \A i \in 1..n : at[i] = at[i - 1] + ext(i - 1)
    BY <2>1, Begins
  <2>8. \A i, j : ext(i) - ext(j) \in -1..1
    <3>1. PICK q \in Nat, k \in 0..(n - 1) :
            \A i : DomainExt(D, d, i) = q + (IF i < k THEN 1 ELSE 0)
      BY <2>1, Exts
    <3>2. QED
      BY <3>1
  <2> HIDE DEF s, n, at, ext
  <2>9. at[c[d] + 1] = at[c[d]] + ext(c[d])
    BY <2>5, <2>7
  <2>10. CASE c[d] = n - 1
    BY <2>2, <2>3, <2>4, <2>5, <2>6, <2>7, <2>8, <2>9, <2>10 DEF n
  <2>11. CASE c[d] # n - 1
    BY <2>2, <2>3, <2>4, <2>5, <2>6, <2>7, <2>8, <2>9, <2>11 DEF n
  <2>12. QED
    BY <2>10, <2>11
<1>3. QED
  BY <1>1, <1>2, Invariance, PTL DEF BlocksTile

-----------------------------------------------------------------------------
(***************************************************************************)
(* Nested grids: what hw_topo computes level by level.                      *)
(***************************************************************************)
\* f holds the products of the first numbers of h.
AreProducts(f, h, n) ==
    /\ f \in [0..n -> Nat \ {0}]
    /\ f[0] = 1 /\ \A i \in 1..n : f[i] = f[i - 1] * h[i]

LEMMA ProductsExist ==
  ASSUME NEW n \in Nat, NEW h \in [1..n -> Nat \ {0}]
  PROVE  \E f : AreProducts(f, h, n)
<1> DEFINE S == {k \in Nat : k <= n => \E f : AreProducts(f, h, k)}
<1>1. 0 \in S
  <2>1. AreProducts([i \in 0..0 |-> 1], h, 0)
    BY DEF AreProducts
  <2>2. QED
    BY <2>1
<1>2. ASSUME NEW k \in Nat, k \in S PROVE k + 1 \in S
  <2>1. ASSUME k + 1 <= n PROVE \E f : AreProducts(f, h, k + 1)
    <3>1. PICK f : AreProducts(f, h, k)
      BY <1>2, <2>1
    <3>2. k + 1 \in 1..n /\ k \in 0..k
      BY <2>1
    <3>3. f[k] \in Nat \ {0} /\ h[k + 1] \in Nat \ {0}
      BY <3>1, <3>2 DEF AreProducts
    <3>4. PICK p : p = f[k] * h[k + 1]
      OBVIOUS
    <3>5. p \in Nat \ {0}
      <4>1. f[k] * h[k + 1] \in Nat \ {0}
        BY <3>3, Positive
      <4>2. QED
        BY <3>4, <4>1
    <3> DEFINE e == [i \in 0..(k + 1) |-> IF i <= k THEN f[i] ELSE p]
    <3>6. e \in [0..(k + 1) -> Nat \ {0}] /\ e[0] = 1
      BY <3>1, <3>5 DEF AreProducts
    <3>7. ASSUME NEW i \in 1..(k + 1) PROVE e[i] = e[i - 1] * h[i]
      <4>1. CASE i <= k
        <5>1. i \in 1..k /\ e[i] = f[i] /\ e[i - 1] = f[i - 1]
          BY <4>1
        <5>2. QED
          BY <3>1, <5>1 DEF AreProducts
      <4>2. CASE i = k + 1
        <5>1. i - 1 = k /\ e[i] = p /\ e[i - 1] = f[k]
          BY <4>2
        <5>2. QED
          BY <3>4, <4>2, <5>1
      <4>3. QED
        BY <4>1, <4>2
    <3> HIDE DEF e
    <3>8. AreProducts(e, h, k + 1)
      BY <3>6, <3>7 DEF AreProducts
    <3>9. QED
      BY <3>8
  <2>2. QED
    BY <2>1
<1>3. n \in S
  <2> HIDE DEF S
  <2>1. QED
    BY <1>1, <1>2, Induction
<1>4. QED
  BY <1>3

IsLevels(g) == g \in Seq([1..3 -> Nat \ {0}])

LEMMA Levels ==
  ASSUME NEW g, IsLevels(g)
  PROVE  /\ Len(g) \in Nat
         /\ \A l \in 1..Len(g), d \in 1..3 : g[l][d] \in Nat \ {0}
BY DEF IsLevels

\* size(l, d) multiplies up.
LEMMA SizeOf ==
  ASSUME NEW g, IsLevels(g), NEW d \in 1..3
  PROVE  /\ Size(g, 0, d) = 1
         /\ \A l \in 0..Len(g) : Size(g, l, d) \in Nat \ {0}
         /\ \A l \in 1..Len(g) : Size(g, l, d) = Size(g, l - 1, d) * g[l][d]
<1> DEFINE n == Len(g)
           h == [i \in 1..n |-> g[i][d]]
           body(f) == [j \in 0..n |-> IF j = 0 THEN 1 ELSE f[j - 1] * g[j][d]]
           up == CHOOSE f : f = body(f)
<1>1. n \in Nat /\ h \in [1..n -> Nat \ {0}]
  BY Levels
<1> HIDE DEF n
<1>2. PICK f : AreProducts(f, h, n)
  <2> HIDE DEF h
  <2>1. QED
    BY <1>1, ProductsExist
<1>3. f = body(f)
  <2>1. \A j \in 0..n : j # 0 => j \in 1..n
    BY <1>1
  <2>2. QED
    BY <1>2, <2>1 DEF AreProducts
<1>4. up = body(up)
  <2> HIDE DEF body
  <2>1. QED
    BY <1>3
<1>5. \A l : Size(g, l, d) = up[l]
  BY DEF Size, n
<1> HIDE DEF up
<1>6. up[0] = 1 /\ \A l \in 1..n : up[l] = up[l - 1] * g[l][d]
  <2>1. 0 \in 0..n /\ \A l \in 1..n : l \in 0..n /\ l # 0
    BY <1>1
  <2>2. QED
    BY <1>4, <2>1
<1>7. \A l \in 0..n : up[l] = f[l]
  <2> DEFINE S == {l \in 0..n : up[l] = f[l]}
  <2>1. 0 \in S
    BY <1>1, <1>2, <1>6 DEF AreProducts
  <2>2. ASSUME NEW l \in 1..n, l - 1 \in S PROVE l \in S
    <3>1. l \in 0..n /\ h[l] = g[l][d] /\ f[l] = f[l - 1] * h[l]
      BY <1>1, <1>2 DEF AreProducts
    <3>2. QED
      BY <1>6, <2>2, <3>1
  <2>3. 0..n \subseteq S
    <3> HIDE DEF S
    <3>1. QED
      BY <1>1, <2>1, <2>2, UpTo
  <2>4. QED
    BY <2>3
<1>8. \A l \in 0..n : up[l] \in Nat \ {0}
  BY <1>2, <1>7 DEF AreProducts
<1>9. QED
  BY <1>5, <1>6, <1>8 DEF n

Volume(g, l) == g[l][1] * g[l][2] * g[l][3]

\* count(l) multiplies down.
LEMMA CountOf ==
  ASSUME NEW g, IsLevels(g)
  PROVE  /\ Count(g, Len(g)) = 1
         /\ \A l \in 0..(Len(g) - 1) : Count(g, l) = Volume(g, l + 1) * Count(g, l + 1)
         /\ \A l \in 0..Len(g) : Count(g, l) \in Nat
<1> DEFINE n == Len(g)
           h == [i \in 1..n |-> Volume(g, n + 1 - i)]
           body(f) == [j \in 0..n |->
             IF j = n THEN 1 ELSE g[j + 1][1] * g[j + 1][2] * g[j + 1][3] * f[j + 1]]
           from == CHOOSE f : f = body(f)
<1>1. n \in Nat /\ \A l \in 1..n : Volume(g, l) \in Nat \ {0}
  <2>1. ASSUME NEW l \in 1..n PROVE Volume(g, l) \in Nat \ {0}
    <3>1. PICK x, y, z : /\ x = g[l][1] /\ x \in Nat \ {0} /\ y = g[l][2] /\ y \in Nat \ {0}
                         /\ z = g[l][3] /\ z \in Nat \ {0}
      BY Levels
    <3>2. x * y \in Nat \ {0}
      BY <3>1, Positive
    <3>3. (x * y) * z \in Nat \ {0}
      BY <3>1, <3>2, Positive
    <3>4. QED
      BY <3>1, <3>3 DEF Volume
  <2>2. QED
    BY <2>1, Levels
<1>2. h \in [1..n -> Nat \ {0}]
  <2> HIDE DEF n
  <2>1. \A i \in 1..n : n + 1 - i \in 1..n
    BY <1>1
  <2>2. QED
    BY <1>1, <2>1
<1> HIDE DEF n
<1>3. PICK f : AreProducts(f, h, n)
  <2> HIDE DEF h
  <2>1. QED
    BY <1>1, <1>2, ProductsExist
<1> DEFINE e == [j \in 0..n |-> f[n - j]]
<1>4. e \in [0..n -> Nat \ {0}] /\ e[n] = 1
  BY <1>1, <1>3 DEF AreProducts
<1>5. \A j \in 0..(n - 1) : e[j] = Volume(g, j + 1) * e[j + 1]
  <2>1. ASSUME NEW j \in 0..(n - 1) PROVE e[j] = Volume(g, j + 1) * e[j + 1]
    <3>1. /\ j \in 0..n /\ j + 1 \in 0..n /\ j + 1 \in 1..n
          /\ n - j \in 1..n /\ n + 1 - (n - j) = j + 1 /\ n - j - 1 = n - (j + 1)
      BY <1>1
    <3>2. f[n - j] = f[n - j - 1] * h[n - j] /\ h[n - j] = Volume(g, j + 1)
      BY <1>3, <3>1 DEF AreProducts
    <3>3. e[j] = f[n - j] /\ e[j + 1] = f[n - j - 1]
      BY <3>1
    <3> HIDE DEF e, h
    <3>4. e[j + 1] \in Int /\ Volume(g, j + 1) \in Int
      BY <1>1, <1>4, <3>1
    <3>5. PICK x, y, z : x = f[n - j] /\ y = f[n - j - 1] /\ z = h[n - j]
      OBVIOUS
    <3>6. x = y * z /\ y \in Int /\ z \in Int
      BY <3>2, <3>3, <3>4, <3>5
    <3>7. x = z * y
      BY <3>6
    <3>8. QED
      BY <3>2, <3>3, <3>5, <3>7
  <2>2. QED
    BY <2>1
<1> HIDE DEF e, h
<1>6. \A j : g[j + 1][1] * g[j + 1][2] * g[j + 1][3] = Volume(g, j + 1)
  BY DEF Volume
<1>7. e = body(e)
  <2>1. \A j \in 0..n : j # n => j \in 0..(n - 1)
    BY <1>1
  <2>2. \A j \in 0..n :
          e[j] = IF j = n THEN 1 ELSE g[j + 1][1] * g[j + 1][2] * g[j + 1][3] * e[j + 1]
    BY <1>4, <1>5, <1>6, <2>1
  <2>3. QED
    BY <1>4, <2>2
<1>8. from = body(from)
  <2> HIDE DEF body
  <2>1. QED
    BY <1>7
<1>9. \A l : Count(g, l) = from[l]
  BY DEF Count, n
<1> HIDE DEF from
<1>10. from[n] = 1 /\ \A l \in 0..(n - 1) : from[l] = Volume(g, l + 1) * from[l + 1]
  <2>1. n \in 0..n /\ \A l \in 0..(n - 1) : l \in 0..n /\ l # n
    BY <1>1
  <2>2. QED
    BY <1>6, <1>8, <2>1
<1>11. \A l \in 0..n : from[l] \in Nat
  <2> DEFINE S == {k \in 0..n : from[n - k] = e[n - k]}
  <2>1. 0 \in S
    BY <1>1, <1>4, <1>10
  <2>2. ASSUME NEW k \in 1..n, k - 1 \in S PROVE k \in S
    <3>1. k \in 0..n /\ n - k \in 0..(n - 1) /\ n - (k - 1) = n - k + 1
      BY <1>1
    <3>2. from[n - k + 1] = e[n - k + 1]
      BY <2>2, <3>1
    <3>3. QED
      BY <1>5, <1>10, <3>1, <3>2
  <2>3. 0..n \subseteq S
    <3> HIDE DEF S
    <3>1. QED
      BY <1>1, <2>1, <2>2, UpTo
  <2>4. \A l \in 0..n : n - l \in 0..n /\ n - (n - l) = l
    BY <1>1
  <2>5. \A l \in 0..n : from[l] = e[l]
    BY <2>3, <2>4
  <2>6. QED
    BY <1>4, <2>5
<1>12. QED
  BY <1>9, <1>10, <1>11 DEF n

LEMMA Multiple ==
  ASSUME NEW m \in Int, NEW k \in Int, NEW q \in Int, NEW p \in Int, NEW s \in Int
  PROVE  k * q + p \in Int /\ (m * k) * q + (m * p + s) = s + m * (k * q + p)
OBVIOUS

Splits(a, b, c, m) == a = b + c * m

\* The remainder of a remainder.
LEMMA ModMod ==
  ASSUME NEW m \in Nat \ {0}, NEW k \in Nat \ {0}, NEW x \in Int, NEW n, n = m * k
  PROVE  /\ (x % n) % m = x % m
         /\ (x % n) \div m \in 0..(k - 1)
         /\ Splits(x % n, x % m, (x % n) \div m, m)
<1>1. n \in Nat \ {0}
  BY Positive
<1>2. PICK q, r : q \in Int /\ r \in 0..(n - 1) /\ r = x % n /\ x = n * q + r
  <2>1. x \div n \in Int /\ x % n \in 0..(n - 1) /\ x = n * (x \div n) + (x % n)
    BY <1>1, DivMod
  <2>2. QED
    BY <2>1
<1>3. PICK p, s : /\ p \in Int /\ s \in 0..(m - 1) /\ r = m * p + s
                  /\ p = r \div m /\ s = r % m
  <2>1. r \in Int
    BY <1>1, <1>2
  <2>2. r \div m \in Int /\ r % m \in 0..(m - 1) /\ r = m * (r \div m) + (r % m)
    BY <2>1, DivMod
  <2>3. QED
    BY <2>2
<1>4. p \in 0..(k - 1)
  <2>1. r \in 0..(k * m - 1)
    BY <1>2
  <2>2. r \div m \in 0..(k - 1)
    BY <2>1, Digits, Zenon
  <2>3. QED
    BY <1>3, <2>2
<1>5. s = x % m
  <2>1. m \in Int /\ k \in Int /\ q \in Int /\ p \in Int /\ s \in Int
    BY <1>2, <1>3
  <2>2. k * q + p \in Int /\ (m * k) * q + (m * p + s) = s + m * (k * q + p)
    BY <2>1, Multiple
  <2>3. PICK w : w \in Int /\ (m * k) * q + (m * p + s) = s + m * w
    BY <2>2
  <2>4. x = s + m * w
    BY <1>2, <1>3, <2>3
  <2>5. (s + m * w) % m = s
    BY <1>3, <2>3, DivModOf
  <2>6. QED
    BY <2>4, <2>5
<1>6. r = s + p * m
  BY <1>3
<1>7. QED
  BY <1>2, <1>3, <1>4, <1>5, <1>6 DEF Splits

\* What is left of a coordinate in a resource of level l.
Left(g, coord, l) == [d \in 1..3 |-> coord[d] % Size(g, l + 1, d)]

\* level_grid_coord takes off what the levels above have.
LEMMA CoordOf ==
  ASSUME NEW g, IsLevels(g), Len(g) # 0, NEW coord, \A d \in 1..3 : coord[d] \in Int
                             /\ coord[d] % Size(g, Len(g), d) = coord[d]
  PROVE  level_grid_coord(g, coord)
           = [i \in 1..Len(g) |->
               [d \in 1..3 |-> Left(g, coord, Len(g) - i)[d] \div Size(g, Len(g) - i, d)]]
<1> DEFINE n == Len(g)
           body(f) == [l \in 0..(n - 1) |->
             [d \in 1..3 |-> IF l = n - 1 THEN coord[d]
                             ELSE f[l + 1][d] - (f[l + 1][d] \div Size(g, l + 1, d)) * Size(g, l + 1, d)]]
           left == CHOOSE f : f = body(f)
           w == [l \in 0..(n - 1) |-> Left(g, coord, l)]
<1>1. n \in Nat \ {0}
  BY Levels
<1>2. level_grid_coord(g, coord)
        = [i \in 1..n |-> [d \in 1..3 |-> left[n - i][d] \div Size(g, n - i, d)]]
  BY DEF level_grid_coord
<1>3. ASSUME NEW l \in 0..(n - 1), l # n - 1, NEW d \in 1..3
      PROVE  Left(g, coord, l)[d]
               = Left(g, coord, l + 1)[d]
                   - (Left(g, coord, l + 1)[d] \div Size(g, l + 1, d)) * Size(g, l + 1, d)
  <2>1. l + 1 \in 1..n /\ l + 2 \in 1..n /\ l + 1 \in 0..n /\ l + 2 - 1 = l + 1
        /\ l + 1 + 1 = l + 2
    BY <1>1, <1>3
  <2>2. PICK m, k, x : /\ m = Size(g, l + 1, d) /\ m \in Nat \ {0}
                       /\ k = g[l + 2][d] /\ k \in Nat \ {0}
                       /\ Size(g, l + 2, d) = m * k
                       /\ x = coord[d] /\ x \in Int
    <3>1. /\ Size(g, l + 1, d) \in Nat \ {0} /\ g[l + 2][d] \in Nat \ {0}
          /\ Size(g, l + 2, d) = Size(g, l + 1, d) * g[l + 2][d]
      <4>1. PICK i, j : i = l + 1 /\ j = l + 2
        OBVIOUS
      <4>2. i \in 0..n /\ j \in 1..n /\ j - 1 = i
        BY <1>1, <2>1, <4>1
      <4>3. /\ Size(g, i, d) \in Nat \ {0} /\ g[j][d] \in Nat \ {0}
            /\ Size(g, j, d) = Size(g, j - 1, d) * g[j][d]
        BY <4>2, SizeOf, Levels
      <4>4. QED
        BY <4>1, <4>2, <4>3
    <3>2. QED
      BY <3>1
  <2>3. PICK n2 : n2 = m * k
    OBVIOUS
  <2>4. Splits(x % n2, x % m, (x % n2) \div m, m)
    <3>1. m \in Nat \ {0}
      BY <2>2
    <3>2. k \in Nat \ {0}
      BY <2>2
    <3>3. x \in Int
      BY <2>2
    <3>4. QED
      BY <2>3, <3>1, <3>2, <3>3, ModMod, Zenon
  <2>5. Left(g, coord, l)[d] = x % m /\ Left(g, coord, l + 1)[d] = x % n2
    BY <2>1, <2>2, <2>3 DEF Left
  <2>6. x % m \in Int
    BY <2>2
  <2>7. PICK a, b, c : a = x % n2 /\ b = x % m /\ c = a \div m
    OBVIOUS
  <2>8. a = b + c * m /\ b \in Int /\ c \in Int
    BY <2>2, <2>4, <2>6, <2>7 DEF Splits
  <2>9. b = a - c * m
    BY <2>2, <2>8
  <2>10. QED
    BY <2>2, <2>5, <2>7, <2>9
<1>4. ASSUME NEW d \in 1..3 PROVE Left(g, coord, n - 1)[d] = coord[d]
  <2>1. n - 1 + 1 = n
    BY <1>1
  <2>2. QED
    BY <2>1 DEF Left
<1>5. \A l \in 0..(n - 1) : Left(g, coord, l) \in [1..3 -> {Left(g, coord, l)[d] : d \in 1..3}]
  BY DEF Left
<1> HIDE DEF n
<1>6. w = body(w)
  <2>1. ASSUME NEW l \in 0..(n - 1) PROVE w[l] = body(w)[l]
    <3>1. w[l] = [d \in 1..3 |-> Left(g, coord, l)[d]]
      BY <1>5
    <3>2. CASE l = n - 1
      BY <1>4, <3>1, <3>2
    <3>3. CASE l # n - 1
      <4>1. l + 1 \in 0..(n - 1) /\ w[l + 1] = Left(g, coord, l + 1)
        BY <1>1, <3>3
      <4>2. QED
        BY <1>3, <3>1, <3>3, <4>1
    <3>4. QED
      BY <3>2, <3>3
  <2>2. w = [l \in 0..(n - 1) |-> w[l]] /\ body(w) = [l \in 0..(n - 1) |-> body(w)[l]]
    OBVIOUS
  <2> HIDE DEF w, body
  <2>3. QED
    BY <2>1, <2>2
<1>7. left = body(left)
  <2> HIDE DEF body, w
  <2>1. QED
    BY <1>6
<1> HIDE DEF left, w
<1>8. ASSUME NEW l \in 0..(n - 1)
      PROVE  left[l] = [d \in 1..3 |-> IF l = n - 1 THEN coord[d]
                   ELSE left[l + 1][d] - (left[l + 1][d] \div Size(g, l + 1, d)) * Size(g, l + 1, d)]
  BY <1>7
<1>9. \A l \in 0..(n - 1), d \in 1..3 : left[l][d] = Left(g, coord, l)[d]
  <2> DEFINE S == {k \in 0..(n - 1) :
                     \A d \in 1..3 : left[n - 1 - k][d] = Left(g, coord, n - 1 - k)[d]}
  <2>1. 0 \in S
    <3>1. 0 \in 0..(n - 1) /\ n - 1 \in 0..(n - 1) /\ n - 1 - 0 = n - 1
      BY <1>1
    <3>2. \A d \in 1..3 : left[n - 1][d] = coord[d]
      BY <1>8, <3>1
    <3>3. QED
      BY <1>4, <3>1, <3>2
  <2>2. ASSUME NEW k \in 1..(n - 1), k - 1 \in S PROVE k \in S
    <3>1. /\ k \in 0..(n - 1) /\ n - 1 - k \in 0..(n - 1) /\ n - 1 - k # n - 1
          /\ n - 1 - k + 1 = n - 1 - (k - 1)
      BY <1>1
    <3>2. \A d \in 1..3 : left[n - 1 - k + 1][d] = Left(g, coord, n - 1 - k + 1)[d]
      BY <2>2, <3>1
    <3>3. PICK l : l = n - 1 - k
      OBVIOUS
    <3>4. l \in 0..(n - 1) /\ l # n - 1
      BY <3>1, <3>3
    <3>5. ASSUME NEW d \in 1..3 PROVE left[l][d] = Left(g, coord, l)[d]
      <4>1. left[l][d] = left[l + 1][d] - (left[l + 1][d] \div Size(g, l + 1, d)) * Size(g, l + 1, d)
        <5>1. left[l] = [e \in 1..3 |-> IF l = n - 1 THEN coord[e]
                ELSE left[l + 1][e] - (left[l + 1][e] \div Size(g, l + 1, e)) * Size(g, l + 1, e)]
          BY <1>8, <3>4
        <5>2. QED
          BY <3>4, <5>1
      <4>2. left[l + 1][d] = Left(g, coord, l + 1)[d]
        <5>1. l + 1 = n - 1 - k + 1
          BY <3>3
        <5>2. QED
          BY <3>2, <5>1
      <4>3. QED
        BY <1>3, <3>4, <4>1, <4>2
    <3>6. QED
      BY <3>1, <3>3, <3>5
  <2>3. 0..(n - 1) \subseteq S
    <3>1. n - 1 \in Nat
      BY <1>1
    <3> HIDE DEF S
    <3>2. QED
      BY <2>1, <2>2, <3>1, UpTo
  <2>4. \A l \in 0..(n - 1) : n - 1 - l \in 0..(n - 1) /\ n - 1 - (n - 1 - l) = l
    BY <1>1
  <2>5. QED
    BY <2>3, <2>4
<1>10. \A i \in 1..n : n - i \in 0..(n - 1)
  BY <1>1
<1>11. QED
  BY <1>2, <1>9, <1>10 DEF n

\* A number, level by level and put together again.
LEMMA RankOfCoord ==
  ASSUME NEW g, IsLevels(g), Len(g) # 0, NEW coord,
         \A d \in 1..3 : coord[d] \in 0..(Size(g, Len(g), d) - 1),
         NEW c, c = level_grid_coord(g, coord)
  PROVE  /\ \A i \in DOMAIN c, d \in Dim : c[i][d] \in 0..(g[Len(g) + 1 - i][d] - 1)
         /\ RankAt(g, c) = <<coord[1], coord[2], coord[3]>>
<1> DEFINE n == Len(g)
           body(f) == [l \in 0..n |->
             [d \in 1..3 |-> IF l = 0 THEN 0
                             ELSE f[l - 1][d] + c[n + 1 - l][d] * Size(g, l - 1, d)]]
           sum == CHOOSE f : f = body(f)
           w == [l \in 0..n |-> [d \in 1..3 |-> coord[d] % Size(g, l, d)]]
<1>1. n \in Nat \ {0}
  BY Levels
<1>2. ASSUME NEW d \in 1..3
      PROVE  coord[d] \in Int /\ coord[d] % Size(g, n, d) = coord[d]
  <2>1. Size(g, n, d) \in Nat \ {0}
    <3>1. n \in 0..n
      BY <1>1
    <3>2. QED
      BY <3>1, SizeOf
  <2>2. PICK s : s = Size(g, n, d)
    OBVIOUS
  <2>3. s \in Nat \ {0} /\ coord[d] \in 0..(s - 1)
    BY <2>1, <2>2
  <2>4. coord[d] % s = coord[d]
    <3>1. PICK x : x = coord[d]
      OBVIOUS
    <3>2. x \in 0..(s - 1)
      BY <2>3, <3>1
    <3>3. x % s = x
      BY <2>3, <3>2
    <3>4. QED
      BY <3>1, <3>3
  <2>5. coord[d] \in Int
    BY <2>3
  <2>6. QED
    BY <2>2, <2>4, <2>5
<1>3. c = [i \in 1..n |->
            [d \in 1..3 |-> Left(g, coord, n - i)[d] \div Size(g, n - i, d)]]
  BY <1>2, CoordOf
<1>4. ASSUME NEW l \in 1..n, NEW d \in 1..3
      PROVE  /\ c[n + 1 - l][d] \in 0..(g[l][d] - 1)
             /\ coord[d] % Size(g, l, d)
                  = (coord[d] % Size(g, l - 1, d)) + c[n + 1 - l][d] * Size(g, l - 1, d)
  <2>1. n + 1 - l \in 1..n /\ n - (n + 1 - l) = l - 1 /\ l - 1 \in 0..n /\ l - 1 + 1 = l
    BY <1>1
  <2>2. c[n + 1 - l][d] = (coord[d] % Size(g, l, d)) \div Size(g, l - 1, d)
    <3>1. c[n + 1 - l][d] = Left(g, coord, l - 1)[d] \div Size(g, l - 1, d)
      BY <1>3, <2>1
    <3>2. Left(g, coord, l - 1)[d] = coord[d] % Size(g, l, d)
      BY <2>1 DEF Left
    <3>3. QED
      BY <3>1, <3>2
  <2>3. Size(g, l - 1, d) \in Nat \ {0}
    BY <2>1, SizeOf
  <2>4. g[l][d] \in Nat \ {0}
    BY Levels
  <2>5. Size(g, l, d) = Size(g, l - 1, d) * g[l][d]
    BY SizeOf
  <2>6. coord[d] \in Int
    BY <1>2
  <2>7. /\ (coord[d] % Size(g, l, d)) \div Size(g, l - 1, d) \in 0..(g[l][d] - 1)
        /\ Splits(coord[d] % Size(g, l, d), coord[d] % Size(g, l - 1, d),
                  (coord[d] % Size(g, l, d)) \div Size(g, l - 1, d), Size(g, l - 1, d))
    BY <2>3, <2>4, <2>5, <2>6, ModMod, Zenon
  <2>8. QED
    BY <2>2, <2>7 DEF Splits
<1>5. ASSUME NEW d \in 1..3 PROVE coord[d] % Size(g, 0, d) = 0
  <2>1. Size(g, 0, d) = 1 /\ coord[d] \in Int
    BY <1>2, SizeOf
  <2>2. QED
    BY <2>1
<1> HIDE DEF n
<1>6. w = body(w)
  <2>1. ASSUME NEW d \in 1..3, NEW l \in 0..n
        PROVE  coord[d] % Size(g, l, d)
                 = IF l = 0 THEN 0 ELSE w[l - 1][d] + c[n + 1 - l][d] * Size(g, l - 1, d)
    <3>1. CASE l = 0
      BY <1>5, <3>1
    <3>2. CASE l # 0
      <4>1. l \in 1..n /\ l - 1 \in 0..n
        BY <1>1, <3>2
      <4>2. w[l - 1][d] = coord[d] % Size(g, l - 1, d)
        BY <4>1
      <4> HIDE DEF w
      <4>3. QED
        BY <1>4, <3>2, <4>1, <4>2
    <3>3. QED
      BY <3>1, <3>2
  <2>2. QED
    BY <2>1
<1>7. sum = body(sum)
  <2> HIDE DEF body, w
  <2>1. QED
    BY <1>6
<1>8. RankAt(g, c) = <<sum[n][1], sum[n][2], sum[n][3]>>
  BY DEF RankAt, n
<1> HIDE DEF sum, w
<1>9. ASSUME NEW d \in 1..3
      PROVE  /\ sum[0][d] = 0
             /\ \A l \in 1..n : sum[l][d] = sum[l - 1][d] + c[n + 1 - l][d] * Size(g, l - 1, d)
  <2>1. ASSUME NEW l \in 0..n
        PROVE  sum[l] = [e \in 1..3 |-> IF l = 0 THEN 0
                           ELSE sum[l - 1][e] + c[n + 1 - l][e] * Size(g, l - 1, e)]
    BY <1>7
  <2>2. \A l \in 0..n :
          sum[l][d] = IF l = 0 THEN 0 ELSE sum[l - 1][d] + c[n + 1 - l][d] * Size(g, l - 1, d)
    BY <2>1
  <2>3. 0 \in 0..n /\ \A l \in 1..n : l \in 0..n /\ l # 0
    BY <1>1
  <2>4. QED
    BY <2>2, <2>3
<1>10. ASSUME NEW d \in 1..3 PROVE sum[n][d] = coord[d]
  <2> DEFINE S == {l \in 0..n : sum[l][d] = coord[d] % Size(g, l, d)}
  <2>1. 0 \in S
    BY <1>1, <1>5, <1>9
  <2>2. ASSUME NEW l \in 1..n, l - 1 \in S PROVE l \in S
    <3>1. l \in 0..n /\ sum[l - 1][d] = coord[d] % Size(g, l - 1, d)
      BY <1>1, <2>2
    <3>2. QED
      BY <1>4, <1>9, <3>1
  <2>3. 0..n \subseteq S
    <3> HIDE DEF S
    <3>1. QED
      BY <1>1, <2>1, <2>2, UpTo
  <2>4. sum[n][d] = coord[d] % Size(g, n, d)
    BY <1>1, <2>3
  <2>5. QED
    BY <1>2, <2>4
<1>11. ASSUME NEW i \in DOMAIN c, NEW d \in Dim PROVE c[i][d] \in 0..(g[n + 1 - i][d] - 1)
  <2>1. i \in 1..n /\ n + 1 - i \in 1..n /\ n + 1 - (n + 1 - i) = i
    BY <1>1, <1>3
  <2>2. QED
    BY <1>4, <2>1 DEF Dim
<1>12. QED
  BY <1>8, <1>10, <1>11 DEF n

LEMMA Reordered ==
  ASSUME NEW x \in Int, NEW y \in Int, NEW z \in Int, NEW a \in Int, NEW b \in Int,
         NEW c \in Int, NEW k \in Int
  PROVE  ((x * a) * (y * b) * (z * c)) * k = (x * y * z) * ((a * b * c) * k)
OBVIOUS

\* At every level the resources and the ranks in each make up all the ranks.
LEMMA RanksOfLevels ==
  ASSUME NEW g, IsLevels(g), NEW l \in 0..Len(g)
  PROVE  /\ RanksIn(g, l) \in Nat
         /\ RanksIn(g, l) * Count(g, l) = RanksIn(g, Len(g))
<1> DEFINE n == Len(g)
           total(i) == RanksIn(g, i) * Count(g, i)
           S == {i \in 0..n : total(i) = total(0)}
<1>1. n \in Nat
  BY Levels
<1>2. ASSUME NEW i \in 0..n PROVE RanksIn(g, i) \in Nat
  <2>1. Size(g, i, 1) \in Nat /\ Size(g, i, 2) \in Nat /\ Size(g, i, 3) \in Nat
    BY SizeOf
  <2>2. PICK x, y, z : /\ x = Size(g, i, 1) /\ y = Size(g, i, 2) /\ z = Size(g, i, 3)
                       /\ x \in Nat /\ y \in Nat /\ z \in Nat
    BY <2>1
  <2>3. x * y \in Nat
    BY <2>2
  <2>4. (x * y) * z \in Nat
    BY <2>2, <2>3
  <2>5. QED
    BY <2>2, <2>4 DEF RanksIn
<1>3. ASSUME NEW i \in 1..n PROVE total(i) = total(i - 1)
  <2>1. i \in 0..n /\ i - 1 \in 0..(n - 1) /\ i - 1 \in 0..n /\ i - 1 + 1 = i
    BY <1>1
  <2>2. PICK x, y, z, a, b, c, k :
          /\ x = Size(g, i - 1, 1) /\ y = Size(g, i - 1, 2) /\ z = Size(g, i - 1, 3)
          /\ a = g[i][1] /\ b = g[i][2] /\ c = g[i][3] /\ k = Count(g, i)
    OBVIOUS
  <2>3. /\ x \in Nat /\ y \in Nat /\ z \in Nat
        /\ a \in Nat /\ b \in Nat /\ c \in Nat /\ k \in Nat
    <3>1. x \in Nat /\ y \in Nat /\ z \in Nat
      BY <2>1, <2>2, SizeOf
    <3>2. a \in Nat /\ b \in Nat /\ c \in Nat
      BY <2>2, Levels
    <3>3. k \in Nat
      BY <2>1, <2>2, CountOf
    <3>4. QED
      BY <3>1, <3>2, <3>3
  <2>4. Size(g, i, 1) = x * a /\ Size(g, i, 2) = y * b /\ Size(g, i, 3) = z * c
    BY <2>2, SizeOf
  <2>5. Count(g, i - 1) = (a * b * c) * k
    <3>1. Count(g, i - 1) = Volume(g, i - 1 + 1) * Count(g, i - 1 + 1)
      BY <2>1, CountOf
    <3>2. QED
      BY <2>1, <2>2, <3>1 DEF Volume
  <2>6. /\ total(i) = ((x * a) * (y * b) * (z * c)) * k
        /\ total(i - 1) = (x * y * z) * ((a * b * c) * k)
    BY <2>2, <2>4, <2>5 DEF RanksIn
  <2>7. ((x * a) * (y * b) * (z * c)) * k = (x * y * z) * ((a * b * c) * k)
    BY <2>3, Reordered
  <2>8. QED
    BY <2>6, <2>7
<1>4. 0..n \subseteq S
  <2>1. 0 \in S
    BY <1>1
  <2>2. ASSUME NEW i \in 1..n, i - 1 \in S PROVE i \in S
    BY <1>1, <1>3, <2>2
  <2> HIDE DEF S
  <2>3. QED
    BY <1>1, <2>1, <2>2, UpTo
<1>5. total(l) = total(n)
  BY <1>1, <1>4
<1>6. total(n) = RanksIn(g, n)
  <2>1. n \in 0..n /\ Count(g, n) = 1 /\ RanksIn(g, n) \in Int
    BY <1>1, <1>2, CountOf
  <2>2. QED
    BY <2>1
<1>7. QED
  BY <1>2, <1>5, <1>6

(***************************************************************************)
(* The level coordinates of every rank lie in the grids of their levels and *)
(* lead back to the rank, and at every level the resources and the ranks in *)
(* each make up all the ranks (level_grid_coord, rank, size and count of    *)
(* hw_topo), however many levels there are.                                 *)
(***************************************************************************)
THEOREM LevelsComplete == Spec => []LevelsRoundTrip
<1>1. IInv => LevelsRoundTrip
  <2> DEFINE g == D.levels
             c == level_grid_coord(g, here.rank)
  <2> SUFFICES ASSUME IInv, g # <<>>
               PROVE  /\ \A i \in DOMAIN c, d \in Dim : c[i][d] \in 0..(g[Len(g) + 1 - i][d] - 1)
                      /\ RankAt(g, c) = here.rank
                      /\ \A l \in 0..(Len(g) - 1) :
                           RanksIn(g, l) * Count(g, l) = Cardinality(Rank(D))
    BY DEF LevelsRoundTrip
  <2>1. D \in Decompositions /\ IsGrid(D)
    BY Grids DEF IInv
  <2>2. IsLevels(g) /\ Len(g) # 0 /\ D.grid = Grid(g)
    <3>1. IsLevels(g) /\ D.grid = Grid(g)
      BY <2>1, LevelsAssumption DEF IsLevels
    <3>2. Len(g) # 0
      BY <3>1, EmptySeq DEF IsLevels
    <3>3. QED
      BY <3>1, <3>2
  <2>3. here.rank \in Rank(D)
    <3>1. PICK e \in GlobalCoord(D) : here = BlockAt(D, e)
      BY DEF IInv
    <3>2. 1 \in Dim /\ 1 \in {-1, 1}
      BY DEF Dim
    <3>3. QED
      BY <2>1, <3>1, <3>2, AskedByOwner
  <2>4. PICK n : n = Len(g) /\ n \in Nat /\ n \in 0..n
    BY <2>2, Levels
  <2>5. D.grid[1] = Size(g, n, 1) /\ D.grid[2] = Size(g, n, 2) /\ D.grid[3] = Size(g, n, 3)
    BY <2>2, <2>4 DEF Grid
  <2> HIDE DEF g
  <2>6. PICK r : r = here.rank
    OBVIOUS
  <2>7. r = <<r[1], r[2], r[3]>> /\ \A d \in 1..3 : r[d] \in 0..(Size(g, Len(g), d) - 1)
    BY <2>3, <2>4, <2>5, <2>6 DEF Rank
  <2>8. c = level_grid_coord(g, r)
    BY <2>6
  <2> HIDE DEF c
  <2>9. /\ \A i \in DOMAIN c, d \in Dim : c[i][d] \in 0..(g[Len(g) + 1 - i][d] - 1)
        /\ RankAt(g, c) = <<r[1], r[2], r[3]>>
    BY <2>2, <2>7, <2>8, RankOfCoord
  <2>10. RanksIn(g, n) = Cardinality(Rank(D))
    <3>1. PICK x, y, z : /\ x = D.grid[1] /\ x \in Nat /\ y = D.grid[2] /\ y \in Nat
                         /\ z = D.grid[3] /\ z \in Nat
      BY <2>1 DEF IsGrid, Dim
    <3>2. Cardinality(Rank(D)) = (z * y) * x
      BY <2>1, <3>1, RankCount
    <3>3. RanksIn(g, n) = (x * y) * z
      BY <2>5, <3>1 DEF RanksIn
    <3>4. (z * y) * x = (x * y) * z
      BY <3>1
    <3>5. QED
      BY <3>2, <3>3, <3>4
  <2>11. ASSUME NEW l \in 0..(Len(g) - 1)
         PROVE  RanksIn(g, l) * Count(g, l) = Cardinality(Rank(D))
    <3>1. l \in 0..Len(g)
      BY <2>4
    <3>2. QED
      BY <2>2, <2>4, <2>10, <3>1, RanksOfLevels
  <2>12. QED
    BY <2>6, <2>7, <2>9, <2>11
<1>2. QED
  BY <1>1, Invariance, PTL
=============================================================================
