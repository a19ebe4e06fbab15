----------------------------- MODULE GridProofs -----------------------------
(***************************************************************************)
(* Facts about the blocks of every decomposition, however many ranks and       *)
(* threads it has in each dimension, and about the tags of its messages.       *)
(***************************************************************************)
EXTENDS Neighborhood, TLAPS, WellFoundedInduction

\* There is a rank and a thread in every dimension.
IsGrid(E) == \A d \in Dim : E.grid[d] \in Nat \ {0} /\ E.threads[d] \in Nat \ {0}

-----------------------------------------------------------------------------
(***************************************************************************)
(* Induction over sets of numbers.                                          *)
(***************************************************************************)
LEMMA LeastElement ==
  ASSUME NEW T, T \subseteq Nat, T # {}
  PROVE  \E m \in T : \A k \in T : m <= k
<1> DEFINE R == OpToRel(<, Nat)
<1>1. IsWellFoundedOn(R, Nat)
  BY NatLessThanWellFounded
<1>2. \A x, y \in Nat : <<x, y>> \in R <=> x < y
  BY DEF OpToRel
<1> HIDE DEF R
<1>3. PICK x \in T : \A y \in T : ~(<<y, x>> \in R)
  BY <1>1, WFMin
<1>4. ASSUME NEW y \in T PROVE x <= y
  <2>1. x \in Nat /\ y \in Nat
    OBVIOUS
  <2>2. ~(y < x)
    BY <1>2, <1>3, <2>1
  <2>3. QED
    BY <2>1, <2>2
<1>5. QED
  BY <1>4

LEMMA Induction ==
  ASSUME NEW S, 0 \in S, \A n \in Nat : n \in S => n + 1 \in S
  PROVE  Nat \subseteq S
<1> SUFFICES ASSUME Nat \ S # {} PROVE FALSE
  OBVIOUS
<1>1. PICK m \in Nat \ S : \A k \in Nat \ S : m <= k
  BY LeastElement
<1>2. m # 0 /\ m - 1 \in Nat /\ m - 1 \in S
  BY <1>1
<1>3. QED
  BY <1>1, <1>2

\* Induction up to a number.
LEMMA UpTo ==
  ASSUME NEW n \in Nat, NEW T, 0 \in T, \A i \in 1..n : i - 1 \in T => i \in T
  PROVE  0..n \subseteq T
<1> DEFINE S == {k \in Nat : k <= n => k \in T}
<1>1. 0 \in S
  OBVIOUS
<1>2. ASSUME NEW k \in Nat, k \in S PROVE k + 1 \in S
  <2>1. k + 1 <= n => k + 1 \in 1..n /\ (k + 1) - 1 = k /\ k \in T
    BY <1>2
  <2>2. QED
    BY <2>1
<1>3. Nat \subseteq S
  <2> HIDE DEF S
  <2>1. QED
    BY <1>1, <1>2, Induction
<1>4. QED
  BY <1>3

-----------------------------------------------------------------------------
(***************************************************************************)
(* Division.                                                                *)
(***************************************************************************)
\* A number is its quotient times the divisor and its remainder.
LEMMA DivMod ==
  ASSUME NEW a \in Int, NEW n \in Nat \ {0}
  PROVE  /\ a \div n \in Int /\ a % n \in 0..(n - 1)
         /\ a = n * (a \div n) + (a % n)
OBVIOUS

\* A product with a positive factor is no smaller than the other.
LEMMA Product ==
  ASSUME NEW n \in Nat \ {0}, NEW x \in Int, x >= 1
  PROVE  n * x \in Int /\ n * x >= n
OBVIOUS

\* Quotient and remainder are the only numbers like that.
LEMMA Unique ==
  ASSUME NEW n \in Nat \ {0}, NEW q \in Int, NEW p \in Int,
         NEW r \in 0..(n - 1), NEW s \in 0..(n - 1), n * q + r = n * p + s
  PROVE  q = p /\ r = s
<1>1. n * (q - p) = s - r /\ n * (p - q) = r - s
  OBVIOUS
<1>2. ~(q - p >= 1)
  BY <1>1, Product
<1>3. ~(p - q >= 1)
  BY <1>1, Product
<1>4. q = p
  BY <1>2, <1>3
<1>5. QED
  BY <1>4

\* So they can be read off.
LEMMA DivModOf ==
  ASSUME NEW n \in Nat \ {0}, NEW q \in Int, NEW r \in 0..(n - 1)
  PROVE  /\ (r + n * q) \div n = q
         /\ (r + n * q) % n = r
<1> DEFINE a == r + n * q
<1>1. a \in Int /\ a = n * q + r
  OBVIOUS
<1> HIDE DEF a
<1>2. /\ a \div n \in Int /\ a % n \in 0..(n - 1)
      /\ a = n * (a \div n) + (a % n)
  BY <1>1, DivMod
<1>3. a \div n = q /\ a % n = r
  BY <1>1, <1>2, Unique
<1>4. QED
  BY <1>3 DEF a

\* Numbers of two digits, the lower one t of T.
LEMMA TwoDigits ==
  ASSUME NEW G \in Nat \ {0}, NEW T \in Nat \ {0},
         NEW r \in 0..(G - 1), NEW t \in 0..(T - 1)
  PROVE  G * T \in Nat \ {0} /\ t + T * r \in 0..(G * T - 1)
<1> DEFINE k == G - 1 - r
<1>1. k \in Nat /\ G = k + r + 1
  OBVIOUS
<1> HIDE DEF k
<1>2. T * k \in Nat /\ T * r \in Nat /\ G * T = T * k + T * r + T
  BY <1>1
<1>3. QED
  BY <1>2

\* A product of positive numbers is positive.
LEMMA Positive ==
  ASSUME NEW x \in Nat \ {0}, NEW y \in Nat \ {0}
  PROVE  x * y \in Nat \ {0}
<1>1. 0 \in 0..(x - 1) /\ 0 \in 0..(y - 1)
  OBVIOUS
<1>2. QED
  BY <1>1, TwoDigits

\* And back.
LEMMA Digits ==
  ASSUME NEW G \in Nat \ {0}, NEW T \in Nat \ {0}, NEW c \in 0..(G * T - 1)
  PROVE  /\ c \div T \in 0..(G - 1)
         /\ c - (c \div T) * T \in 0..(T - 1)
         /\ (c \div T) * T + (c - (c \div T) * T) = c
<1> DEFINE q == c \div T
           m == c % T
<1>1. c \in Int /\ c >= 0 /\ c < T * G
  OBVIOUS
<1>2. q \in Int /\ m \in 0..(T - 1) /\ c = T * q + m
  BY <1>1, DivMod
<1> HIDE DEF q, m
<1>3. q >= 0
  <2>1. SUFFICES ASSUME -q >= 1 PROVE FALSE
    BY <1>2
  <2>2. T * (-q) >= T
    BY <1>2, <2>1, Product
  <2>3. QED
    BY <1>1, <1>2, <2>2
<1>4. q < G
  <2>1. SUFFICES ASSUME q - G >= 0 PROVE FALSE
    BY <1>2
  <2>2. T * (q - G + 1) >= T
    BY <1>2, <2>1, Product
  <2>3. T * q >= T * G
    BY <1>2, <2>2
  <2>4. QED
    BY <1>1, <1>2, <2>3
<1>5. c - q * T = m
  BY <1>1, <1>2
<1>6. QED
  BY <1>2, <1>3, <1>4, <1>5 DEF q

-----------------------------------------------------------------------------
(***************************************************************************)
(* Blocks: a place in the global grid is a rank and a thread of it.          *)
(***************************************************************************)
\* There is a rank, a thread and a block in every dimension.
LEMMA Sizes ==
  ASSUME NEW E, IsGrid(E), NEW d \in Dim
  PROVE  /\ E.grid[d] \in Nat \ {0} /\ E.threads[d] \in Nat \ {0}
         /\ Blocks(E, d) \in Nat \ {0}
         /\ Blocks(E, d) = E.grid[d] * E.threads[d]
<1>1. E.grid[d] \in Nat \ {0} /\ E.threads[d] \in Nat \ {0}
  BY DEF IsGrid
<1>2. 0 \in 0..(E.grid[d] - 1) /\ 0 \in 0..(E.threads[d] - 1)
  BY <1>1
<1>3. E.grid[d] * E.threads[d] \in Nat \ {0}
  BY <1>1, <1>2, TwoDigits
<1>4. QED
  BY <1>1, <1>3 DEF Blocks

\* Every rank has a thread 0.
LEMMA FirstThread ==
  ASSUME NEW E, IsGrid(E)
  PROVE  0 \in Tid(E) /\ Tid(E) \subseteq Nat
<1> DEFINE T(d) == E.threads[d]
<1>1. T(1) \in Nat \ {0} /\ T(2) \in Nat \ {0} /\ T(3) \in Nat \ {0}
  BY DEF IsGrid, Dim
<1> HIDE DEF T
<1>2. T(1) * T(2) \in Nat \ {0}
  BY <1>1, TwoDigits
<1>3. (T(1) * T(2)) * T(3) \in Nat \ {0}
  <2>1. 0 \in 0..(T(1) * T(2) - 1) /\ 0 \in 0..(T(3) - 1)
    BY <1>1, <1>2
  <2>2. QED
    BY <1>1, <1>2, <2>1, TwoDigits
<1>4. ThreadsPerRank(E) = (T(1) * T(2)) * T(3)
  BY DEF ThreadsPerRank, T
<1>5. QED
  BY <1>3, <1>4 DEF Tid

\* The rank and the thread of a block exist, and it is theirs.
LEMMA BlockOwner ==
  ASSUME NEW E, IsGrid(E), NEW c \in GlobalCoord(E)
  PROVE  /\ RankOf(E, c) \in Rank(E)
         /\ ThreadOf(E, c) \in Tid(E)
         /\ Coord(E, RankOf(E, c), ThreadOf(E, c)) = c
<1> DEFINE G(d) == E.grid[d]
           T(d) == E.threads[d]
           q(d) == c[d] \div T(d)
           m(d) == c[d] - q(d) * T(d)
           mid == m(2) + T(2) * m(3)
           t == m(1) + T(1) * mid
<1>1. c = <<c[1], c[2], c[3]>> /\ \A d \in Dim : c[d] \in 0..(G(d) * T(d) - 1)
  BY Sizes DEF GlobalCoord, Dim
<1>2. \A d \in Dim : G(d) \in Nat \ {0} /\ T(d) \in Nat \ {0}
  BY Sizes
<1>3. ASSUME NEW d \in Dim
      PROVE  q(d) \in 0..(G(d) - 1) /\ m(d) \in 0..(T(d) - 1) /\ q(d) * T(d) + m(d) = c[d]
  BY <1>1, <1>2, Digits
<1>4. 1 \in Dim /\ 2 \in Dim /\ 3 \in Dim
  BY DEF Dim
<1>5. RankOf(E, c) = <<q(1), q(2), q(3)>>
  BY DEF RankOf, Triple
<1>6. ThreadOf(E, c) = t
  BY DEF ThreadOf
<1> HIDE DEF q, m, G, T
<1>7. mid \in 0..(T(3) * T(2) - 1) /\ T(3) * T(2) \in Nat \ {0}
  BY <1>2, <1>3, <1>4, TwoDigits
<1>8. t \in 0..((T(3) * T(2)) * T(1) - 1)
  <2> HIDE DEF mid
  <2>1. QED
    BY <1>2, <1>3, <1>4, <1>7, TwoDigits
<1>9. ThreadOf(E, c) \in Tid(E)
  <2>1. ThreadsPerRank(E) = (T(3) * T(2)) * T(1)
    BY <1>2, <1>4 DEF ThreadsPerRank, T
  <2>2. QED
    BY <1>6, <1>8, <2>1 DEF Tid
<1>10. RankOf(E, c) \in Rank(E)
  BY <1>3, <1>4, <1>5 DEF Rank, G
<1>11. t % T(1) = m(1) /\ t \div T(1) = mid
  <2>1. mid \in Int
    BY <1>7
  <2> HIDE DEF mid
  <2>2. QED
    BY <1>2, <1>3, <1>4, <2>1, DivModOf
<1>12. mid % T(2) = m(2) /\ mid \div T(2) = m(3)
  <2>1. T(2) \in Nat \ {0} /\ m(2) \in 0..(T(2) - 1) /\ m(3) \in Int
    BY <1>2, <1>3, <1>4
  <2>2. QED
    BY <2>1, DivModOf
<1>13. Coord(E, RankOf(E, c), t)
         = <<q(1) * T(1) + m(1), q(2) * T(2) + m(2), q(3) * T(3) + m(3)>>
  <2> HIDE DEF t, mid
  <2>1. QED
    BY <1>5, <1>11, <1>12 DEF Coord, T
<1>14. Coord(E, RankOf(E, c), t) = c
  BY <1>1, <1>3, <1>4, <1>13
<1>15. QED
  BY <1>6, <1>9, <1>10, <1>14

\* And the other way round: every thread has a block, and it is the owner.
LEMMA BlockOfOwner ==
  ASSUME NEW E, IsGrid(E), NEW r \in Rank(E), NEW t \in Tid(E)
  PROVE  /\ Coord(E, r, t) \in GlobalCoord(E)
         /\ RankOf(E, Coord(E, r, t)) = r
         /\ ThreadOf(E, Coord(E, r, t)) = t
<1> DEFINE G(d) == E.grid[d]
           T(d) == E.threads[d]
           c == Coord(E, r, t)
           mid == t \div T(1)
           m(d) == IF d = 1 THEN t % T(1) ELSE IF d = 2 THEN mid % T(2) ELSE mid \div T(2)
<1>1. \A d \in Dim : G(d) \in Nat \ {0} /\ T(d) \in Nat \ {0}
  BY Sizes
<1>2. 1 \in Dim /\ 2 \in Dim /\ 3 \in Dim
  BY DEF Dim
<1>3. r = <<r[1], r[2], r[3]>> /\ \A d \in Dim : r[d] \in 0..(G(d) - 1)
  BY DEF Rank, Dim
<1>4. t \in 0..((T(3) * T(2)) * T(1) - 1)
  <2>1. ThreadsPerRank(E) = (T(3) * T(2)) * T(1)
    BY <1>1, <1>2 DEF ThreadsPerRank
  <2>2. QED
    BY <2>1 DEF Tid
<1>5. c = <<r[1] * T(1) + m(1), r[2] * T(2) + m(2), r[3] * T(3) + m(3)>>
  BY DEF Coord
<1>6. T(3) * T(2) \in Nat \ {0}
  <2>1. 0 \in 0..(T(3) - 1) /\ 0 \in 0..(T(2) - 1)
    BY <1>1, <1>2
  <2>2. QED
    BY <1>1, <1>2, <2>1, TwoDigits
<1> HIDE DEF G, T, c
<1>7. mid \in 0..(T(3) * T(2) - 1) /\ m(1) \in 0..(T(1) - 1) /\ t = m(1) + T(1) * mid
  <2>1. t \in Int
    BY <1>4
  <2>2. t % T(1) \in 0..(T(1) - 1) /\ mid \in Int /\ t = T(1) * mid + (t % T(1))
    BY <1>1, <1>2, <2>1, DivMod
  <2>3. mid \in 0..(T(3) * T(2) - 1)
    BY <1>1, <1>2, <1>4, <1>6, Digits
  <2>4. QED
    BY <1>1, <1>2, <2>2, <2>3
<1>8. /\ m(2) \in 0..(T(2) - 1) /\ m(3) \in 0..(T(3) - 1)
      /\ mid = m(2) + T(2) * m(3)
  <2> HIDE DEF mid
  <2>1. mid \in Int
    BY <1>7
  <2>2. mid % T(2) \in 0..(T(2) - 1) /\ mid \div T(2) \in Int
        /\ mid = T(2) * (mid \div T(2)) + (mid % T(2))
    BY <1>1, <1>2, <2>1, DivMod
  <2>3. mid \div T(2) \in 0..(T(3) - 1)
    BY <1>1, <1>2, <1>7, Digits
  <2>4. QED
    BY <1>1, <1>2, <2>2, <2>3
<1>9. ASSUME NEW d \in Dim PROVE m(d) \in 0..(T(d) - 1)
  BY <1>7, <1>8 DEF Dim
<1> HIDE DEF m, mid
<1>10. ASSUME NEW d \in Dim
       PROVE  /\ c[d] = m(d) + T(d) * r[d]
              /\ c[d] \in 0..(G(d) * T(d) - 1)
              /\ c[d] \div T(d) = r[d]
              /\ c[d] - (c[d] \div T(d)) * T(d) = m(d)
  <2>1. /\ T(d) \in Nat \ {0} /\ G(d) \in Nat \ {0}
        /\ r[d] \in 0..(G(d) - 1) /\ m(d) \in 0..(T(d) - 1)
    BY <1>1, <1>3, <1>9
  <2>2. c[d] = r[d] * T(d) + m(d)
    BY <1>5 DEF Dim
  <2>3. c[d] = m(d) + T(d) * r[d]
    BY <2>1, <2>2
  <2>4. m(d) + T(d) * r[d] \in 0..(G(d) * T(d) - 1)
    BY <2>1, TwoDigits
  <2>5. c[d] \div T(d) = r[d]
    <3> DEFINE n == T(d)
               a == r[d]
               b == m(d)
    <3>1. n \in Nat \ {0} /\ a \in Int /\ b \in 0..(n - 1) /\ c[d] = b + n * a
      BY <2>1, <2>3
    <3> HIDE DEF n, a, b
    <3>2. c[d] \div n = a
      BY <3>1, DivModOf
    <3>3. QED
      BY <3>2 DEF n, a
  <2>6. QED
    BY <2>1, <2>3, <2>4, <2>5
<1>11. c \in GlobalCoord(E)
  BY <1>2, <1>5, <1>10 DEF GlobalCoord, Blocks, G, T
<1>12. RankOf(E, c) = r
  BY <1>2, <1>3, <1>10 DEF RankOf, Triple, T
<1>13. ThreadOf(E, c) = m(1) + T(1) * (m(2) + T(2) * m(3))
  BY <1>2, <1>10 DEF ThreadOf, T
<1>14. QED
  BY <1>7, <1>8, <1>11, <1>12, <1>13 DEF c

(***************************************************************************)
(* Steps over the periodic ends of the grid.                                *)
(***************************************************************************)
Shift(E, c, d, way) == Triple(LAMBDA e : Wrap(E, e, c[e] + OneStep(d, way)[e]))

BlockAt(E, c) == DomainAt(E, RankOf(E, c), ThreadOf(E, c), c)

\* A step stays in the grid, and a step back undoes it, even if there is but
\* one block in this dimension.
LEMMA StepAndBack ==
  ASSUME NEW E, IsGrid(E), NEW c \in GlobalCoord(E), NEW d \in Dim,
         NEW way \in {-1, 1}
  PROVE  /\ Shift(E, c, d, way) \in GlobalCoord(E)
         /\ Shift(E, Shift(E, c, d, way), d, -way) = c
<1> DEFINE s == Shift(E, c, d, way)
           o(w, e) == IF e = d THEN w ELSE 0
<1>1. c = <<c[1], c[2], c[3]>> /\ \A e \in Dim : c[e] \in 0..(Blocks(E, e) - 1)
  BY DEF GlobalCoord, Dim
<1>2. \A e \in Dim : Blocks(E, e) \in Nat \ {0}
  BY Sizes
<1>3. \A w \in {-1, 1}, e \in Dim : OneStep(d, w)[e] = o(w, e)
  BY DEF OneStep, Triple, Dim
<1>4. s = <<s[1], s[2], s[3]>> /\ \A e \in Dim : s[e] = Wrap(E, e, c[e] + o(way, e))
  BY <1>3 DEF Shift, Triple, Dim
<1>5. ASSUME NEW e \in Dim
      PROVE  /\ s[e] \in 0..(Blocks(E, e) - 1)
             /\ Wrap(E, e, s[e] + o(-way, e)) = c[e]
  BY <1>1, <1>2, <1>4 DEF Wrap
<1>6. s \in GlobalCoord(E)
  BY <1>4, <1>5 DEF GlobalCoord, Dim
<1>7. Shift(E, s, d, -way) = <<c[1], c[2], c[3]>>
  <2> HIDE DEF s
  <2>1. -way \in {-1, 1} /\ 1 \in Dim /\ 2 \in Dim /\ 3 \in Dim
    BY DEF Dim
  <2>2. QED
    BY <1>3, <1>5, <2>1 DEF Shift, Triple
<1>8. QED
  BY <1>1, <1>6, <1>7

\* What neighbor and domain answer the owner of a block.
LEMMA AskedByOwner ==
  ASSUME NEW E, IsGrid(E), NEW c \in GlobalCoord(E), NEW d \in Dim,
         NEW way \in {-1, 1}, NEW b, b = BlockAt(E, c)
  PROVE  /\ b.rank \in Rank(E) /\ b.thread \in Tid(E) /\ b.coord = c
         /\ Domain(E, b.rank, b.thread) = b
         /\ Neighbor(E, b.rank, b.thread, d, way) = BlockAt(E, Shift(E, c, d, way))
<1>1. /\ b.rank = RankOf(E, c) /\ b.thread = ThreadOf(E, c) /\ b.coord = c
  BY DEF BlockAt, DomainAt
<1>2. Coord(E, b.rank, b.thread) = c
  BY <1>1, BlockOwner
<1>3. b.rank \in Rank(E) /\ b.thread \in Tid(E)
  BY <1>1, BlockOwner
<1>4. Domain(E, b.rank, b.thread) = b
  BY <1>1, <1>2 DEF Domain, BlockAt
<1>5. Neighbor(E, b.rank, b.thread, d, way) = BlockAt(E, Shift(E, c, d, way))
  BY <1>2 DEF Neighbor, NeighborAt, Shift, BlockAt
<1>6. QED
  BY <1>1, <1>3, <1>4, <1>5

-----------------------------------------------------------------------------
(***************************************************************************)
(* Where the blocks of a row begin.                                         *)
(***************************************************************************)
\* The sizes of blocks: the first j have a cell more than q.
LEMMA Exts ==
  ASSUME NEW E, IsGrid(E), NEW d \in Dim, E.cells[d] \in Nat,
         NEW n, n = Blocks(E, d)
  PROVE  \E q \in Nat, j \in 0..(n - 1) :
           /\ GlobalDomain(E, d) = n * q + j
           /\ \A i : DomainExt(E, d, i) = q + (IF i < j THEN 1 ELSE 0)
<1> DEFINE g == GlobalDomain(E, d)
           q == g \div n
           j == g % n
<1>1. n \in Nat \ {0}
  BY Sizes
<1>2. g \in Nat
  <2>1. n * E.cells[d] \in Nat
    BY <1>1
  <2>2. QED
    BY <2>1 DEF GlobalDomain
<1> HIDE DEF g
<1>3. q \in Nat
  BY <1>1, <1>2
<1>4. j \in 0..(n - 1) /\ g = n * q + j
  <2>1. g \in Int
    BY <1>2
  <2>2. g % n \in 0..(n - 1) /\ g = n * (g \div n) + (g % n)
    BY <1>1, <2>1, DivMod
  <2>3. QED
    BY <2>2
<1> HIDE DEF q, j
<1>5. n * q \in Int /\ g - n * q = j
  BY <1>1, <1>3, <1>4
<1>6. \A i : DomainExt(E, d, i) = q + (IF i < j THEN 1 ELSE 0)
  BY <1>5 DEF DomainExt, g, q
<1>7. QED
  BY <1>3, <1>4, <1>6 DEF g

\* Where they begin.
LEMMA Begins ==
  ASSUME NEW E, IsGrid(E), NEW d \in Dim, E.cells[d] \in Nat, NEW n, n = Blocks(E, d)
  PROVE  /\ DomainCoord(E, d)[0] = 0
         /\ DomainCoord(E, d)[n] = GlobalDomain(E, d)
         /\ \A i \in 1..n :
              DomainCoord(E, d)[i] = DomainCoord(E, d)[i - 1] + DomainExt(E, d, i - 1)
         /\ \A i \in 0..n : DomainCoord(E, d)[i] \in 0..GlobalDomain(E, d)
<1>1. n \in Nat \ {0}
  BY Sizes
<1>2. PICK q \in Nat, j \in 0..(n - 1) :
        /\ GlobalDomain(E, d) = n * q + j
        /\ \A i : DomainExt(E, d, i) = q + (IF i < j THEN 1 ELSE 0)
  BY Exts
<1> DEFINE body(f) == [i \in 0..n |-> IF i = 0 THEN 0 ELSE f[i - 1] + DomainExt(E, d, i - 1)]
           at(i) == q * i + (IF i < j THEN i ELSE j)
           c == DomainCoord(E, d)
<1>3. at(0) = 0
  OBVIOUS
<1>4. ASSUME NEW i \in 1..n PROVE at(i) = at(i - 1) + DomainExt(E, d, i - 1)
  <2>1. q * i = q * (i - 1) + q
    OBVIOUS
  <2>2. DomainExt(E, d, i - 1) = q + (IF i - 1 < j THEN 1 ELSE 0)
    BY <1>2
  <2>3. q * i \in Int /\ q * (i - 1) \in Int
    OBVIOUS
  <2> DEFINE a == q * i
             b == q * (i - 1)
  <2> HIDE DEF a, b
  <2>4. a + (IF i < j THEN i ELSE j) = b + (IF i - 1 < j THEN i - 1 ELSE j)
                                         + (q + (IF i - 1 < j THEN 1 ELSE 0))
    BY <2>1, <2>3 DEF a, b
  <2>5. QED
    BY <2>2, <2>4 DEF a, b
<1>5. at(n) = GlobalDomain(E, d)
  <2>1. q * n = n * q /\ ~(n < j)
    BY <1>1
  <2>2. QED
    BY <1>2, <2>1
<1> HIDE DEF at
<1>6. [i \in 0..n |-> at(i)] = body([i \in 0..n |-> at(i)])
  <2> DEFINE f == [i \in 0..n |-> at(i)]
  <2>1. \A i \in 0..n : i # 0 => i \in 1..n /\ i - 1 \in 0..n
    BY <1>1
  <2>2. \A i \in 0..n : f[i] = IF i = 0 THEN 0 ELSE f[i - 1] + DomainExt(E, d, i - 1)
    BY <1>3, <1>4, <2>1
  <2>3. QED
    BY <2>2
<1>7. c = CHOOSE h : h = body(h)
  BY DEF DomainCoord
<1>8. c = body(c)
  <2> HIDE DEF body
  <2>1. QED
    BY <1>6, <1>7
<1> HIDE DEF c
<1>9. c[0] = 0 /\ \A i \in 1..n : c[i] = c[i - 1] + DomainExt(E, d, i - 1)
  <2>1. 0 \in 0..n /\ \A i \in 1..n : i \in 0..n /\ i # 0
    BY <1>1
  <2>2. QED
    BY <1>8, <2>1
<1>10. ASSUME NEW i \in 0..n PROVE c[i] = at(i)
  <2> DEFINE T == {k \in 0..n : c[k] = at(k)}
  <2>1. 0 \in T
    BY <1>1, <1>3, <1>9
  <2>2. ASSUME NEW k \in 1..n, k - 1 \in T PROVE k \in T
    BY <1>4, <1>9, <2>2
  <2>3. 0..n \subseteq T
    <3> HIDE DEF T
    <3>1. QED
      BY <1>1, <2>1, <2>2, UpTo
  <2>4. QED
    BY <2>3
<1>11. ASSUME NEW i \in 0..n PROVE at(i) \in 0..GlobalDomain(E, d)
  <2>1. /\ q * i \in Nat /\ q * (n - i) \in Nat /\ q * i + q * (n - i) = n * q
    BY <1>1
  <2>2. QED
    BY <1>1, <1>2, <2>1 DEF at
<1>12. n \in 0..n
  BY <1>1
<1>13. QED
  BY <1>5, <1>9, <1>10, <1>11, <1>12 DEF c

(***************************************************************************)
(* A block of a row: where it begins and ends, and where the next one begins   *)
(* on either side, over the ends of the domain.                             *)
(***************************************************************************)
LEMMA RowExtents ==
  ASSUME NEW E, IsGrid(E), NEW d \in Dim, E.cells[d] \in Nat,
         NEW x \in 0..(Blocks(E, d) - 1)
  PROVE  /\ GlobalDomain(E, d) \in Nat
         /\ DomainCoord(E, d)[x] \in Nat /\ DomainExt(E, d, x) \in Nat
         /\ DomainCoord(E, d)[x] + DomainExt(E, d, x) <= GlobalDomain(E, d)
         /\ LET y == Wrap(E, d, x + 1)
             IN  /\ y \in 0..(Blocks(E, d) - 1)
                 /\ \/ DomainCoord(E, d)[x] + DomainExt(E, d, x) = DomainCoord(E, d)[y]
                    \/ /\ DomainCoord(E, d)[x] + DomainExt(E, d, x) = GlobalDomain(E, d)
                       /\ DomainCoord(E, d)[y] = 0
         /\ LET y == Wrap(E, d, x - 1)
             IN  /\ y \in 0..(Blocks(E, d) - 1)
                 /\ \/ DomainCoord(E, d)[y] + DomainExt(E, d, y) = DomainCoord(E, d)[x]
                    \/ /\ DomainCoord(E, d)[y] + DomainExt(E, d, y) = GlobalDomain(E, d)
                       /\ DomainCoord(E, d)[x] = 0
<1> DEFINE n == Blocks(E, d)
           g == GlobalDomain(E, d)
           c == DomainCoord(E, d)
           ext(i) == DomainExt(E, d, i)
<1>1. n \in Nat \ {0}
  BY Sizes
<1>2. PICK q \in Nat, j \in 0..(n - 1) :
        /\ g = n * q + j
        /\ \A i : ext(i) = q + (IF i < j THEN 1 ELSE 0)
  BY Exts
<1>3. g \in Nat
  BY <1>1, <1>2
<1>4. \A i : ext(i) \in Nat
  BY <1>1, <1>2
<1>5. /\ c[0] = 0 /\ c[n] = g
      /\ \A i \in 1..n : c[i] = c[i - 1] + ext(i - 1)
      /\ \A i \in 0..n : c[i] \in 0..g
  BY Begins
<1>6. /\ Wrap(E, d, x + 1) = IF x = n - 1 THEN 0 ELSE x + 1
      /\ Wrap(E, d, x - 1) = IF x = 0 THEN n - 1 ELSE x - 1
  BY <1>1 DEF Wrap
<1> HIDE DEF n, g, c, ext
<1>7. \A i \in 0..(n - 1) : c[i + 1] = c[i] + ext(i)
  <2>1. ASSUME NEW i \in 0..(n - 1) PROVE c[i + 1] = c[i] + ext(i)
    <3>1. i + 1 \in 1..n /\ (i + 1) - 1 = i
      BY <1>1
    <3>2. QED
      BY <1>5, <3>1
  <2>2. QED
    BY <2>1
<1>8. x \in 0..(n - 1)
  BY DEF n
<1>9. c[x] \in Nat /\ ext(x) \in Nat /\ c[x] + ext(x) <= g
  <2>1. x \in 0..n /\ x + 1 \in 0..n
    BY <1>1, <1>8
  <2>2. QED
    BY <1>3, <1>4, <1>5, <1>7, <1>8, <2>1
<1>10. ASSUME NEW y, y = IF x = n - 1 THEN 0 ELSE x + 1
       PROVE  /\ y \in 0..(n - 1)
              /\ c[x] + ext(x) = c[y] \/ (c[x] + ext(x) = g /\ c[y] = 0)
  BY <1>1, <1>5, <1>7, <1>8, <1>10
<1>11. ASSUME NEW y, y = IF x = 0 THEN n - 1 ELSE x - 1
       PROVE  /\ y \in 0..(n - 1)
              /\ c[y] + ext(y) = c[x] \/ (c[y] + ext(y) = g /\ c[x] = 0)
  BY <1>1, <1>5, <1>7, <1>8, <1>11
<1>12. QED
  BY <1>3, <1>6, <1>9, <1>10, <1>11 DEF n, g, c, ext

-----------------------------------------------------------------------------
(***************************************************************************)
(* As long as there are no more fields than threads of a rank, tags are        *)
(* exact: two messages with the same tag are of the same field, dimension,     *)
(* direction and sending thread (the comment on sendtag,                     *)
(* mpi_comm/runtime.cpp:181-185).                                           *)
(***************************************************************************)
THEOREM TagsTellApart ==
  ASSUME NEW nb, nb.num_fields \in Nat \ {0},
         NEW f \in 0..(nb.num_fields - 1), NEW g \in 0..(nb.num_fields - 1),
         NEW d \in Dim, NEW e \in Dim, NEW l \in BOOLEAN, NEW m \in BOOLEAN,
         NEW t \in Nat, NEW u \in Nat, Tag(nb, f, d, l, t) = Tag(nb, g, e, m, u)
  PROVE  f = g /\ d = e /\ l = m /\ t = u
<1> DEFINE way(dim, left) == (dim - 1) * 2 + (IF left THEN 0 ELSE 1)
           a == way(d, l)
           b == way(e, m)
<1>1. a \in 0..5 /\ b \in 0..5
  BY DEF Dim
<1>2. /\ Tag(nb, f, d, l, t) = f + nb.num_fields * (a + 6 * t)
      /\ Tag(nb, g, e, m, u) = g + nb.num_fields * (b + 6 * u)
  BY DEF Tag
<1>3. a + 6 * t \in Int /\ b + 6 * u \in Int
  BY <1>1
<1>4. f = g /\ a + 6 * t = b + 6 * u
  <2> DEFINE p == a + 6 * t
             q == b + 6 * u
             n == nb.num_fields
  <2>1. p \in Int /\ q \in Int /\ n \in Nat \ {0} /\ f \in 0..(n - 1) /\ g \in 0..(n - 1)
    BY <1>3
  <2>2. f + n * p = g + n * q
    BY <1>2
  <2> HIDE DEF p, q, n
  <2>3. n * p + f = n * q + g
    BY <2>1, <2>2
  <2>4. f = g /\ p = q
    BY <2>1, <2>3, Unique
  <2>5. QED
    BY <2>4 DEF p, q
<1>5. a = b /\ t = u
  BY <1>1, <1>4
<1>6. d = e /\ (l <=> m)
  BY <1>5 DEF Dim
<1>7. l = m
  BY <1>6, Zenon
<1>8. QED
  BY <1>4, <1>5, <1>6, <1>7

(***************************************************************************)
(* The ids of the blocks (decomposition.cpp:217 and 240) are below their        *)
(* number, and no two blocks have the same: GHEX finds the thread of a block    *)
(* by its id (ghex_comm/runtime.cpp:83).                                    *)
(***************************************************************************)
THEOREM IdsDiffer ==
  ASSUME NEW E, IsGrid(E), NEW c \in GlobalCoord(E)
  PROVE  /\ DomainId(E, c) \in 0..((Blocks(E, 3) * Blocks(E, 2)) * Blocks(E, 1) - 1)
         /\ \A e \in GlobalCoord(E) : DomainId(E, c) = DomainId(E, e) => c = e
<1> DEFINE n(d) == Blocks(E, d)
           mid(x) == x[2] + n(2) * x[3]
<1>1. n(1) \in Nat \ {0} /\ n(2) \in Nat \ {0} /\ n(3) \in Nat \ {0}
  BY Sizes DEF Dim
<1>2. ASSUME NEW x \in GlobalCoord(E)
      PROVE  /\ x = <<x[1], x[2], x[3]>>
             /\ x[1] \in 0..(n(1) - 1) /\ x[2] \in 0..(n(2) - 1) /\ x[3] \in 0..(n(3) - 1)
             /\ DomainId(E, x) = x[1] + n(1) * mid(x)
  BY DEF GlobalCoord, DomainId
<1> HIDE DEF n
<1>3. ASSUME NEW x \in GlobalCoord(E) PROVE mid(x) \in 0..(n(3) * n(2) - 1)
  BY <1>1, <1>2, TwoDigits
<1>4. n(3) * n(2) \in Nat \ {0}
  BY <1>1, <1>2, TwoDigits
<1>5. DomainId(E, c) \in 0..((n(3) * n(2)) * n(1) - 1)
  <2> HIDE DEF mid
  <2>1. QED
    BY <1>1, <1>2, <1>3, <1>4, TwoDigits
<1>6. ASSUME NEW e \in GlobalCoord(E), DomainId(E, c) = DomainId(E, e) PROVE c = e
  <2>1. mid(c) \in Int /\ mid(e) \in Int
    BY <1>3
  <2>2. c[1] = e[1] /\ mid(c) = mid(e)
    <3>1. c[1] + n(1) * mid(c) = e[1] + n(1) * mid(e)
      BY <1>2, <1>6
    <3> HIDE DEF mid
    <3>2. n(1) * mid(c) + c[1] = n(1) * mid(e) + e[1]
      BY <1>1, <1>2, <2>1, <3>1
    <3>3. QED
      BY <1>1, <1>2, <2>1, <3>2, Unique
  <2>3. n(2) * c[3] + c[2] = n(2) * e[3] + e[2]
    BY <1>1, <1>2, <2>2
  <2>4. c[2] = e[2] /\ c[3] = e[3]
    <3> DEFINE k == n(2)
               c2 == c[2]
               c3 == c[3]
               e2 == e[2]
               e3 == e[3]
    <3>1. /\ k \in Nat \ {0} /\ c2 \in 0..(k - 1) /\ e2 \in 0..(k - 1)
          /\ c3 \in Int /\ e3 \in Int /\ k * c3 + c2 = k * e3 + e2
      BY <1>1, <1>2, <2>3
    <3> HIDE DEF k, c2, c3, e2, e3
    <3>2. c2 = e2 /\ c3 = e3
      BY <3>1, Unique
    <3>3. QED
      BY <3>2 DEF c2, c3, e2, e3
  <2>5. QED
    BY <1>2, <2>2, <2>4
<1>7. QED
  BY <1>5, <1>6 DEF n
=============================================================================
