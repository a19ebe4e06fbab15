-------------------------- MODULE HaloCellsProofs --------------------------
(***************************************************************************)
(* Proofs about HaloCells for every decomposition, every width of halo and     *)
(* every order in which messages are read and written.                       *)
(***************************************************************************)
EXTENDS HaloCells, GridProofs

-----------------------------------------------------------------------------
(***************************************************************************)
(* Arrays: the cells of a box and their places in memory.                    *)
(***************************************************************************)
IsSize(n) == n \in Nat \X Nat \X Nat
Box(n) == (0..(n[1] - 1)) \X (0..(n[2] - 1)) \X (0..(n[3] - 1))

\* The place of a cell is in the array, and tells the cell.
LEMMA IndexOfCell ==
  ASSUME NEW n, IsSize(n), NEW c \in Box(n)
  PROVE  /\ Index(n, c) \in 0..(Volume(n) - 1)
         /\ CellAt(n, Index(n, c)) = c
<1> DEFINE n1 == n[1]
           n2 == n[2]
           n3 == n[3]
           c1 == c[1]
           c2 == c[2]
           c3 == c[3]
<1>1. /\ n1 \in Nat \ {0} /\ n2 \in Nat \ {0} /\ n3 \in Nat \ {0}
      /\ c1 \in 0..(n1 - 1) /\ c2 \in 0..(n2 - 1) /\ c3 \in 0..(n3 - 1)
      /\ c = <<c1, c2, c3>>
  BY DEF IsSize, Box
<1>2. Index(n, c) = c1 + n1 * (c2 + n2 * c3) /\ Volume(n) = n1 * n2 * n3
  BY DEF Index, Volume
<1> HIDE DEF n1, n2, n3, c1, c2, c3
<1> DEFINE mid == c2 + n2 * c3
           low == c1 + n1 * c2
           i == c1 + n1 * mid
<1>3. n3 * n2 \in Nat \ {0} /\ mid \in 0..(n3 * n2 - 1)
  BY <1>1, TwoDigits
<1>4. n2 * n1 \in Nat \ {0} /\ low \in 0..(n2 * n1 - 1)
  BY <1>1, TwoDigits
<1>5. i \in 0..((n3 * n2) * n1 - 1)
  <2> HIDE DEF mid
  <2>1. QED
    BY <1>1, <1>3, TwoDigits
<1>6. (n3 * n2) * n1 = n1 * n2 * n3
  BY <1>1
<1>7. i % n1 = c1 /\ i \div n1 = mid
  <2>1. mid \in Int
    BY <1>3
  <2> HIDE DEF mid
  <2>2. QED
    BY <1>1, <2>1, DivModOf
<1>8. mid % n2 = c2
  <2>1. c3 \in Int
    BY <1>1
  <2>2. QED
    BY <1>1, <2>1, DivModOf
<1>9. i \div (n1 * n2) = c3
  <2>1. i = low + (n1 * n2) * c3 /\ n1 * n2 = n2 * n1 /\ c3 \in Int
    BY <1>1
  <2> DEFINE m == n1 * n2
  <2> HIDE DEF i, low, m
  <2>2. m \in Nat \ {0} /\ low \in 0..(m - 1)
    BY <1>4, <2>1 DEF m
  <2>3. (low + m * c3) \div m = c3
    BY <2>1, <2>2, DivModOf
  <2>4. QED
    BY <2>1, <2>3 DEF m
<1>10. CellAt(n, i) = <<i % n1, (i \div n1) % n2, i \div (n1 * n2)>>
  BY DEF CellAt, n1, n2
<1>11. CellAt(n, i) = c
  <2> HIDE DEF i, mid
  <2>1. QED
    BY <1>1, <1>7, <1>8, <1>9, <1>10
<1>12. QED
  BY <1>2, <1>5, <1>6, <1>11

\* And every place is that of a cell.
LEMMA CellOfIndex ==
  ASSUME NEW n, IsSize(n), NEW i \in 0..(Volume(n) - 1)
  PROVE  CellAt(n, i) \in Box(n) /\ Index(n, CellAt(n, i)) = i
<1> DEFINE n1 == n[1]
           n2 == n[2]
           n3 == n[3]
<1>1. n1 \in Nat /\ n2 \in Nat /\ n3 \in Nat /\ Volume(n) = n1 * n2 * n3
  BY DEF IsSize, Volume
<1>2. i \in Nat /\ i < n1 * n2 * n3
  BY <1>1
<1>3. CellAt(n, i) = <<i % n1, (i \div n1) % n2, i \div (n1 * n2)>>
  BY DEF CellAt
<1>4. \A c : Index(n, c) = c[1] + n1 * (c[2] + n2 * c[3])
  BY DEF Index
<1>5. Box(n) = (0..(n1 - 1)) \X (0..(n2 - 1)) \X (0..(n3 - 1))
  BY DEF Box
<1> HIDE DEF n1, n2, n3
<1>6. n1 # 0 /\ n2 # 0 /\ n3 # 0
  BY <1>1, <1>2
<1> DEFINE q == i \div n1
           r == i % n1
           a == q % n2
           b == q \div n2
<1>7. n3 * n2 \in Nat \ {0} /\ n2 * n1 \in Nat \ {0}
  BY <1>1, <1>6, Positive
<1>8. i \in 0..((n3 * n2) * n1 - 1)
  BY <1>1, <1>2
<1>9. q \in 0..(n3 * n2 - 1)
  BY <1>1, <1>6, <1>7, <1>8, Digits
<1>10. r \in 0..(n1 - 1) /\ i = n1 * q + r
  <2>1. i \in Int
    BY <1>2
  <2>2. QED
    BY <1>1, <1>6, <2>1, DivMod
<1> HIDE DEF q, r
<1>11. b \in 0..(n3 - 1)
  BY <1>1, <1>6, <1>9, Digits
<1>12. a \in 0..(n2 - 1) /\ q = n2 * b + a
  <2>1. q \in Int
    BY <1>9
  <2>2. QED
    BY <1>1, <1>6, <2>1, DivMod
<1> HIDE DEF a, b
<1>13. i = r + n1 * (a + n2 * b)
  <2>1. q = a + n2 * b
    BY <1>1, <1>11, <1>12
  <2>2. i = r + n1 * q
    BY <1>1, <1>9, <1>10
  <2>3. QED
    BY <2>1, <2>2
<1>14. i \div (n1 * n2) = b
  <2> DEFINE m == n1 * n2
             low == r + n1 * a
  <2>1. low \in 0..(n2 * n1 - 1)
    BY <1>1, <1>6, <1>10, <1>12, TwoDigits
  <2>2. m = n2 * n1
    BY <1>1
  <2>3. i = low + m * b
    BY <1>1, <1>10, <1>11, <1>12, <1>13
  <2> HIDE DEF m, low
  <2>4. m \in Nat \ {0} /\ low \in 0..(m - 1) /\ b \in Int
    BY <1>7, <1>11, <2>1, <2>2
  <2>5. (low + m * b) \div m = b
    BY <2>4, DivModOf
  <2>6. QED
    BY <2>3, <2>5 DEF m
<1>15. CellAt(n, i) = <<r, a, b>>
  BY <1>3, <1>14 DEF q, r, a
<1>16. QED
  BY <1>4, <1>5, <1>10, <1>11, <1>12, <1>13, <1>15

-----------------------------------------------------------------------------
(***************************************************************************)
(* What every backend sends and receives: the cells of the same slabs.       *)
(***************************************************************************)
IsBlock(b) == \A d \in Dim : b.ext[d] \in Nat

\* Where the slab of a message begins, and how far it reaches, in dimension e.
Lo(s, d, x, e) == IF e = d THEN x ELSE IF e < d THEN 0 ELSE s.halo
Wide(s, b, d, e) == IF e = d THEN s.halo
                    ELSE IF e < d THEN b.ext[e] + s.halo + s.halo ELSE b.ext[e]

SlabSize(s, b, d) == <<Wide(s, b, d, 1), Wide(s, b, d, 2), Wide(s, b, d, 3)>>
SlabFirst(s, d, x) == <<Lo(s, d, x, 1), Lo(s, d, x, 2), Lo(s, d, x, 3)>>

\* Where it begins in dimension d itself.
OutAt(s, b, d, left) == IF left THEN s.halo ELSE b.ext[d]
InAt(s, b, d, left) == IF left THEN s.halo + b.ext[d] ELSE 0

SlabCells(s, b, d, x) == Cells(s, b, [first |-> SlabFirst(s, d, x), size |-> SlabSize(s, b, d)])

LEMMA Setup ==
  ASSUME NEW s \in Setups
  PROVE  /\ IsGrid(s) /\ s.halo \in Nat /\ s.fields \in Nat \ {0}
         /\ \A d \in Dim : s.cells[d] \in Nat
         /\ \A d \in Dim : HaloL(s, d) = s.halo /\ HaloR(s, d) = s.halo
         /\ s.backend \in Backends
<1>1. ASSUME NEW d \in Dim PROVE HaloL(s, d) = s.halo /\ HaloR(s, d) = s.halo
  <2>1. 2 * d - 1 \in 1..6 /\ 2 * d \in 1..6
    BY DEF Dim
  <2>2. QED
    BY <2>1 DEF HaloL, HaloR, m_halos
<1>2. QED
  BY <1>1, SetupsAssumption DEF IsGrid

\* The array of a field.
LEMMA Array ==
  ASSUME NEW s \in Setups, NEW b, IsBlock(b)
  PROVE  /\ ext_buffer(s, b) = <<b.ext[1] + s.halo + s.halo, b.ext[2] + s.halo + s.halo,
                                 b.ext[3] + s.halo + s.halo>>
         /\ IsSize(ext_buffer(s, b))
         /\ Volume(ext_buffer(s, b)) \in Nat
<1>1. s.halo \in Nat /\ \A d \in Dim : HaloL(s, d) = s.halo /\ HaloR(s, d) = s.halo
  BY Setup
<1>2. 1 \in Dim /\ 2 \in Dim /\ 3 \in Dim
  BY DEF Dim
<1>3. /\ b.ext[1] \in Nat /\ b.ext[2] \in Nat /\ b.ext[3] \in Nat
  BY <1>2 DEF IsBlock
<1>4. ext_buffer(s, b) = <<b.ext[1] + s.halo + s.halo, b.ext[2] + s.halo + s.halo,
                           b.ext[3] + s.halo + s.halo>>
  BY <1>1, <1>2 DEF ext_buffer, Triple
<1>5. QED
  BY <1>1, <1>3, <1>4 DEF IsSize, Volume

LEMMA SlabIs ==
  ASSUME NEW s \in Setups, NEW b, IsBlock(b), NEW d \in Dim, NEW x
  PROVE  Slab(s, b, d, x, s.halo) = [first |-> SlabFirst(s, d, x), size |-> SlabSize(s, b, d)]
<1>1. \A e \in Dim : HaloL(s, e) = s.halo
  BY Setup
<1>2. 1 \in Dim /\ 2 \in Dim /\ 3 \in Dim
  BY DEF Dim
<1>3. QED
  BY <1>1, <1>2, Array DEF Slab, SlabFirst, SlabSize, Lo, Wide, Triple

\* Tausch gives the same slab by its ends.
LEMMA TauschIs ==
  ASSUME NEW s \in Setups, NEW b, IsBlock(b), NEW d \in Dim, NEW x \in Nat
  PROVE  TauschBox(s, b, d, x, x + s.halo)
           = [first |-> SlabFirst(s, d, x), size |-> SlabSize(s, b, d)]
<1>1. s.halo \in Nat /\ \A e \in Dim : HaloL(s, e) = s.halo /\ HaloR(s, e) = s.halo
  BY Setup
<1>2. 1 \in Dim /\ 2 \in Dim /\ 3 \in Dim
  BY DEF Dim
<1>3. b.ext[1] \in Nat /\ b.ext[2] \in Nat /\ b.ext[3] \in Nat
  BY <1>2 DEF IsBlock
<1> DEFINE hi(e) == IF e = d THEN x + s.halo
                    ELSE IF e < d THEN ext_buffer(s, b)[e] ELSE b.ext[e] + s.halo
<1>4. \A e \in Dim : hi(e) - Lo(s, d, x, e) = Wide(s, b, d, e)
  BY <1>1, <1>3, Array DEF Lo, Wide, Dim
<1>5. TauschBox(s, b, d, x, x + s.halo)
        = [first |-> SlabFirst(s, d, x),
           size |-> <<hi(1) - Lo(s, d, x, 1), hi(2) - Lo(s, d, x, 2), hi(3) - Lo(s, d, x, 3)>>]
  BY <1>1, <1>2 DEF TauschBox, SlabFirst, Lo, Triple
<1>6. QED
  BY <1>2, <1>4, <1>5 DEF SlabSize

LEMMA BoxesAre ==
  ASSUME NEW s \in Setups, NEW b, IsBlock(b), NEW d \in Dim, NEW left \in BOOLEAN
  PROVE  /\ SendBox(s, b, d, left)
              = [first |-> SlabFirst(s, d, OutAt(s, b, d, left)), size |-> SlabSize(s, b, d)]
         /\ RecvBox(s, b, d, left)
              = [first |-> SlabFirst(s, d, InAt(s, b, d, left)), size |-> SlabSize(s, b, d)]
         /\ PackBox(s, b, d, left)
              = [first |-> SlabFirst(s, d, OutAt(s, b, d, left)), size |-> SlabSize(s, b, d)]
<1>1. s.halo \in Nat /\ \A e \in Dim : HaloL(s, e) = s.halo /\ HaloR(s, e) = s.halo
  BY Setup
<1>2. b.ext[d] \in Nat
  BY DEF IsBlock
<1> DEFINE O == OutAt(s, b, d, left)
           I == InAt(s, b, d, left)
           is(x) == [first |-> SlabFirst(s, d, x), size |-> SlabSize(s, b, d)]
<1>3. /\ Slab(s, b, d, s.halo, s.halo) = is(s.halo)
      /\ Slab(s, b, d, b.ext[d], s.halo) = is(b.ext[d])
      /\ Slab(s, b, d, s.halo + b.ext[d], s.halo) = is(s.halo + b.ext[d])
      /\ Slab(s, b, d, 0, s.halo) = is(0)
  BY SlabIs
<1>4. ext_buffer(s, b)[d] = (s.halo + b.ext[d]) + s.halo /\ s.halo + b.ext[d] - s.halo = b.ext[d]
  BY <1>1, <1>2, Array DEF Dim
<1>5. O \in Nat /\ I \in Nat
  BY <1>1, <1>2 DEF OutAt, InAt
<1>6. TauschBox(s, b, d, O, O + s.halo) = is(O) /\ TauschBox(s, b, d, I, I + s.halo) = is(I)
  BY <1>5, TauschIs
<1> HIDE DEF is
<1>7. PackBox(s, b, d, left) = is(O) /\ UnpackBox(s, b, d, left) = is(I)
  BY <1>1, <1>3 DEF PackBox, UnpackBox, OutAt, InAt
<1>8. SendType(s, b, d, left) = is(O) /\ RecvType(s, b, d, left) = is(I)
  BY <1>1, <1>3, <1>4 DEF SendType, RecvType, OutAt, InAt
<1>9. add_send_halo(s, b, d, left) = is(O) /\ add_recv_halo(s, b, d, left) = is(I)
  <2>1. /\ O + s.halo = IF left THEN s.halo + s.halo ELSE s.halo + b.ext[d]
        /\ I + s.halo = IF left THEN ext_buffer(s, b)[d] ELSE s.halo
    BY <1>1, <1>2, <1>4 DEF OutAt, InAt
  <2>2. QED
    BY <1>1, <1>6, <2>1 DEF add_send_halo, add_recv_halo, OutAt, InAt
<1>10. SendBox(s, b, d, left) = is(O) /\ RecvBox(s, b, d, left) = is(I)
  BY <1>7, <1>8, <1>9 DEF SendBox, RecvBox, OomphPackBox, OomphUnpackBox
<1>11. QED
  BY <1>7, <1>10 DEF is

\* Cells of a slab, one by one.
LEMMA SlabCellsAre ==
  ASSUME NEW s \in Setups, NEW b, NEW d, NEW x
  PROVE  SlabCells(s, b, d, x) =
           [k \in 1..Volume(SlabSize(s, b, d)) |->
              LET c == CellAt(SlabSize(s, b, d), k - 1)
              IN  Index(ext_buffer(s, b), <<Lo(s, d, x, 1) + c[1], Lo(s, d, x, 2) + c[2],
                                            Lo(s, d, x, 3) + c[3]>>)]
<1> DEFINE n == SlabSize(s, b, d)
           f == SlabFirst(s, d, x)
<1>1. f[1] = Lo(s, d, x, 1) /\ f[2] = Lo(s, d, x, 2) /\ f[3] = Lo(s, d, x, 3)
  BY DEF SlabFirst
<1> HIDE DEF n, f
<1>2. QED
  BY <1>1 DEF SlabCells, Cells, Triple, n, f

LEMMA SlabVolume ==
  ASSUME NEW s \in Setups, NEW b, IsBlock(b), NEW d \in Dim
  PROVE  /\ IsSize(SlabSize(s, b, d))
         /\ Volume(SlabSize(s, b, d)) \in Nat
         /\ \A e \in Dim : Wide(s, b, d, e) \in Nat /\ SlabSize(s, b, d)[e] = Wide(s, b, d, e)
<1>1. s.halo \in Nat
  BY Setup
<1>2. 1 \in Dim /\ 2 \in Dim /\ 3 \in Dim
  BY DEF Dim
<1>3. \A e \in Dim : Wide(s, b, d, e) \in Nat
  BY <1>1 DEF Wide, IsBlock
<1>4. QED
  BY <1>2, <1>3 DEF SlabSize, IsSize, Volume, Dim

LEMMA SlabCellIs ==
  ASSUME NEW s \in Setups, NEW b, NEW d, NEW x, NEW k \in 1..Volume(SlabSize(s, b, d)),
         NEW c, c = CellAt(SlabSize(s, b, d), k - 1)
  PROVE  SlabCells(s, b, d, x)[k]
           = Index(ext_buffer(s, b), <<Lo(s, d, x, 1) + c[1], Lo(s, d, x, 2) + c[2],
                                       Lo(s, d, x, 3) + c[3]>>)
<1> DEFINE n == SlabSize(s, b, d)
           place(j) == LET a == CellAt(n, j - 1)
                       IN  Index(ext_buffer(s, b), <<Lo(s, d, x, 1) + a[1], Lo(s, d, x, 2) + a[2],
                                                     Lo(s, d, x, 3) + a[3]>>)
<1>1. SlabCells(s, b, d, x) = [j \in 1..Volume(n) |-> place(j)]
  BY SlabCellsAre
<1>2. place(k) = Index(ext_buffer(s, b), <<Lo(s, d, x, 1) + c[1], Lo(s, d, x, 2) + c[2],
                                           Lo(s, d, x, 3) + c[3]>>)
  OBVIOUS
<1>3. SlabCells(s, b, d, x)[k] = place(k)
  <2> HIDE DEF place, n
  <2>1. QED
    BY <1>1 DEF n
<1>4. QED
  BY <1>2, <1>3

LEMMA SlabIsList ==
  ASSUME NEW s \in Setups, NEW b, NEW d, NEW x, NEW T,
         \A k \in 1..Volume(SlabSize(s, b, d)) : SlabCells(s, b, d, x)[k] \in T
  PROVE  SlabCells(s, b, d, x) \in [1..Volume(SlabSize(s, b, d)) -> T]
<1> DEFINE n == SlabSize(s, b, d)
           place(j) == LET a == CellAt(n, j - 1)
                       IN  Index(ext_buffer(s, b), <<Lo(s, d, x, 1) + a[1], Lo(s, d, x, 2) + a[2],
                                                     Lo(s, d, x, 3) + a[3]>>)
<1>1. SlabCells(s, b, d, x) = [j \in 1..Volume(n) |-> place(j)]
  BY SlabCellsAre
<1> HIDE DEF place
<1>2. QED
  BY <1>1

\* Whole planes are the cells of a slab in z.
LEMMA PlanesAre ==
  ASSUME NEW s \in Setups, NEW b, IsBlock(b), NEW z \in Nat
  PROVE  Planes(s, b, z, s.halo) = SlabCells(s, b, 3, z)
<1> DEFINE n == SlabSize(s, b, 3)
           n1 == b.ext[1] + s.halo + s.halo
           n2 == b.ext[2] + s.halo + s.halo
           h == s.halo
<1>1. 1 \in Dim /\ 2 \in Dim /\ 3 \in Dim
  BY DEF Dim
<1>2. h \in Nat /\ n1 \in Nat /\ n2 \in Nat
  BY <1>1, Setup DEF IsBlock
<1>3. n = <<n1, n2, h>>
  BY DEF SlabSize, Wide
<1>4. ext_buffer(s, b)[1] = n1 /\ ext_buffer(s, b)[2] = n2
  BY Array
<1>5. Lo(s, 3, z, 1) = 0 /\ Lo(s, 3, z, 2) = 0 /\ Lo(s, 3, z, 3) = z
  BY DEF Lo
<1> HIDE DEF n1, n2, h, n
<1>6. z_plane(s, b) = n1 * n2
  BY <1>4 DEF z_plane
<1>7. Volume(n) = (n1 * n2) * h /\ Volume(n) \in Nat
  BY <1>2, <1>3 DEF Volume
<1>8. ASSUME NEW k \in 1..Volume(n), NEW c, c = CellAt(n, k - 1)
      PROVE  Index(ext_buffer(s, b), <<0 + c[1], 0 + c[2], z + c[3]>>) = (n1 * n2) * z + k - 1
  <2>1. k - 1 \in 0..(Volume(n) - 1)
    BY <1>7
  <2>2. c \in Box(n) /\ Index(n, c) = k - 1
    BY <1>1, <1>8, <2>1, SlabVolume, CellOfIndex DEF n
  <2> DEFINE c1 == c[1]
             c2 == c[2]
             c3 == c[3]
  <2>3. c1 \in Nat /\ c2 \in Nat /\ c3 \in Nat /\ c1 + n1 * (c2 + n2 * c3) = k - 1
    BY <1>2, <1>3, <2>2 DEF Box, Index
  <2> HIDE DEF c1, c2, c3
  <2>4. n1 * (c2 + n2 * (z + c3)) = n1 * (c2 + n2 * c3) + (n1 * n2) * z
    BY <1>2, <2>3
  <2>5. (0 + c1) + n1 * ((0 + c2) + n2 * (z + c3)) = (n1 * n2) * z + k - 1
    <3>1. /\ n1 * (c2 + n2 * (z + c3)) \in Int /\ n1 * (c2 + n2 * c3) \in Int
          /\ (n1 * n2) * z \in Int /\ k \in Int
      BY <1>2, <1>7, <2>3
    <3>2. 0 + c1 = c1 /\ 0 + c2 = c2
      BY <2>3
    <3>3. QED
      BY <2>3, <2>4, <3>1, <3>2
  <2>6. QED
    BY <1>4, <2>5 DEF Index, c1, c2, c3
<1>9. SlabCells(s, b, 3, z)
        = [k \in 1..Volume(n) |->
             LET c == CellAt(n, k - 1)
             IN  Index(ext_buffer(s, b), <<0 + c[1], 0 + c[2], z + c[3]>>)]
  BY <1>5, SlabCellsAre DEF n
<1>10. SlabCells(s, b, 3, z) = [k \in 1..Volume(n) |-> (n1 * n2) * z + k - 1]
  BY <1>8, <1>9
<1>11. QED
  BY <1>6, <1>7, <1>10 DEF Planes, h

\* What is sent and what is received, whatever the backend.
LEMMA CellsAre ==
  ASSUME NEW s \in Setups, NEW b, IsBlock(b), NEW d \in Dim, NEW left \in BOOLEAN
  PROVE  /\ SendCells(s, b, <<d, left>>) = SlabCells(s, b, d, OutAt(s, b, d, left))
         /\ RecvCells(s, b, <<d, left>>) = SlabCells(s, b, d, InAt(s, b, d, left))
<1>1. s.halo \in Nat /\ \A e \in Dim : HaloL(s, e) = s.halo /\ HaloR(s, e) = s.halo
  BY Setup
<1>2. 3 \in Dim /\ b.ext[3] \in Nat
  BY DEF IsBlock, Dim
<1>3. /\ Cells(s, b, SendBox(s, b, d, left)) = SlabCells(s, b, d, OutAt(s, b, d, left))
      /\ Cells(s, b, RecvBox(s, b, d, left)) = SlabCells(s, b, d, InAt(s, b, d, left))
  BY BoxesAre DEF SlabCells
<1>4. /\ SendPlanes(s, b, left) = SlabCells(s, b, 3, OutAt(s, b, 3, left))
      /\ RecvPlanes(s, b, left) = SlabCells(s, b, 3, InAt(s, b, 3, left))
  <2>1. /\ Planes(s, b, s.halo, s.halo) = SlabCells(s, b, 3, s.halo)
        /\ Planes(s, b, b.ext[3], s.halo) = SlabCells(s, b, 3, b.ext[3])
        /\ Planes(s, b, s.halo + b.ext[3], s.halo) = SlabCells(s, b, 3, s.halo + b.ext[3])
        /\ Planes(s, b, 0, s.halo) = SlabCells(s, b, 3, 0)
    BY <1>1, <1>2, PlanesAre
  <2>2. QED
    BY <1>1, <1>2, <2>1 DEF SendPlanes, RecvPlanes, OutAt, InAt
<1>5. s.backend = "datatypes" \/ ~IsDirect(s, d) \/ d = 3
  BY DEF IsDirect
<1>6. QED
  BY <1>3, <1>4, <1>5 DEF SendCells, RecvCells, OomphSendPlanes, OomphRecvPlanes

\* A slab that fits the array in its dimension lies in it.
LEMMA SlabCell ==
  ASSUME NEW s \in Setups, NEW b, IsBlock(b), NEW d \in Dim, NEW x \in Nat,
         x <= b.ext[d] + s.halo, NEW k \in 1..Volume(SlabSize(s, b, d))
  PROVE  LET n == ext_buffer(s, b)
             c == CellAt(SlabSize(s, b, d), k - 1)
             i == SlabCells(s, b, d, x)[k]
         IN  /\ c \in Box(SlabSize(s, b, d))
             /\ i \in 0..(Volume(n) - 1)
             /\ CellAt(n, i) = <<Lo(s, d, x, 1) + c[1], Lo(s, d, x, 2) + c[2],
                                 Lo(s, d, x, 3) + c[3]>>
<1> DEFINE n == ext_buffer(s, b)
           size == SlabSize(s, b, d)
           c == CellAt(size, k - 1)
           at3 == <<Lo(s, d, x, 1) + c[1], Lo(s, d, x, 2) + c[2], Lo(s, d, x, 3) + c[3]>>
<1>1. 1 \in Dim /\ 2 \in Dim /\ 3 \in Dim
  BY DEF Dim
<1>2. s.halo \in Nat
  BY Setup
<1>3. /\ IsSize(size) /\ Volume(size) \in Nat
      /\ \A e \in Dim : Wide(s, b, d, e) \in Nat /\ size[e] = Wide(s, b, d, e)
  BY SlabVolume
<1>4. IsSize(n) /\ \A e \in Dim : n[e] = b.ext[e] + s.halo + s.halo /\ b.ext[e] \in Nat
  BY Array DEF IsBlock, Dim
<1>5. k - 1 \in 0..(Volume(size) - 1)
  BY <1>3
<1>6. SlabCells(s, b, d, x)[k] = Index(n, at3)
  BY SlabCellIs
<1> HIDE DEF n, size
<1>7. c \in Box(size)
  BY <1>3, <1>5, CellOfIndex
<1>8. \A e \in Dim : c[e] \in 0..(Wide(s, b, d, e) - 1)
  BY <1>1, <1>3, <1>7 DEF Box, Dim
<1> HIDE DEF c
<1>9. ASSUME NEW e \in Dim PROVE Lo(s, d, x, e) + c[e] \in 0..(n[e] - 1)
  <2>1. c[e] \in Int /\ 0 <= c[e] /\ c[e] <= Wide(s, b, d, e) - 1
    BY <1>3, <1>8
  <2>2. CASE e = d
    BY <1>2, <1>4, <2>1, <2>2 DEF Lo, Wide
  <2>3. CASE e < d
    BY <1>2, <1>4, <2>1, <2>3 DEF Lo, Wide
  <2>4. CASE ~(e < d) /\ e # d
    BY <1>2, <1>4, <2>1, <2>4 DEF Lo, Wide
  <2>5. QED
    BY <2>2, <2>3, <2>4
<1>10. at3 \in Box(n)
  BY <1>1, <1>9 DEF Box
<1>11. Index(n, at3) \in 0..(Volume(n) - 1) /\ CellAt(n, Index(n, at3)) = at3
  <2> HIDE DEF at3
  <2>1. QED
    BY <1>4, <1>10, IndexOfCell
<1>12. QED
  BY <1>6, <1>7, <1>11 DEF c, n, size

\* And every cell of the array that the slab spans is one of its cells.
LEMMA SlabReached ==
  ASSUME NEW s \in Setups, NEW b, IsBlock(b), NEW d \in Dim, NEW x \in Nat,
         NEW i \in 0..(Volume(ext_buffer(s, b)) - 1),
         \A e \in Dim : /\ Lo(s, d, x, e) <= CellAt(ext_buffer(s, b), i)[e]
                        /\ CellAt(ext_buffer(s, b), i)[e] < Lo(s, d, x, e) + Wide(s, b, d, e)
  PROVE  \E k \in 1..Volume(SlabSize(s, b, d)) : SlabCells(s, b, d, x)[k] = i
<1> DEFINE n == ext_buffer(s, b)
           size == SlabSize(s, b, d)
           a == CellAt(n, i)
           c == <<a[1] - Lo(s, d, x, 1), a[2] - Lo(s, d, x, 2), a[3] - Lo(s, d, x, 3)>>
           k == Index(size, c) + 1
<1>1. 1 \in Dim /\ 2 \in Dim /\ 3 \in Dim
  BY DEF Dim
<1>2. s.halo \in Nat
  BY Setup
<1>3. /\ IsSize(size) /\ Volume(size) \in Nat
      /\ \A e \in Dim : Wide(s, b, d, e) \in Nat /\ size[e] = Wide(s, b, d, e)
  BY SlabVolume
<1>4. IsSize(n)
  BY Array
<1>5. a \in Box(n) /\ Index(n, a) = i
  BY <1>4, CellOfIndex
<1>6. a = <<a[1], a[2], a[3]>> /\ \A e \in Dim : a[e] \in Int
  BY <1>4, <1>5 DEF Box, IsSize, Dim
<1>7. \A e \in Dim : Lo(s, d, x, e) \in Nat
  BY <1>2 DEF Lo
<1>8. ASSUME NEW e \in Dim PROVE a[e] - Lo(s, d, x, e) \in 0..(size[e] - 1)
  BY <1>3, <1>6, <1>7
<1> HIDE DEF n, size
<1>9. c \in Box(size)
  BY <1>1, <1>8 DEF Box
<1>10. Index(size, c) \in 0..(Volume(size) - 1) /\ CellAt(size, Index(size, c)) = c
  <2> HIDE DEF c
  <2>1. QED
    BY <1>3, <1>9, IndexOfCell
<1>11. k \in 1..Volume(size) /\ k - 1 = Index(size, c)
  <2> HIDE DEF c
  <2>1. QED
    BY <1>3, <1>10
<1>12. ASSUME NEW e \in Dim PROVE Lo(s, d, x, e) + (a[e] - Lo(s, d, x, e)) = a[e]
  <2> HIDE DEF a
  <2>1. QED
    BY <1>6, <1>7
<1>13. CellAt(size, k - 1) = c
  BY <1>10, <1>11
<1>14. SlabCells(s, b, d, x)[k] = Index(n, <<Lo(s, d, x, 1) + c[1], Lo(s, d, x, 2) + c[2],
                                            Lo(s, d, x, 3) + c[3]>>)
  <2> HIDE DEF k, c
  <2>1. QED
    BY <1>11, <1>13, SlabCellIs DEF n, size
<1>15. SlabCells(s, b, d, x)[k] = i
  <2>1. <<Lo(s, d, x, 1) + c[1], Lo(s, d, x, 2) + c[2], Lo(s, d, x, 3) + c[3]>> = a
    BY <1>1, <1>6, <1>12
  <2> HIDE DEF k, c, a
  <2>2. QED
    BY <1>5, <1>14, <2>1
<1>16. QED
  <2> HIDE DEF k
  <2>1. QED
    BY <1>11, <1>15 DEF size

\* The buffers are as long as the slabs.
LEMMA BufferSizeIs ==
  ASSUME NEW s \in Setups, NEW b, IsBlock(b), NEW d \in Dim, NEW left \in BOOLEAN
  PROVE  BufferSize(s, b, d, left) = Volume(SlabSize(s, b, d))
<1> DEFINE h == s.halo
           e1 == b.ext[1]
           e2 == b.ext[2]
           e3 == b.ext[3]
           n1 == e1 + h + h
           n2 == e2 + h + h
<1>1. 1 \in Dim /\ 2 \in Dim /\ 3 \in Dim
  BY DEF Dim
<1>2. h \in Nat /\ HaloL(s, d) = h /\ HaloR(s, d) = h
  BY Setup
<1>3. e1 \in Nat /\ e2 \in Nat /\ e3 \in Nat
  BY <1>1 DEF IsBlock
<1>4. ext_buffer(s, b)[1] = n1 /\ z_plane(s, b) = n1 * n2
  BY Array DEF z_plane
<1>5. BufferSize(s, b, d, left) = h * (IF d = 1 THEN e2 * e3 ELSE IF d = 2 THEN n1 * e3
                                       ELSE n1 * n2)
  BY <1>2, <1>4 DEF BufferSize
<1>6. /\ d = 1 => SlabSize(s, b, d) = <<h, e2, e3>>
      /\ d = 2 => SlabSize(s, b, d) = <<n1, h, e3>>
      /\ d = 3 => SlabSize(s, b, d) = <<n1, n2, h>>
  BY DEF SlabSize, Wide
<1>7. n1 \in Nat /\ n2 \in Nat
  BY <1>2, <1>3
<1> HIDE DEF h, e1, e2, e3, n1, n2
<1>8. /\ d = 1 => Volume(SlabSize(s, b, d)) = h * e2 * e3
      /\ d = 2 => Volume(SlabSize(s, b, d)) = n1 * h * e3
      /\ d = 3 => Volume(SlabSize(s, b, d)) = n1 * n2 * h
  BY <1>6 DEF Volume
<1>9. h * e2 * e3 = h * (e2 * e3) /\ n1 * h * e3 = h * (n1 * e3) /\ n1 * n2 * h = h * (n1 * n2)
  BY <1>2, <1>3, <1>7
<1>10. d = 1 \/ d = 2 \/ d = 3
  BY DEF Dim
<1>11. QED
  BY <1>5, <1>8, <1>9, <1>10

-----------------------------------------------------------------------------
(***************************************************************************)
(* Blocks and their neighbours.                                             *)
(***************************************************************************)
\* The block next to b in dimension e, o steps away: they meet, or both are at
\* the ends of the domain.
Adjoins(s, e, b, n, o) ==
    /\ o = 0 => n.begin[e] = b.begin[e] /\ n.ext[e] = b.ext[e]
    /\ o = 1 => \/ b.begin[e] + b.ext[e] = n.begin[e]
                \/ b.begin[e] + b.ext[e] = GlobalDomain(s, e) /\ n.begin[e] = 0
    /\ o = -1 => \/ n.begin[e] + n.ext[e] = b.begin[e]
                 \/ n.begin[e] + n.ext[e] = GlobalDomain(s, e) /\ b.begin[e] = 0

LEMMA Block ==
  ASSUME NEW s \in Setups, NEW p \in ProcOf(s)
  PROVE  LET b == Blk[s][p]
         IN  /\ IsBlock(b)
             /\ \A d \in Dim : /\ GlobalDomain(s, d) \in Nat /\ b.begin[d] \in Nat
                               /\ b.ext[d] \in Nat
                               /\ b.begin[d] + b.ext[d] <= GlobalDomain(s, d)
                               /\ s.halo <= b.ext[d]
<1> DEFINE b == Blk[s][p]
           c == Coord(s, p[1], p[2])
<1>1. IsGrid(s) /\ \A d \in Dim : s.cells[d] \in Nat
  BY Setup
<1>2. p[1] \in Rank(s) /\ p[2] \in Tid(s) /\ p = <<p[1], p[2]>>
  BY DEF ProcOf
<1>3. b = Domain(s, p[1], p[2]) /\ b = BlockOf(s, p)
  BY DEF Blk, BlockOf
<1>4. c \in GlobalCoord(s)
  BY <1>1, <1>2, BlockOfOwner
<1>5. ASSUME NEW d \in Dim PROVE c[d] \in 0..(Blocks(s, d) - 1)
  BY <1>4 DEF GlobalCoord, Dim
<1>6. \A d \in Dim : b.begin[d] = DomainCoord(s, d)[c[d]] /\ b.ext[d] = DomainExt(s, d, c[d])
  BY <1>3 DEF Domain, DomainAt, Triple, Dim
<1>7. \A d \in Dim : s.halo <= b.ext[d]
  BY <1>3, HaloAssumption
<1> HIDE DEF b, c
<1>8. ASSUME NEW d \in Dim
      PROVE  /\ GlobalDomain(s, d) \in Nat /\ b.begin[d] \in Nat /\ b.ext[d] \in Nat
             /\ b.begin[d] + b.ext[d] <= GlobalDomain(s, d)
  <2>1. /\ GlobalDomain(s, d) \in Nat
        /\ DomainCoord(s, d)[c[d]] \in Nat /\ DomainExt(s, d, c[d]) \in Nat
        /\ DomainCoord(s, d)[c[d]] + DomainExt(s, d, c[d]) <= GlobalDomain(s, d)
    BY <1>1, <1>5, RowExtents
  <2>2. QED
    BY <1>6, <2>1
<1>9. QED
  BY <1>7, <1>8 DEF b, IsBlock

LEMMA Neighbours ==
  ASSUME NEW s \in Setups, NEW p \in ProcOf(s), NEW off, \A e \in Dim : off[e] \in {-1, 0, 1},
         NEW n, n = NeighborAt(s, p[1], p[2], off)
  PROVE  /\ <<n.rank, n.thread>> \in ProcOf(s)
         /\ Blk[s][<<n.rank, n.thread>>] = n
         /\ \A e \in Dim : Adjoins(s, e, Blk[s][p], n, off[e])
<1> DEFINE b == Blk[s][p]
           c == Coord(s, p[1], p[2])
           y(e) == Wrap(s, e, c[e] + off[e])
           to == <<y(1), y(2), y(3)>>
<1>1. IsGrid(s) /\ \A d \in Dim : s.cells[d] \in Nat
  BY Setup
<1>2. p[1] \in Rank(s) /\ p[2] \in Tid(s) /\ p = <<p[1], p[2]>>
  BY DEF ProcOf
<1>3. 1 \in Dim /\ 2 \in Dim /\ 3 \in Dim
  BY DEF Dim
<1>4. c \in GlobalCoord(s)
  BY <1>1, <1>2, BlockOfOwner
<1>5. ASSUME NEW d \in Dim PROVE c[d] \in 0..(Blocks(s, d) - 1)
  BY <1>4 DEF GlobalCoord, Dim
<1>6. \A d \in Dim : b.begin[d] = DomainCoord(s, d)[c[d]] /\ b.ext[d] = DomainExt(s, d, c[d])
  BY DEF Blk, BlockOf, Domain, DomainAt, Triple, Dim
<1>7. n = DomainAt(s, RankOf(s, to), ThreadOf(s, to), to)
  BY DEF NeighborAt, Triple
<1>8. \A d \in Dim : n.begin[d] = DomainCoord(s, d)[y(d)] /\ n.ext[d] = DomainExt(s, d, y(d))
  BY <1>7 DEF DomainAt, Triple, Dim
<1> HIDE DEF b, c
<1>9. ASSUME NEW e \in Dim PROVE Adjoins(s, e, b, n, off[e]) /\ y(e) \in 0..(Blocks(s, e) - 1)
  <2> DEFINE x == c[e]
             z == y(e)
  <2>1. x \in 0..(Blocks(s, e) - 1) /\ Blocks(s, e) \in Nat \ {0}
    BY <1>1, <1>5, Sizes
  <2>2. /\ b.begin[e] = DomainCoord(s, e)[x] /\ b.ext[e] = DomainExt(s, e, x)
        /\ n.begin[e] = DomainCoord(s, e)[z] /\ n.ext[e] = DomainExt(s, e, z)
        /\ z = Wrap(s, e, x + off[e])
    BY <1>6, <1>8
  <2> HIDE DEF x, y, z
  <2>3. CASE off[e] = 0
    <3>1. z = x
      BY <2>1, <2>2, <2>3 DEF Wrap
    <3>2. QED
      BY <2>1, <2>2, <2>3, <3>1 DEF Adjoins, z
  <2>4. CASE off[e] = 1
    <3>1. z = Wrap(s, e, x + 1)
      BY <2>2, <2>4
    <3>2. /\ z \in 0..(Blocks(s, e) - 1)
          /\ \/ DomainCoord(s, e)[x] + DomainExt(s, e, x) = DomainCoord(s, e)[z]
             \/ /\ DomainCoord(s, e)[x] + DomainExt(s, e, x) = GlobalDomain(s, e)
                /\ DomainCoord(s, e)[z] = 0
      BY <1>1, <2>1, <3>1, RowExtents
    <3>3. QED
      BY <2>2, <2>4, <3>2 DEF Adjoins, z
  <2>5. CASE off[e] = -1
    <3>1. z = Wrap(s, e, x - 1)
      BY <2>1, <2>2, <2>5
    <3>2. /\ z \in 0..(Blocks(s, e) - 1)
          /\ \/ DomainCoord(s, e)[z] + DomainExt(s, e, z) = DomainCoord(s, e)[x]
             \/ /\ DomainCoord(s, e)[z] + DomainExt(s, e, z) = GlobalDomain(s, e)
                /\ DomainCoord(s, e)[x] = 0
      BY <1>1, <2>1, <3>1, RowExtents
    <3>3. QED
      BY <2>2, <2>5, <3>2 DEF Adjoins, z
  <2>6. QED
    BY <2>3, <2>4, <2>5
<1> HIDE DEF y
<1>10. to \in GlobalCoord(s)
  BY <1>3, <1>9 DEF GlobalCoord
<1> HIDE DEF to
<1>11. /\ RankOf(s, to) \in Rank(s) /\ ThreadOf(s, to) \in Tid(s)
       /\ Coord(s, RankOf(s, to), ThreadOf(s, to)) = to
  BY <1>1, <1>10, BlockOwner
<1>12. n.rank = RankOf(s, to) /\ n.thread = ThreadOf(s, to)
  BY <1>7 DEF DomainAt
<1>13. <<n.rank, n.thread>> \in ProcOf(s)
  BY <1>11, <1>12 DEF ProcOf
<1>14. Blk[s][<<n.rank, n.thread>>] = Domain(s, n.rank, n.thread)
  BY <1>13 DEF Blk, BlockOf
<1>15. Domain(s, n.rank, n.thread) = n
  BY <1>7, <1>11, <1>12 DEF Domain
<1>16. QED
  BY <1>9, <1>13, <1>14, <1>15 DEF b

\* Whose message it is that fills the halo of q on one side.
From(s, q, w) == LET n == Source(Neighbors[s][q], w[1], w[2]) IN <<n.rank, n.thread>>

LEMMA FromIs ==
  ASSUME NEW s \in Setups, NEW q \in ProcOf(s), NEW d \in Dim, NEW left \in BOOLEAN
  PROVE  LET p == From(s, q, <<d, left>>)
         IN  /\ p \in ProcOf(s)
             /\ \A e \in Dim : Adjoins(s, e, Blk[s][q], Blk[s][p],
                                       IF e # d THEN 0 ELSE IF left THEN 1 ELSE -1)
<1> DEFINE way == IF left THEN 1 ELSE -1
           off == OneStep(d, way)
           n == NeighborAt(s, q[1], q[2], off)
<1>1. \A e \in Dim : off[e] = IF e # d THEN 0 ELSE way
  BY DEF OneStep, Triple, Dim
<1>2. Source(Neighbors[s][q], d, left) = n
  BY DEF Source, Neighbors, Neighborhood, Neighbor, Triple, Dim
<1>3. From(s, q, <<d, left>>) = <<n.rank, n.thread>>
  BY <1>2 DEF From
<1> HIDE DEF n, off
<1>4. \A e \in Dim : off[e] \in {-1, 0, 1}
  BY <1>1
<1>5. /\ <<n.rank, n.thread>> \in ProcOf(s)
      /\ Blk[s][<<n.rank, n.thread>>] = n
      /\ \A e \in Dim : Adjoins(s, e, Blk[s][q], n, off[e])
  BY <1>4, Neighbours DEF n
<1>6. QED
  BY <1>1, <1>3, <1>5

-----------------------------------------------------------------------------
(***************************************************************************)
(* What a message holds is what belongs where it goes.                       *)
(***************************************************************************)
\* The cells that are right before dimension d is exchanged: those within the
\* interior in d and in the dimensions to come.
KnownCells(s, p, d) ==
    {i \in 0..(Size[s][p] - 1) :
       \A e \in Dim : e >= d => CellAt(ext_buffer(s, Blk[s][p]), i)[e]
                                  \in s.halo..(s.halo + Blk[s][p].ext[e] - 1)}

LEMMA SizeIs ==
  ASSUME NEW s \in Setups, NEW p \in ProcOf(s)
  PROVE  Size[s][p] = Volume(ext_buffer(s, Blk[s][p])) /\ Size[s][p] \in Nat
<1>1. IsBlock(Blk[s][p])
  BY Block
<1>2. QED
  BY <1>1, Array DEF Size

LEMMA ReferenceIs ==
  ASSUME NEW s \in Setups, NEW p \in ProcOf(s), NEW i \in 0..(Size[s][p] - 1),
         NEW c, c = CellAt(ext_buffer(s, Blk[s][p]), i), NEW b, b = Blk[s][p]
  PROVE  Reference[s][p][i]
           = Value(s, <<(b.begin[1] + (c[1] - s.halo)) % GlobalDomain(s, 1),
                        (b.begin[2] + (c[2] - s.halo)) % GlobalDomain(s, 2),
                        (b.begin[3] + (c[3] - s.halo)) % GlobalDomain(s, 3)>>)
<1>1. HaloL(s, 1) = s.halo /\ HaloL(s, 2) = s.halo /\ HaloL(s, 3) = s.halo
  BY Setup DEF Dim
<1> DEFINE a == PlaceInBlock(s, p, i)
           value(j) == LET z == PlaceInBlock(s, p, j)
                       IN  Value(s, Triple(LAMBDA d : (Blk[s][p].begin[d] + z[d])
                                                        % GlobalDomain(s, d)))
<1>2. a = <<c[1] - s.halo, c[2] - s.halo, c[3] - s.halo>>
  BY <1>1 DEF PlaceInBlock, Triple
<1>3. Reference[s][p] = [j \in 0..(Size[s][p] - 1) |-> value(j)]
  BY DEF Reference
<1>4. Reference[s][p][i] = value(i)
  <2> HIDE DEF value
  <2>1. QED
    BY <1>3
<1>5. value(i) = Value(s, <<(b.begin[1] + a[1]) % GlobalDomain(s, 1),
                            (b.begin[2] + a[2]) % GlobalDomain(s, 2),
                            (b.begin[3] + a[3]) % GlobalDomain(s, 3)>>)
  BY DEF Triple
<1>6. a[1] = c[1] - s.halo /\ a[2] = c[2] - s.halo /\ a[3] = c[3] - s.halo
  BY <1>2
<1> HIDE DEF a, value
<1>7. QED
  BY <1>4, <1>5, <1>6

\* Once around the domain is where one was.
LEMMA ModAround ==
  ASSUME NEW n \in Nat \ {0}, NEW a \in Int
  PROVE  (n + a) % n = a % n
<1> DEFINE q == a \div n
           r == a % n
<1>1. q \in Int /\ r \in 0..(n - 1) /\ a = n * q + r
  BY DivMod
<1> HIDE DEF q, r
<1>2. n + a = r + n * (q + 1) /\ q + 1 \in Int
  BY <1>1
<1>3. (r + n * (q + 1)) % n = r
  BY <1>1, <1>2, DivModOf
<1>4. QED
  BY <1>2, <1>3 DEF r

\* What the lists of cells are, with every backend.
LEMMA ListsAre ==
  ASSUME NEW s \in Setups, NEW p \in ProcOf(s), NEW d \in Dim, NEW left \in BOOLEAN
  PROVE  LET b == Blk[s][p]
             w == <<d, left>>
         IN  /\ Out[s][p][w] = SlabCells(s, b, d, OutAt(s, b, d, left))
             /\ In[s][p][w] = SlabCells(s, b, d, InAt(s, b, d, left))
<1> DEFINE b == Blk[s][p]
           w == <<d, left>>
<1>1. IsBlock(b) /\ w \in Way
  BY Block DEF Way
<1>2. Out[s][p][w] = SendCells(s, b, w) /\ In[s][p][w] = RecvCells(s, b, w)
  BY <1>1 DEF Out, In
<1>3. QED
  BY <1>1, <1>2, CellsAre

\* How long messages are.
LEMMA Lists ==
  ASSUME NEW s \in Setups, NEW p \in ProcOf(s), NEW d \in Dim, NEW left \in BOOLEAN
  PROVE  LET n == Volume(SlabSize(s, Blk[s][p], d))
         IN  /\ n \in Nat
             /\ Out[s][p][<<d, left>>] \in [1..n -> 0..(Size[s][p] - 1)]
             /\ In[s][p][<<d, left>>] \in [1..n -> 0..(Size[s][p] - 1)]
<1> DEFINE b == Blk[s][p]
           n == Volume(SlabSize(s, b, d))
           O == OutAt(s, b, d, left)
           I == InAt(s, b, d, left)
<1>1. /\ IsBlock(b) /\ b.ext[d] \in Nat /\ s.halo <= b.ext[d] /\ s.halo \in Nat
  BY Block, Setup
<1>2. /\ O \in Nat /\ O <= b.ext[d] + s.halo
      /\ I \in Nat /\ I <= b.ext[d] + s.halo
  BY <1>1 DEF OutAt, InAt
<1>3. n \in Nat
  BY <1>1, SlabVolume
<1>4. Size[s][p] = Volume(ext_buffer(s, b))
  BY SizeIs
<1>5. /\ Out[s][p][<<d, left>>] = SlabCells(s, b, d, O)
      /\ In[s][p][<<d, left>>] = SlabCells(s, b, d, I)
  BY ListsAre
<1> HIDE DEF b, O, I
<1>6. ASSUME NEW x \in {O, I}
      PROVE  SlabCells(s, b, d, x) \in [1..n -> 0..(Size[s][p] - 1)]
  <2>1. x \in Nat /\ x <= b.ext[d] + s.halo
    BY <1>2
  <2>2. \A k \in 1..n : SlabCells(s, b, d, x)[k] \in 0..(Size[s][p] - 1)
    BY <1>1, <1>4, <2>1, SlabCell
  <2>3. QED
    BY <2>2, SlabIsList
<1>7. QED
  BY <1>3, <1>5, <1>6 DEF b

\* Only known cells are sent.
LEMMA OutKnown ==
  ASSUME NEW s \in Setups, NEW p \in ProcOf(s), NEW d \in Dim, NEW left \in BOOLEAN,
         NEW k \in DOMAIN Out[s][p][<<d, left>>]
  PROVE  Out[s][p][<<d, left>>][k] \in KnownCells(s, p, d)
<1> DEFINE b == Blk[s][p]
           o == OutAt(s, b, d, left)
           size == SlabSize(s, b, d)
           c == CellAt(size, k - 1)
           n == ext_buffer(s, b)
           out == SlabCells(s, b, d, o)[k]
           h == s.halo
<1>1. IsBlock(b) /\ h \in Nat /\ \A e \in Dim : b.ext[e] \in Nat /\ h <= b.ext[e]
  BY Block, Setup
<1>2. /\ DOMAIN Out[s][p][<<d, left>>] = 1..Volume(size)
      /\ Out[s][p][<<d, left>>][k] = out
  BY Lists, ListsAre
<1>3. o \in Nat /\ o >= h /\ o <= b.ext[d]
  BY <1>1 DEF OutAt
<1>4. Size[s][p] = Volume(n)
  BY SizeIs
<1>5. k \in 1..Volume(size)
  BY <1>2
<1> HIDE DEF b, o, h
<1>6. /\ c \in Box(size) /\ out \in 0..(Volume(n) - 1)
      /\ CellAt(n, out) = <<Lo(s, d, o, 1) + c[1], Lo(s, d, o, 2) + c[2], Lo(s, d, o, 3) + c[3]>>
  <2>1. o <= b.ext[d] + s.halo
    BY <1>1, <1>3 DEF h
  <2>2. QED
    BY <1>1, <1>3, <1>5, <2>1, SlabCell
<1> HIDE DEF out
<1>7. IsSize(size) /\ \A e \in Dim : size[e] = Wide(s, b, d, e) /\ Wide(s, b, d, e) \in Nat
  BY <1>1, SlabVolume
<1> HIDE DEF size, c, n
<1>8. ASSUME NEW e \in Dim
      PROVE  c[e] \in 0..(Wide(s, b, d, e) - 1) /\ CellAt(n, out)[e] = Lo(s, d, o, e) + c[e]
  BY <1>6, <1>7 DEF Box, Dim
<1>9. ASSUME NEW e \in Dim, e >= d
      PROVE  CellAt(n, out)[e] \in h..(h + b.ext[e] - 1)
  <2>1. CASE e = d
    <3>1. Wide(s, b, d, e) = h /\ Lo(s, d, o, e) = o
      BY <2>1 DEF Wide, Lo, h
    <3>2. c[e] \in 0..(h - 1)
      BY <1>8, <3>1
    <3>3. QED
      BY <1>1, <1>3, <1>8, <2>1, <3>1, <3>2
  <2>2. CASE e # d
    <3>1. ~(e < d)
      BY <1>9 DEF Dim
    <3>2. Wide(s, b, d, e) = b.ext[e] /\ Lo(s, d, o, e) = h
      BY <2>2, <3>1 DEF Wide, Lo, h
    <3>3. c[e] \in 0..(b.ext[e] - 1)
      BY <1>8, <3>2
    <3>4. QED
      BY <1>1, <1>8, <3>2, <3>3
  <2>3. QED
    BY <2>1, <2>2
<1>10. out \in KnownCells(s, p, d)
  BY <1>4, <1>6, <1>9 DEF KnownCells, n, b, h
<1>11. QED
  BY <1>2, <1>10

\* A message is as long at both ends.
LEMMA SameSize ==
  ASSUME NEW s \in Setups, NEW q \in ProcOf(s), NEW d \in Dim, NEW left \in BOOLEAN,
         NEW p, p = From(s, q, <<d, left>>)
  PROVE  SlabSize(s, Blk[s][p], d) = SlabSize(s, Blk[s][q], d)
<1>1. \A e \in Dim : e # d => Blk[s][p].ext[e] = Blk[s][q].ext[e]
  BY FromIs DEF Adjoins
<1>2. QED
  BY <1>1 DEF SlabSize, Wide, Dim

\* One cell of a message: what is sent belongs where it goes.
LEMMA MessageCell ==
  ASSUME NEW s \in Setups, NEW q \in ProcOf(s), NEW d \in Dim, NEW left \in BOOLEAN,
         NEW p, p = From(s, q, <<d, left>>), NEW k \in 1..Volume(SlabSize(s, Blk[s][q], d))
  PROVE  Reference[s][p][Out[s][p][<<d, left>>][k]] = Reference[s][q][In[s][q][<<d, left>>][k]]
<1> DEFINE bq == Blk[s][q]
           bp == Blk[s][p]
           o == OutAt(s, bp, d, left)
           i == InAt(s, bq, d, left)
           size == SlabSize(s, bq, d)
           c == CellAt(size, k - 1)
           nq == ext_buffer(s, bq)
           np == ext_buffer(s, bp)
           out == SlabCells(s, bp, d, o)[k]
           in == SlabCells(s, bq, d, i)[k]
           h == s.halo
           G(e) == GlobalDomain(s, e)
<1>1. p \in ProcOf(s)
  BY FromIs
<1>2. \A e \in Dim : Adjoins(s, e, bq, bp, IF e # d THEN 0 ELSE IF left THEN 1 ELSE -1)
  BY FromIs
<1>3. IsBlock(bq) /\ \A e \in Dim : /\ G(e) \in Nat /\ bq.begin[e] \in Nat /\ bq.ext[e] \in Nat
                                    /\ bq.begin[e] + bq.ext[e] <= G(e) /\ h <= bq.ext[e]
  BY Block
<1>4. IsBlock(bp) /\ \A e \in Dim : /\ bp.begin[e] \in Nat /\ bp.ext[e] \in Nat
                                    /\ bp.begin[e] + bp.ext[e] <= G(e) /\ h <= bp.ext[e]
  BY <1>1, Block
<1>5. h \in Nat
  BY Setup
<1>6. Out[s][p][<<d, left>>][k] = out /\ In[s][q][<<d, left>>][k] = in
  BY <1>1, ListsAre
<1>7. 1 \in Dim /\ 2 \in Dim /\ 3 \in Dim
  BY DEF Dim
<1>8. Size[s][p] = Volume(np) /\ Size[s][q] = Volume(nq)
  BY <1>1, SizeIs
<1>9. \A e \in Dim : e # d => bp.begin[e] = bq.begin[e] /\ bp.ext[e] = bq.ext[e]
  BY <1>2 DEF Adjoins
<1>10. SlabSize(s, bp, d) = size
  BY SameSize
<1>11. /\ o \in Nat /\ o <= bp.ext[d] + h /\ o >= h
       /\ o + h <= bp.ext[d] + h
       /\ i \in Nat /\ i <= bq.ext[d] + h
  BY <1>3, <1>4, <1>5 DEF OutAt, InAt
<1> HIDE DEF bq, bp, o, i, h, G
<1>12. /\ c \in Box(size) /\ in \in 0..(Volume(nq) - 1)
       /\ CellAt(nq, in) = <<Lo(s, d, i, 1) + c[1], Lo(s, d, i, 2) + c[2], Lo(s, d, i, 3) + c[3]>>
  BY <1>3, <1>11, SlabCell DEF bq, h
<1>13. /\ out \in 0..(Volume(np) - 1)
       /\ CellAt(np, out) = <<Lo(s, d, o, 1) + c[1], Lo(s, d, o, 2) + c[2], Lo(s, d, o, 3) + c[3]>>
  <2>1. k \in 1..Volume(SlabSize(s, bp, d)) /\ CellAt(SlabSize(s, bp, d), k - 1) = c
    BY <1>10 DEF bq
  <2>2. /\ SlabCells(s, bp, d, o)[k] \in 0..(Volume(np) - 1)
        /\ CellAt(np, SlabCells(s, bp, d, o)[k])
             = LET a == CellAt(SlabSize(s, bp, d), k - 1)
               IN <<Lo(s, d, o, 1) + a[1], Lo(s, d, o, 2) + a[2], Lo(s, d, o, 3) + a[3]>>
    <3> HIDE DEF c, np, out
    <3>1. QED
      BY <1>4, <1>11, <2>1, SlabCell DEF h, np
  <2>3. QED
    BY <2>1, <2>2
<1> HIDE DEF out, in
<1>14. ASSUME NEW e \in Dim
       PROVE  c[e] \in 0..(Wide(s, bq, d, e) - 1) /\ Wide(s, bq, d, e) \in Nat
  <2>1. IsSize(size) /\ size[e] = Wide(s, bq, d, e) /\ Wide(s, bq, d, e) \in Nat
    BY <1>3, SlabVolume
  <2> HIDE DEF size, c
  <2>2. c[e] \in 0..(size[e] - 1)
    BY <1>12 DEF Box, Dim
  <2>3. QED
    BY <2>1, <2>2
<1> HIDE DEF c, size, np, nq
<1>15. ASSUME NEW e \in Dim
       PROVE  /\ CellAt(np, out)[e] = Lo(s, d, o, e) + c[e]
              /\ CellAt(nq, in)[e] = Lo(s, d, i, e) + c[e]
  BY <1>12, <1>13 DEF Dim
<1>16. ASSUME NEW e \in Dim
       PROVE  (bp.begin[e] + (CellAt(np, out)[e] - h)) % G(e)
                = (bq.begin[e] + (CellAt(nq, in)[e] - h)) % G(e)
  <2>1. CASE e # d
    <3>1. Lo(s, d, o, e) = Lo(s, d, i, e) /\ bp.begin[e] = bq.begin[e]
      BY <1>9, <2>1 DEF Lo
    <3>2. QED
      BY <1>15, <3>1
  <2>2. CASE e = d
    <3>1. Wide(s, bq, d, e) = h /\ Lo(s, d, o, e) = o /\ Lo(s, d, i, e) = i
      BY <2>2 DEF Wide, Lo, h
    <3>2. c[e] \in 0..(h - 1)
      BY <1>14, <3>1
    <3> DEFINE a == c[e]
               xp == bp.begin[e] + (o + a - h)
               xq == bq.begin[e] + (i + a - h)
    <3>3. a \in Nat /\ a < h /\ h \in Nat /\ h <= bq.ext[e]
      BY <1>3, <1>5, <3>2
    <3>4. G(e) \in Nat \ {0}
      BY <1>3, <3>3
    <3>5. xp \in Int /\ xq \in Int /\ (xp = xq \/ xq = G(e) + xp \/ xp = G(e) + xq)
      <4>1. CASE left
        <5>1. o = h /\ i = h + bq.ext[e]
          BY <2>2, <4>1 DEF OutAt, InAt, o, i, h
        <5>2. \/ bq.begin[e] + bq.ext[e] = bp.begin[e]
              \/ bq.begin[e] + bq.ext[e] = G(e) /\ bp.begin[e] = 0
          BY <1>2, <2>2, <4>1 DEF Adjoins, G, bq, bp
        <5>3. QED
          BY <1>3, <1>4, <3>3, <5>1, <5>2
      <4>2. CASE ~left
        <5>1. o = bp.ext[e] /\ i = 0
          BY <2>2, <4>2 DEF OutAt, InAt, o, i, h
        <5>2. \/ bp.begin[e] + bp.ext[e] = bq.begin[e]
              \/ bp.begin[e] + bp.ext[e] = G(e) /\ bq.begin[e] = 0
          BY <1>2, <2>2, <4>2 DEF Adjoins, G, bq, bp
        <5>3. QED
          BY <1>3, <1>4, <3>3, <5>1, <5>2
      <4>3. QED
        BY <4>1, <4>2
    <3>6. xp % G(e) = xq % G(e)
      <4> HIDE DEF xp, xq
      <4>1. QED
        BY <3>4, <3>5, ModAround
    <3>7. CellAt(np, out)[e] = o + a /\ CellAt(nq, in)[e] = i + a
      BY <1>15, <3>1
    <3>8. QED
      <4> DEFINE ap == CellAt(np, out)[e]
                 aq == CellAt(nq, in)[e]
      <4>1. ap = o + a /\ aq = i + a
        BY <3>7
      <4> HIDE DEF ap, aq, a
      <4>2. bp.begin[e] + (ap - h) = xp /\ bq.begin[e] + (aq - h) = xq
        BY <1>3, <1>4, <1>11, <3>3, <4>1
      <4> HIDE DEF xp, xq
      <4>3. QED
        BY <3>6, <4>2 DEF ap, aq
  <2>3. QED
    BY <2>1, <2>2
<1>17. Reference[s][p][out] = Reference[s][q][in]
  <2> DEFINE cp == CellAt(np, out)
             cq == CellAt(nq, in)
             xp(e) == (bp.begin[e] + (cp[e] - h)) % G(e)
             xq(e) == (bq.begin[e] + (cq[e] - h)) % G(e)
  <2>1. Reference[s][p][out] = Value(s, <<xp(1), xp(2), xp(3)>>)
    BY <1>1, <1>8, <1>13, ReferenceIs DEF np, bp, h, G
  <2>2. Reference[s][q][in] = Value(s, <<xq(1), xq(2), xq(3)>>)
    BY <1>8, <1>12, ReferenceIs DEF nq, bq, h, G
  <2>3. xp(1) = xq(1) /\ xp(2) = xq(2) /\ xp(3) = xq(3)
    BY <1>7, <1>16
  <2> HIDE DEF xp, xq
  <2>4. QED
    BY <2>1, <2>2, <2>3
<1>18. QED
  BY <1>6, <1>17

\* The cell i of q is one that a message in dimension d fills.
Reached(s, q, d, i) ==
    \E left \in BOOLEAN : \E k \in DOMAIN In[s][q][<<d, left>>] : In[s][q][<<d, left>>][k] = i

\* With the two messages of dimension d the halos in d become known.
LEMMA KnownNext ==
  ASSUME NEW s \in Setups, NEW q \in ProcOf(s), NEW d \in Dim, NEW i \in KnownCells(s, q, d + 1)
  PROVE  i \in KnownCells(s, q, d) \/ Reached(s, q, d, i)
<1> DEFINE b == Blk[s][q]
           n == ext_buffer(s, b)
           c == CellAt(n, i)
           h == s.halo
<1>1. IsBlock(b) /\ h \in Nat /\ \A e \in Dim : b.ext[e] \in Nat
  BY Block, Setup
<1>2. IsSize(n) /\ \A e \in Dim : n[e] = b.ext[e] + h + h
  BY <1>1, Array DEF Dim
<1>3. i \in 0..(Volume(n) - 1) /\ i \in 0..(Size[s][q] - 1)
  BY SizeIs DEF KnownCells
<1>4. c \in Box(n)
  BY <1>2, <1>3, CellOfIndex
<1>5. \A e \in Dim : c[e] \in 0..(n[e] - 1)
  <2> HIDE DEF c, n
  <2>1. QED
    BY <1>4 DEF Box, Dim
<1>6. \A e \in Dim : e >= d + 1 => c[e] \in h..(h + b.ext[e] - 1)
  BY DEF KnownCells
<1>7. i \in KnownCells(s, q, d) <=> \A e \in Dim : e >= d => c[e] \in h..(h + b.ext[e] - 1)
  BY <1>3 DEF KnownCells
<1> HIDE DEF b, n, c, h
<1>8. CASE c[d] \in h..(h + b.ext[d] - 1)
  <2>1. \A e \in Dim : e >= d => e = d \/ e >= d + 1
    BY DEF Dim
  <2>2. QED
    BY <1>6, <1>7, <1>8, <2>1
<1>9. CASE c[d] \notin h..(h + b.ext[d] - 1)
  <2> DEFINE lo(left) == IF left THEN h + b.ext[d] ELSE 0
             side(left) == lo(left) <= c[d] /\ c[d] < lo(left) + h
  <2>1. side(TRUE) \/ side(FALSE)
    <3>1. c[d] \in Int /\ 0 <= c[d] /\ c[d] <= b.ext[d] + h + h - 1 /\ b.ext[d] \in Nat
      BY <1>1, <1>2, <1>5
    <3>2. CASE c[d] < h
      BY <1>1, <3>1, <3>2
    <3>3. CASE c[d] >= h
      <4>1. c[d] >= h + b.ext[d]
        BY <1>1, <1>9, <3>1, <3>3
      <4>2. QED
        BY <1>1, <3>1, <4>1
    <3>4. QED
      BY <1>1, <3>1, <3>2, <3>3
  <2>2. PICK left \in BOOLEAN : side(left)
    <3> HIDE DEF side
    <3>1. QED
      BY <2>1
  <2> DEFINE x == InAt(s, b, d, left)
  <2>3. x \in Nat /\ x = lo(left)
    BY <1>1 DEF InAt, h
  <2> HIDE DEF x
  <2>4. ASSUME NEW e \in Dim
        PROVE  Lo(s, d, x, e) <= c[e] /\ c[e] < Lo(s, d, x, e) + Wide(s, b, d, e)
    <3>1. CASE e = d
      BY <2>2, <2>3, <3>1 DEF Lo, Wide, h
    <3>2. CASE e < d
      <4>1. Lo(s, d, x, e) = 0 /\ Wide(s, b, d, e) = n[e]
        BY <1>2, <3>2 DEF Lo, Wide, h, Dim
      <4>2. n[e] \in Nat
        BY <1>1, <1>2
      <4>3. QED
        BY <1>5, <4>1, <4>2
    <3>3. CASE e > d
      <4>1. Lo(s, d, x, e) = h /\ Wide(s, b, d, e) = b.ext[e] /\ e >= d + 1
        BY <3>3 DEF Lo, Wide, h, Dim
      <4>2. QED
        BY <1>1, <1>6, <4>1
    <3>4. QED
      BY <3>1, <3>2, <3>3 DEF Dim
  <2>5. x <= b.ext[d] + h
    BY <1>1 DEF InAt, x, h
  <2>6. \E k \in 1..Volume(SlabSize(s, b, d)) : SlabCells(s, b, d, x)[k] = i
    BY <1>1, <1>3, <2>3, <2>4, SlabReached DEF c, n
  <2>7. /\ In[s][q][<<d, left>>] = SlabCells(s, b, d, x)
        /\ DOMAIN In[s][q][<<d, left>>] = 1..Volume(SlabSize(s, b, d))
    BY Lists, ListsAre DEF b, x
  <2>8. QED
    BY <2>6, <2>7 DEF Reached
<1>10. QED
  BY <1>8, <1>9

\* After the last dimension all is known.
LEMMA KnownAtEnd ==
  ASSUME NEW s \in Setups, NEW p \in ProcOf(s)
  PROVE  KnownCells(s, p, 4) = 0..(Size[s][p] - 1)
BY DEF KnownCells, Dim

\* And before the first one the interior, as it is made.
LEMMA KnownAtStart ==
  ASSUME NEW s \in Setups, NEW p \in ProcOf(s), NEW i \in KnownCells(s, p, 1)
  PROVE  make_fields(s, p)[i] = Reference[s][p][i]
<1> DEFINE b == Blk[s][p]
           c == CellAt(ext_buffer(s, b), i)
           h == s.halo
           a(d) == b.begin[d] + (c[d] - h)
           G(d) == GlobalDomain(s, d)
           z == PlaceInBlock(s, p, i)
           value(j) == LET y == PlaceInBlock(s, p, j)
                       IN  IF \A d \in Dim : y[d] \in 0..(b.ext[d] - 1)
                           THEN Value(s, Triple(LAMBDA d : b.begin[d] + y[d])) ELSE 0
<1>1. 1 \in Dim /\ 2 \in Dim /\ 3 \in Dim
  BY DEF Dim
<1>2. h \in Nat /\ \A d \in Dim : HaloL(s, d) = h
  BY Setup
<1>3. \A d \in Dim : /\ G(d) \in Nat /\ b.begin[d] \in Nat /\ b.ext[d] \in Nat
                     /\ b.begin[d] + b.ext[d] <= G(d)
  BY Block
<1>4. i \in 0..(Size[s][p] - 1) /\ \A d \in Dim : c[d] \in h..(h + b.ext[d] - 1)
  BY DEF KnownCells, Dim
<1>5. z = <<c[1] - h, c[2] - h, c[3] - h>>
  BY <1>1, <1>2 DEF PlaceInBlock, Triple
<1>6. make_fields(s, p) = [j \in 0..(Size[s][p] - 1) |-> value(j)]
  BY DEF make_fields
<1>7. make_fields(s, p)[i] = value(i)
  <2> HIDE DEF value
  <2>1. QED
    BY <1>4, <1>6
<1>8. Reference[s][p][i] = Value(s, <<a(1) % G(1), a(2) % G(2), a(3) % G(3)>>)
  BY <1>4, ReferenceIs
<1>9. value(i) = IF \A d \in Dim : z[d] \in 0..(b.ext[d] - 1)
                 THEN Value(s, <<b.begin[1] + z[1], b.begin[2] + z[2], b.begin[3] + z[3]>>)
                 ELSE 0
  BY DEF Triple
<1> HIDE DEF b, c, h, G, z, value
<1>10. \A d \in Dim : z[d] = c[d] - h
  BY <1>5 DEF Dim
<1>11. ASSUME NEW d \in Dim
       PROVE  z[d] \in 0..(b.ext[d] - 1) /\ b.begin[d] + z[d] = a(d) /\ a(d) % G(d) = a(d)
  <2>1. c[d] \in h..(h + b.ext[d] - 1) /\ b.ext[d] \in Nat /\ b.begin[d] \in Nat /\ G(d) \in Nat
        /\ b.begin[d] + b.ext[d] <= G(d)
    BY <1>3, <1>4
  <2>2. a(d) \in 0..(G(d) - 1) /\ G(d) \in Nat \ {0}
    BY <1>2, <2>1
  <2>3. (a(d) + G(d) * 0) % G(d) = a(d)
    <3> HIDE DEF a
    <3>1. QED
      BY <2>2, DivModOf
  <2>4. a(d) + G(d) * 0 = a(d)
    BY <2>2
  <2>5. QED
    BY <1>2, <1>10, <2>1, <2>3, <2>4
<1> HIDE DEF a
<1>12. QED
  BY <1>1, <1>7, <1>8, <1>9, <1>11

\* Buffers are as long as messages, where there are buffers.
LEMMA LengthIs ==
  ASSUME NEW s \in Setups, NEW p \in ProcOf(s), NEW d \in Dim, NEW left \in BOOLEAN
  PROVE  Length[s][p][<<d, left>>]
           = IF IsDirect(s, d) THEN 0 ELSE Volume(SlabSize(s, Blk[s][p], d))
<1> DEFINE b == Blk[s][p]
           w == <<d, left>>
           n == Volume(SlabSize(s, b, d))
<1>1. w \in Way /\ w[1] = d /\ w[2] = left
  BY DEF Way
<1>2. Len(Out[s][p][w]) = n
  <2>1. Out[s][p][w] \in [1..n -> 0..(Size[s][p] - 1)] /\ n \in Nat
    BY Lists
  <2> HIDE DEF n
  <2>2. QED
    BY <2>1
<1>3. BufferSize(s, b, d, left) = n
  BY Block, BufferSizeIs
<1>4. Length[s][p][w] = IF IsDirect(s, d) THEN 0
                        ELSE CASE s.backend = "tausch" -> Len(Out[s][p][w])
                               [] Oomph(s) -> OomphBufferSize(s, b, d, left)
                               [] OTHER -> BufferSize(s, b, d, left)
  BY <1>1 DEF Length
<1> HIDE DEF w, n, b
<1>5. ~(IsDirect(s, d) /\ s.backend = "tausch") /\ ~(Oomph(s) /\ s.backend = "tausch")
  BY DEF IsDirect, Oomph
<1>6. OomphBufferSize(s, b, d, left) = n
  BY <1>3 DEF OomphBufferSize
<1>7. Length[s][p][w] = IF IsDirect(s, d) THEN 0 ELSE n
  <2>1. CASE IsDirect(s, d)
    BY <1>4, <2>1
  <2>2. CASE s.backend = "tausch"
    BY <1>2, <1>4, <1>5, <2>2
  <2>3. CASE ~IsDirect(s, d) /\ s.backend # "tausch"
    BY <1>3, <1>4, <1>6, <2>3
  <2>4. QED
    BY <2>1, <2>2, <2>3
<1>8. QED
  BY <1>7 DEF w, n, b

-----------------------------------------------------------------------------
(***************************************************************************)
(* The CUDA kernels have a thread for every cell of a message.               *)
(***************************************************************************)
\* Rounded down to whole ks.
LEMMA RoundDown ==
  ASSUME NEW a \in Nat, NEW k \in Nat \ {0}
  PROVE  (a \div k) * k \in Nat /\ (a \div k) * k <= a /\ k * (a \div k) = (a \div k) * k
<1> DEFINE q == a \div k
           r == a % k
<1>1. q \in Int /\ r \in 0..(k - 1) /\ a = k * q + r
  BY DivMod
<1>2. q \in Nat
  OBVIOUS
<1> HIDE DEF q, r
<1>3. QED
  BY <1>1, <1>2 DEF q

\* Rounded up.
LEMMA RoundUp ==
  ASSUME NEW a \in Nat, NEW k \in Nat \ {0}
  PROVE  CeilDiv(a, k) * k \in Nat /\ a <= CeilDiv(a, k) * k
<1> DEFINE m == a + k - 1
           q == m \div k
           r == m % k
<1>1. m \in Nat
  OBVIOUS
<1>2. q \in Int /\ r \in 0..(k - 1) /\ m = k * q + r
  <2> HIDE DEF m
  <2>1. QED
    BY <1>1, DivMod
<1>3. CeilDiv(a, k) = q
  BY DEF CeilDiv
<1>4. k * q = q * k /\ q * k \in Int
  <2> HIDE DEF q
  <2>1. QED
    BY <1>2
<1> HIDE DEF q, r
<1>5. QED
  BY <1>2, <1>3, <1>4

\* What is no more than m goes into m at least once.
LEMMA AtLeastOnce ==
  ASSUME NEW m \in Nat, NEW k \in Nat \ {0}, k <= m
  PROVE  m \div k \in Nat \ {0}
<1> DEFINE q == m \div k
           r == m % k
<1>1. q \in Int /\ r \in 0..(k - 1) /\ m = k * q + r
  BY DivMod
<1>2. q \in Nat
  OBVIOUS
<1> HIDE DEF q, r
<1>3. q # 0
  BY <1>1
<1>4. QED
  BY <1>2, <1>3 DEF q

LEMMA DimsPositive ==
  ASSUME NEW s \in Setups, NEW b, IsBlock(b), Launchable(s, b), NEW d \in Dim, NEW e \in Dim
  PROVE  /\ s.halo \in Nat \ {0}
         /\ Dims(s, b, d)[e] \in Nat \ {0}
         /\ Dims(s, b, d)[d] = s.halo + s.halo
<1> DEFINE both == HaloL(s, d) + HaloR(s, d)
           each == MaxThreads \div both
           n == IF d = 1 THEN b.ext[2] ELSE ext_buffer(s, b)[1]
           most == Least(n, each)
           wt == WarpThreads(s, b, d)
           rest == MaxThreads \div (both * wt)
           third == IF d = 3 THEN Least(rest, ext_buffer(s, b)[2])
                    ELSE IF d = 1 /\ s.backend = "kernels_loop" THEN 1
                    ELSE Least(rest, MaxThreadsZ)
<1>1. MaxThreads \in Nat \ {0} /\ MaxThreadsZ \in Nat \ {0} /\ WarpSize \in Nat \ {0}
  BY LaunchAssumption
<1>2. s.halo \in Nat /\ both = s.halo + s.halo
  BY Setup
<1>3. both > 0 /\ wt > 0
  BY DEF Launchable
<1>4. both \in Nat \ {0} /\ s.halo \in Nat \ {0}
  BY <1>2, <1>3
<1>5. /\ b.ext[2] \in Nat
      /\ ext_buffer(s, b)[1] \in Nat
      /\ ext_buffer(s, b)[2] \in Nat \ {0}
  BY <1>4, Array DEF IsBlock, Dim
<1>6. wt = (most \div WarpSize) * WarpSize
  BY DEF WarpThreads
<1>7. Dims(s, b, d) = <<IF 1 = d THEN both ELSE IF 1 = WarpDim(d) THEN wt ELSE third,
                        IF 2 = d THEN both ELSE IF 2 = WarpDim(d) THEN wt ELSE third,
                        IF 3 = d THEN both ELSE IF 3 = WarpDim(d) THEN wt ELSE third>>
  BY DEF Dims, Triple
<1>8. n \in Nat
  BY <1>5
<1> HIDE DEF both, wt, n
<1>9. /\ each * both \in Nat /\ each * both <= MaxThreads /\ both * each = each * both
      /\ each \in Nat
  BY <1>1, <1>4, RoundDown
<1> HIDE DEF each
<1>10. most \in Nat /\ most <= each
  BY <1>8, <1>9 DEF Least
<1> HIDE DEF most
<1>11. wt \in Nat \ {0} /\ wt <= each
  BY <1>1, <1>3, <1>6, <1>9, <1>10, RoundDown
<1>12. both * wt \in Nat \ {0} /\ both * wt <= MaxThreads
  <2>1. both * wt \in Nat \ {0}
    BY <1>4, <1>11, Positive
  <2> DEFINE k == each - wt
  <2>2. k \in Nat /\ each = wt + k
    BY <1>9, <1>11
  <2> HIDE DEF k
  <2>3. both * each = both * wt + both * k /\ both * k \in Nat
    BY <1>4, <1>11, <2>2
  <2>4. QED
    BY <1>1, <1>9, <2>1, <2>3
<1>13. rest \in Nat \ {0}
  BY <1>1, <1>12, AtLeastOnce
<1> HIDE DEF rest
<1>14. third \in Nat \ {0}
  BY <1>1, <1>5, <1>13 DEF Least
<1> HIDE DEF third
<1>15. QED
  BY <1>2, <1>4, <1>7, <1>11, <1>14 DEF Dim, both

LEMMA AllCovered ==
  ASSUME NEW s \in Setups, NEW b, IsBlock(b), Launchable(s, b), NEW d \in Dim,
         NEW left \in BOOLEAN
  PROVE  Covered(s, b, d, left) = 1..Volume(SlabSize(s, b, d))
<1> DEFINE size == SlabSize(s, b, d)
           t == Dims(s, b, d)
           n == LaunchBlocks(s, b, d, size)
           h == s.halo
           thread(c) == \/ d = 1 /\ XThread(s, b, c, left)
                        \/ d = 2 /\ YThread(s, b, c, left)
                        \/ d = 3 /\ ZThread(s, b, c, left)
<1>1. 1 \in Dim /\ 2 \in Dim /\ 3 \in Dim
  BY DEF Dim
<1>2. PackBox(s, b, d, left).size = size
  BY BoxesAre
<1>3. /\ IsSize(size) /\ Volume(size) \in Nat
      /\ \A e \in Dim : size[e] = Wide(s, b, d, e) /\ size[e] \in Nat
  BY SlabVolume
<1>4. h \in Nat \ {0} /\ t[d] = h + h /\ \A e \in Dim : t[e] \in Nat \ {0}
  BY <1>1, DimsPositive
<1>5. size[d] = h
  BY <1>3 DEF Wide
<1>6. \A e \in Dim : n[e] = IF e = d \/ (d = 1 /\ e = 3 /\ s.backend = "kernels_loop")
                            THEN 1 ELSE CeilDiv(size[e], t[e])
  BY DEF LaunchBlocks, Triple, Dim
<1>7. HaloL(s, d) = h
  BY Setup
<1>8. Covered(s, b, d, left) = {k \in 1..Volume(size) : thread(CellAt(size, k - 1))}
  BY <1>2 DEF Covered
<1> HIDE DEF size, t, n, h
<1>9. ASSUME NEW k \in 1..Volume(size) PROVE thread(CellAt(size, k - 1))
  <2> DEFINE c == CellAt(size, k - 1)
  <2>1. k - 1 \in 0..(Volume(size) - 1)
    BY <1>3
  <2>2. c \in Box(size)
    BY <1>3, <2>1, CellOfIndex
  <2> HIDE DEF c
  <2>3. \A e \in Dim : c[e] \in 0..(size[e] - 1)
    BY <2>2 DEF Box, Dim
  <2>4. c[d] + (IF left THEN h ELSE 0) < t[d]
    <3>1. c[d] \in 0..(h - 1)
      BY <1>5, <2>3
    <3>2. QED
      BY <1>4, <3>1
  <2>5. ASSUME NEW e \in Dim, n[e] = CeilDiv(size[e], t[e]) PROVE c[e] < n[e] * t[e]
    <3>1. size[e] \in Nat /\ t[e] \in Nat \ {0} /\ c[e] \in 0..(size[e] - 1)
      BY <1>3, <1>4, <2>3
    <3>2. /\ CeilDiv(size[e], t[e]) * t[e] \in Nat
          /\ size[e] <= CeilDiv(size[e], t[e]) * t[e]
      BY <3>1, RoundUp
    <3>3. QED
      BY <2>5, <3>1, <3>2
  <2>6. CASE d = 1
    <3>1. c[1] + (IF left THEN h ELSE 0) < t[1] /\ HaloL(s, 1) = h
      BY <1>7, <2>4, <2>6
    <3>2. c[2] < n[2] * t[2]
      BY <1>1, <1>6, <2>5, <2>6
    <3>3. s.backend = "kernels_loop" \/ c[3] < n[3] * t[3]
      BY <1>1, <1>6, <2>5, <2>6
    <3>4. XThread(s, b, c, left)
      BY <1>2, <2>6, <3>1, <3>2, <3>3 DEF XThread, n, t
    <3>5. QED
      BY <2>6, <3>4 DEF c
  <2>7. CASE d = 2
    <3>1. c[2] + (IF left THEN h ELSE 0) < t[2] /\ HaloL(s, 2) = h
      BY <1>7, <2>4, <2>7
    <3>2. c[1] < n[1] * t[1] /\ c[3] < n[3] * t[3]
      BY <1>1, <1>6, <2>5, <2>7
    <3>3. YThread(s, b, c, left)
      BY <1>2, <2>7, <3>1, <3>2 DEF YThread, n, t
    <3>4. QED
      BY <2>7, <3>3 DEF c
  <2>8. CASE d = 3
    <3>1. c[3] + (IF left THEN h ELSE 0) < t[3] /\ HaloL(s, 3) = h
      BY <1>7, <2>4, <2>8
    <3>2. c[1] < n[1] * t[1] /\ c[2] < n[2] * t[2]
      BY <1>1, <1>6, <2>5, <2>8
    <3>3. ZThread(s, b, c, left)
      BY <1>2, <2>8, <3>1, <3>2 DEF ZThread, n, t
    <3>4. QED
      BY <2>8, <3>3 DEF c
  <2>9. QED
    BY <2>6, <2>7, <2>8 DEF Dim
<1>10. Covered(s, b, d, left) = 1..Volume(size)
  <2> HIDE DEF thread
  <2>1. QED
    BY <1>8, <1>9
<1>11. QED
  BY <1>10 DEF size

\* So all of a buffer is packed and unpacked.
LEMMA AllWorked ==
  ASSUME NEW s \in Setups, NEW p \in ProcOf(s), NEW d \in Dim, NEW left \in BOOLEAN
  PROVE  Worked[s][p][<<d, left>>] = 1..Volume(SlabSize(s, Blk[s][p], d))
<1> DEFINE b == Blk[s][p]
           w == <<d, left>>
           n == Volume(SlabSize(s, b, d))
<1>1. w \in Way /\ w[1] = d /\ w[2] = left
  BY DEF Way
<1>2. Worked[s][p][w] = IF Kernels(s) THEN Covered(s, b, d, left) ELSE DOMAIN Out[s][p][w]
  BY <1>1 DEF Worked
<1>3. CASE ~Kernels(s)
  <2>1. Out[s][p][w] \in [1..n -> 0..(Size[s][p] - 1)]
    BY Lists
  <2> HIDE DEF w, n
  <2>2. QED
    BY <1>2, <1>3, <2>1 DEF w, n
<1>4. CASE Kernels(s)
  <2>1. b = BlockOf(s, p)
    BY DEF Blk
  <2>2. Launchable(s, b)
    BY <1>4, <2>1, KernelsAssumption DEF Kernels
  <2>3. Covered(s, b, d, left) = 1..n
    BY <2>2, Block, AllCovered
  <2>4. QED
    BY <1>2, <1>4, <2>3
<1>5. QED
  BY <1>3, <1>4

-----------------------------------------------------------------------------
(***************************************************************************)
(* The inductive invariant.                                                 *)
(***************************************************************************)
\* Which of its calls in a dimension a thread receives, packs, sends and waits
\* in; nothing is packed with datatypes.
RecvAt(s) == CASE s.backend = "datatypes" \/ Oomph(s) -> 1
               [] s.backend = "tausch" -> 3
               [] OTHER -> 2
PackAt(s) == CASE s.backend = "datatypes" -> 0
               [] Oomph(s) -> 2
               [] OTHER -> 1
SendAt(s) == IF s.backend \in {"datatypes", "tausch"} THEN 2 ELSE 3
WaitAt(s) == IF s.backend = "datatypes" THEN 3 ELSE 4

\* Cells of a message.
Count(p, w) == Volume(SlabSize(S, Blk[S][p], w[1]))

Stages == {"none", "posted", "read", "written"}

(***************************************************************************)
(* Arrays and buffers have their size, a message that was read has that of     *)
(* its list of cells, and one that still is to be read is of the dimension its  *)
(* sender is in, after its send.                                            *)
(***************************************************************************)
ShapeInv ==
    /\ S \in Setups
    /\ dim \in [Proc -> 1..4]
    /\ at \in [Proc -> 1..WaitAt(S)]
    /\ waiting \in [Proc -> SUBSET BOOLEAN]
    /\ DOMAIN field = Proc
    /\ \A p \in Proc : field[p] \in [0..(Size[S][p] - 1) -> Int]
    /\ sbuf \in [Proc -> [Way -> Seq(Int)]]
    /\ rbuf \in [Proc -> [Way -> Seq(Int)]]
    /\ msg \in [Proc -> [Way -> [is : Stages, data : Seq(Int)]]]
    /\ \A p \in Proc, w \in Way :
         /\ Len(sbuf[p][w]) = Length[S][p][w]
         /\ Len(rbuf[p][w]) = Length[S][p][w]
         /\ msg[p][w].is = "read" => Len(msg[p][w].data) = Count(p, w)
         /\ msg[p][w].is = "posted" => dim[p] = w[1] /\ at[p] > SendAt(S)

\* What p sent, or is to send, is what belongs in the cells it takes it from.
RightData(p, w, data) ==
    \A k \in DOMAIN Out[S][p][w] : data[k] = Reference[S][p][Out[S][p][w][k]]

\* What q was sent is what belongs in the cells it goes to.
RightHalo(q, w) ==
    \A k \in DOMAIN In[S][q][w] :
      (IF IsDirect(S, w[1]) THEN field[q][In[S][q][w][k]] ELSE rbuf[q][w][k])
        = Reference[S][q][In[S][q][w][k]]

(***************************************************************************)
(* The cells known before the dimension a thread is in are right throughout,   *)
(* although messages are read from and written to the same field meanwhile;     *)
(* so are what is packed, what the library has read, and what has arrived.     *)
(***************************************************************************)
FieldsRight ==
    \A p \in Proc : \A i \in KnownCells(S, p, dim[p]) : field[p][i] = Reference[S][p][i]

PackedRight ==
    \A p \in Proc, w \in Way :
      /\ ~IsDirect(S, w[1])
      /\ dim[p] > w[1] \/ (dim[p] = w[1] /\ at[p] > PackAt(S))
      => RightData(p, w, sbuf[p][w])

ReadRight ==
    \A p \in Proc, w \in Way : msg[p][w].is = "read" => RightData(p, w, msg[p][w].data)

ArrivedRight ==
    \A q \in Proc, w \in Way :
      dim[q] = w[1] /\ at[q] > RecvAt(S) /\ w[2] \notin waiting[q] => RightHalo(q, w)

ValueInv == S.backend # "kernels_z" => FieldsRight /\ PackedRight /\ ReadRight /\ ArrivedRight

-----------------------------------------------------------------------------
(***************************************************************************)
(* What the steps need to know of a setup.                                  *)
(***************************************************************************)
LEMMA CallsAre ==
  ASSUME NEW s \in Setups
  PROVE  /\ DOMAIN Calls(s) = 1..WaitAt(s)
         /\ \A k \in 1..WaitAt(s) : /\ Calls(s)[k] = "recv" => k = RecvAt(s)
                                    /\ Calls(s)[k] = "pack" => k = PackAt(s)
                                    /\ Calls(s)[k] = "send" => k = SendAt(s)
                                    /\ Calls(s)[k] = "wait" => k = WaitAt(s)
         /\ RecvAt(s) \in 1..3 /\ PackAt(s) \in 0..3 /\ SendAt(s) \in 1..3 /\ WaitAt(s) \in 3..4
         /\ RecvAt(s) < WaitAt(s) /\ PackAt(s) < SendAt(s) /\ SendAt(s) < WaitAt(s)
         /\ RecvAt(s) # PackAt(s) /\ RecvAt(s) # SendAt(s)
         /\ \A d \in Dim : ~IsDirect(s, d) => PackAt(s) >= 1
<1>1. s.backend \in Backends
  BY Setup
<1>2. CASE s.backend = "datatypes"
  <2>1. /\ RecvAt(s) = 1 /\ PackAt(s) = 0 /\ SendAt(s) = 2 /\ WaitAt(s) = 3
        /\ Calls(s) = MpiTypeCalls
    BY <1>2 DEF RecvAt, PackAt, SendAt, WaitAt, Oomph, Calls
  <2>2. \A d \in Dim : IsDirect(s, d)
    BY <1>2 DEF IsDirect
  <2>3. QED
    BY <2>1, <2>2 DEF MpiTypeCalls
<1>3. CASE s.backend = "tausch"
  <2>1. /\ RecvAt(s) = 3 /\ PackAt(s) = 1 /\ SendAt(s) = 2 /\ WaitAt(s) = 4
        /\ Calls(s) = TauschCalls
    BY <1>3 DEF RecvAt, PackAt, SendAt, WaitAt, Oomph, Calls
  <2>2. QED
    BY <2>1 DEF TauschCalls
<1>4. CASE Oomph(s)
  <2>1. /\ RecvAt(s) = 1 /\ PackAt(s) = 2 /\ SendAt(s) = 3 /\ WaitAt(s) = 4
        /\ Calls(s) = OomphCalls
    BY <1>4 DEF RecvAt, PackAt, SendAt, WaitAt, Oomph, Calls
  <2>2. QED
    BY <2>1 DEF OomphCalls
<1>5. CASE s.backend # "datatypes" /\ s.backend # "tausch" /\ ~Oomph(s)
  <2>1. /\ RecvAt(s) = 2 /\ PackAt(s) = 1 /\ SendAt(s) = 3 /\ WaitAt(s) = 4
        /\ Calls(s) = MpiCalls
    BY <1>5 DEF RecvAt, PackAt, SendAt, WaitAt, Calls
  <2>2. QED
    BY <2>1 DEF MpiCalls
<1>6. QED
  BY <1>2, <1>3, <1>4, <1>5

LEMMA InWay ==
  ASSUME NEW d \in Dim, NEW left \in BOOLEAN
  PROVE  <<d, left>> \in Way
BY DEF Way

\* The lists, places and buffers of a message.
LEMMA MessageIs ==
  ASSUME NEW s \in Setups, NEW p \in ProcOf(s), NEW w \in Way,
         NEW n, n = Volume(SlabSize(s, Blk[s][p], w[1]))
  PROVE  /\ w[1] \in Dim /\ w[2] \in BOOLEAN /\ w = <<w[1], w[2]>>
         /\ n \in Nat
         /\ Out[s][p][w] \in [1..n -> 0..(Size[s][p] - 1)]
         /\ In[s][p][w] \in [1..n -> 0..(Size[s][p] - 1)]
         /\ \A k \in 1..n : Out[s][p][w][k] \in KnownCells(s, p, w[1])
         /\ Worked[s][p][w] = 1..n
         /\ Length[s][p][w] = IF IsDirect(s, w[1]) THEN 0 ELSE n
<1>1. w[1] \in Dim /\ w[2] \in BOOLEAN /\ w = <<w[1], w[2]>>
  BY DEF Way
<1>2. /\ n \in Nat
      /\ Out[s][p][w] \in [1..n -> 0..(Size[s][p] - 1)]
      /\ In[s][p][w] \in [1..n -> 0..(Size[s][p] - 1)]
  <2> DEFINE d == w[1]
             left == w[2]
             m == Volume(SlabSize(s, Blk[s][p], d))
  <2>1. d \in Dim /\ left \in BOOLEAN /\ w = <<d, left>> /\ n = m
    BY <1>1
  <2> HIDE DEF d, left
  <2>2. /\ m \in Nat
        /\ Out[s][p][<<d, left>>] \in [1..m -> 0..(Size[s][p] - 1)]
        /\ In[s][p][<<d, left>>] \in [1..m -> 0..(Size[s][p] - 1)]
    BY <2>1, Lists
  <2> HIDE DEF m
  <2>3. QED
    BY <2>1, <2>2
<1>3. \A k \in 1..n : Out[s][p][w][k] \in KnownCells(s, p, w[1])
  BY <1>1, <1>2, OutKnown
<1>4. Worked[s][p][w] = 1..n
  BY <1>1, AllWorked
<1>5. Length[s][p][w] = IF IsDirect(s, w[1]) THEN 0 ELSE n
  BY <1>1, LengthIs
<1>6. QED
  BY <1>1, <1>2, <1>3, <1>4, <1>5

\* Where the cells of a message are in it.
LEMMA PlaceIs ==
  ASSUME NEW s \in Setups, NEW p \in ProcOf(s), NEW w \in Way
  PROVE  /\ DOMAIN Place[s][p][w] = {In[s][p][w][k] : k \in DOMAIN In[s][p][w]}
         /\ \A i \in DOMAIN Place[s][p][w] : /\ Place[s][p][w][i] \in DOMAIN In[s][p][w]
                                             /\ In[s][p][w][Place[s][p][w][i]] = i
<1> DEFINE f == In[s][p][w]
           cells == {f[k] : k \in DOMAIN f}
<1>1. Place[s][p][w] = [i \in cells |-> CHOOSE k \in DOMAIN f : f[k] = i]
  BY DEF Place
<1> HIDE DEF f
<1>2. ASSUME NEW i \in cells
      PROVE  (CHOOSE k \in DOMAIN f : f[k] = i) \in DOMAIN f
             /\ f[CHOOSE k \in DOMAIN f : f[k] = i] = i
  <2>1. \E k \in DOMAIN f : f[k] = i
    OBVIOUS
  <2>2. QED
    BY <2>1
<1> DEFINE g(i) == CHOOSE k \in DOMAIN f : f[k] = i
<1> HIDE DEF g
<1>3. Place[s][p][w] = [i \in cells |-> g(i)]
  BY <1>1 DEF g
<1>4. \A i \in cells : g(i) \in DOMAIN f /\ f[g(i)] = i
  BY <1>2 DEF g
<1>5. QED
  BY <1>3, <1>4 DEF f

\* The fields as they are made are arrays of numbers.
LEMMA FieldsMade ==
  ASSUME NEW s \in Setups, NEW p \in ProcOf(s)
  PROVE  make_fields(s, p) \in [0..(Size[s][p] - 1) -> Int]
<1> DEFINE b == Blk[s][p]
           n == ext_buffer(s, b)
           value(j) == LET y == PlaceInBlock(s, p, j)
                       IN  IF \A d \in Dim : y[d] \in 0..(b.ext[d] - 1)
                           THEN Value(s, Triple(LAMBDA d : b.begin[d] + y[d])) ELSE 0
<1>1. make_fields(s, p) = [j \in 0..(Size[s][p] - 1) |-> value(j)]
  BY DEF make_fields
<1>2. /\ IsBlock(b) /\ s.fields \in Nat
      /\ \A d \in Dim : GlobalDomain(s, d) \in Nat /\ b.begin[d] \in Nat /\ b.ext[d] \in Nat
  BY Block, Setup
<1>3. 1 \in Dim /\ 2 \in Dim /\ 3 \in Dim
  BY DEF Dim
<1>4. ASSUME NEW x \in Int, NEW y \in Int, NEW z \in Int PROVE Value(s, <<x, y, z>>) \in Int
  <2> DEFINE g1 == GlobalDomain(s, 1)
             g2 == GlobalDomain(s, 2)
             f == s.fields
  <2>1. g1 \in Nat /\ g2 \in Nat /\ f \in Nat
    BY <1>2, <1>3
  <2>2. Value(s, <<x, y, z>>) = (x + g1 * (y + g2 * z)) * f + f - 1
    BY DEF Value
  <2> HIDE DEF g1, g2, f
  <2>3. g2 * z \in Int
    BY <2>1
  <2>4. g1 * (y + g2 * z) \in Int
    BY <2>1, <2>3
  <2>5. (x + g1 * (y + g2 * z)) * f \in Int
    BY <2>1, <2>4
  <2>6. QED
    BY <2>1, <2>2, <2>5
<1>5. ASSUME NEW j \in 0..(Size[s][p] - 1) PROVE value(j) \in Int
  <2> DEFINE y == PlaceInBlock(s, p, j)
  <2>1. value(j) = IF \A d \in Dim : y[d] \in 0..(b.ext[d] - 1)
                   THEN Value(s, <<b.begin[1] + y[1], b.begin[2] + y[2], b.begin[3] + y[3]>>)
                   ELSE 0
    BY DEF Triple
  <2> HIDE DEF y, value
  <2>2. CASE \A d \in Dim : y[d] \in 0..(b.ext[d] - 1)
    <3>1. b.begin[1] + y[1] \in Int /\ b.begin[2] + y[2] \in Int /\ b.begin[3] + y[3] \in Int
      BY <1>2, <1>3, <2>2
    <3>2. QED
      BY <1>4, <2>1, <2>2, <3>1
  <2>3. QED
    BY <2>1, <2>2
<1>6. QED
  <2> HIDE DEF value
  <2>1. QED
    BY <1>1, <1>5

-----------------------------------------------------------------------------
(***************************************************************************)
(* Sizes stay.                                                              *)
(***************************************************************************)
LEMMA LengthNat ==
  ASSUME NEW s \in Setups, NEW p \in ProcOf(s), NEW w \in Way
  PROVE  Length[s][p][w] \in Nat
BY MessageIs

LEMMA ShapeInit == Init => ShapeInv
<1> SUFFICES ASSUME Init PROVE ShapeInv
  OBVIOUS
<1>1. S \in Setups /\ Proc = ProcOf(S)
  BY DEF Init, Proc
<1>2. dim \in [Proc -> 1..4] /\ waiting \in [Proc -> SUBSET BOOLEAN]
  BY DEF Init
<1>3. at \in [Proc -> 1..WaitAt(S)]
  <2>1. 1 \in 1..WaitAt(S)
    BY <1>1, CallsAre
  <2>2. QED
    BY <2>1 DEF Init
<1>4. DOMAIN field = Proc /\ \A p \in Proc : field[p] \in [0..(Size[S][p] - 1) -> Int]
  BY <1>1, FieldsMade DEF Init
<1>5. ASSUME NEW p \in Proc, NEW w \in Way
      PROVE  Buffer(p, w) \in Seq(Int) /\ Len(Buffer(p, w)) = Length[S][p][w]
  <2> DEFINE n == Length[S][p][w]
  <2>1. n \in Nat
    BY <1>1, LengthNat
  <2>2. Buffer(p, w) = [k \in 1..n |-> 0]
    BY DEF Buffer
  <2> HIDE DEF n
  <2>3. Buffer(p, w) \in [1..n -> Int]
    BY <2>2
  <2>4. QED
    BY <2>1, <2>2, <2>3 DEF n
<1>6. /\ sbuf \in [Proc -> [Way -> Seq(Int)]] /\ rbuf \in [Proc -> [Way -> Seq(Int)]]
      /\ \A p \in Proc, w \in Way : /\ Len(sbuf[p][w]) = Length[S][p][w]
                                    /\ Len(rbuf[p][w]) = Length[S][p][w]
  BY <1>5 DEF Init
<1>7. /\ msg \in [Proc -> [Way -> [is : Stages, data : Seq(Int)]]]
      /\ \A p \in Proc, w \in Way : msg[p][w].is = "none"
  <2>1. [is |-> "none", data |-> <<>>] \in [is : Stages, data : Seq(Int)]
    BY DEF Stages
  <2>2. QED
    BY <2>1 DEF Init
<1>8. QED
  BY <1>1, <1>2, <1>3, <1>4, <1>6, <1>7 DEF ShapeInv

\* What a thread loads from its field.
LEMMA LoadIs ==
  ASSUME ShapeInv, NEW p \in Proc, NEW w \in Way
  PROVE  /\ Load(p, w) \in Seq(Int) /\ Len(Load(p, w)) = Count(p, w)
         /\ DOMAIN Load(p, w) = 1..Count(p, w)
         /\ \A k \in 1..Count(p, w) : Load(p, w)[k] = field[p][Out[S][p][w][k]]
<1> DEFINE n == Count(p, w)
           out == Out[S][p][w]
<1>1. S \in Setups /\ p \in ProcOf(S) /\ field[p] \in [0..(Size[S][p] - 1) -> Int]
  BY DEF ShapeInv, Proc
<1>2. n \in Nat /\ out \in [1..n -> 0..(Size[S][p] - 1)]
  BY <1>1, MessageIs DEF Count
<1>3. Load(p, w) = [k \in DOMAIN out |-> field[p][out[k]]]
  BY DEF Load
<1> HIDE DEF n, out
<1>4. Load(p, w) \in [1..n -> Int]
  BY <1>1, <1>2, <1>3
<1>5. \A k \in 1..n : Load(p, w)[k] = field[p][out[k]]
  BY <1>2, <1>3
<1>6. Load(p, w) \in Seq(Int) /\ Len(Load(p, w)) = n
  BY <1>2, <1>4
<1>7. QED
  BY <1>4, <1>5, <1>6 DEF n, out

\* A thread at one of its calls.
LEMMA IsNextAt ==
  ASSUME ShapeInv, NEW p \in Proc
  PROVE  /\ IsNext(p, "recv") => dim[p] \in Dim /\ at[p] = RecvAt(S) /\ at[p] + 1 \in 1..WaitAt(S)
         /\ IsNext(p, "pack") => dim[p] \in Dim /\ at[p] = PackAt(S) /\ at[p] + 1 \in 1..WaitAt(S)
         /\ IsNext(p, "send") => dim[p] \in Dim /\ at[p] = SendAt(S) /\ at[p] + 1 \in 1..WaitAt(S)
         /\ IsNext(p, "wait") => dim[p] \in Dim /\ at[p] = WaitAt(S)
<1> DEFINE k == at[p]
           calls == Calls(S)
<1>1. S \in Setups /\ k \in 1..WaitAt(S)
  BY DEF ShapeInv
<1>2. /\ RecvAt(S) \in 1..3 /\ PackAt(S) \in 0..3 /\ SendAt(S) \in 1..3 /\ WaitAt(S) \in 3..4
      /\ RecvAt(S) < WaitAt(S) /\ PackAt(S) < SendAt(S) /\ SendAt(S) < WaitAt(S)
      /\ \A j \in 1..WaitAt(S) : /\ calls[j] = "recv" => j = RecvAt(S)
                                 /\ calls[j] = "pack" => j = PackAt(S)
                                 /\ calls[j] = "send" => j = SendAt(S)
                                 /\ calls[j] = "wait" => j = WaitAt(S)
  BY <1>1, CallsAre
<1>3. \A call : IsNext(p, call) => dim[p] \in Dim /\ calls[k] = call
  BY DEF IsNext
<1> HIDE DEF k, calls
<1>4. /\ calls[k] = "recv" => k = RecvAt(S) /\ k + 1 \in 1..WaitAt(S)
      /\ calls[k] = "pack" => k = PackAt(S) /\ k + 1 \in 1..WaitAt(S)
      /\ calls[k] = "send" => k = SendAt(S) /\ k + 1 \in 1..WaitAt(S)
      /\ calls[k] = "wait" => k = WaitAt(S)
  BY <1>1, <1>2
<1>5. QED
  BY <1>3, <1>4 DEF k

LEMMA ShapePack ==
  ASSUME ShapeInv, NEW p \in Proc, Pack(p)
  PROVE  ShapeInv'
<1>1. PICK late \in IF Races(p) THEN SUBSET DOMAIN sbuf[p][<<3, FALSE>>] ELSE {{}} :
        sbuf' = [sbuf EXCEPT ![p] = [w \in Way |->
                   IF w[1] # dim[p] \/ IsDirect(S, w[1]) THEN @[w]
                   ELSE IF Races(p) THEN PackedZ(p, w, late) ELSE Packed(p, w)]]
  BY DEF Pack
<1>2. UNCHANGED <<S, field, rbuf, dim, waiting, msg>> /\ at' = [at EXCEPT ![p] = at[p] + 1]
  BY DEF Pack
<1>3. at[p] + 1 \in 1..WaitAt(S) /\ dim[p] \in Dim
  BY IsNextAt DEF Pack
<1>4. S \in Setups /\ \A q \in Proc : q \in ProcOf(S)
  BY DEF ShapeInv, Proc
<1>5. sbuf \in [Proc -> [Way -> Seq(Int)]]
      /\ \A q \in Proc, w \in Way : Len(sbuf[q][w]) = Length[S][q][w]
  BY DEF ShapeInv
<1>6. ASSUME NEW w \in Way, w[1] = dim[p], ~IsDirect(S, w[1])
      PROVE  Packed(p, w) \in Seq(Int) /\ Len(Packed(p, w)) = Length[S][p][w]
  <2> DEFINE n == Count(p, w)
             old == sbuf[p][w]
             new == Load(p, w)
             worked == Worked[S][p][w]
  <2>1. n \in Nat /\ Length[S][p][w] = n
    BY <1>4, <1>6, MessageIs DEF Count
  <2>2. old \in Seq(Int) /\ Len(old) = n
    BY <1>5, <2>1
  <2>3. new \in Seq(Int) /\ Len(new) = n
    BY LoadIs
  <2>4. Packed(p, w) = [k \in DOMAIN old |-> IF k \in worked THEN new[k] ELSE old[k]]
    BY DEF Packed
  <2> HIDE DEF n, old, new, worked
  <2>5. DOMAIN old = 1..n /\ \A k \in 1..n : old[k] \in Int /\ new[k] \in Int
    BY <2>1, <2>2, <2>3
  <2>6. Packed(p, w) \in [1..n -> Int]
    BY <2>4, <2>5
  <2>7. QED
    BY <2>1, <2>6
<1>7. ASSUME NEW w \in Way, w[1] = dim[p], ~IsDirect(S, w[1]), Races(p)
      PROVE  PackedZ(p, w, late) \in Seq(Int) /\ Len(PackedZ(p, w, late)) = Length[S][p][w]
  <2> DEFINE n == Count(p, w)
             one == Load(p, <<3, FALSE>>)
             two == Load(p, <<3, TRUE>>)
  <2>1. n \in Nat /\ Length[S][p][w] = n /\ w[1] = 3
    BY <1>4, <1>7, MessageIs DEF Count, Races
  <2>2. <<3, FALSE>> \in Way /\ <<3, TRUE>> \in Way
    <3>1. 3 \in Dim
      BY DEF Dim
    <3>2. QED
      BY <3>1, InWay
  <2>3. Count(p, <<3, FALSE>>) = n /\ Count(p, <<3, TRUE>>) = n
    BY <2>1 DEF Count
  <2>4. one \in Seq(Int) /\ Len(one) = n /\ two \in Seq(Int) /\ Len(two) = n
    BY <2>2, <2>3, LoadIs
  <2>5. PackedZ(p, w, late)
          = IF w[2] THEN sbuf[p][w]
            ELSE [k \in DOMAIN one |-> IF k \in late THEN two[k] ELSE one[k]]
    BY DEF PackedZ
  <2> HIDE DEF n, one, two
  <2>6. DOMAIN one = 1..n /\ \A k \in 1..n : one[k] \in Int /\ two[k] \in Int
    BY <2>1, <2>4
  <2> DEFINE mix == [k \in DOMAIN one |-> IF k \in late THEN two[k] ELSE one[k]]
  <2>7. mix \in [1..n -> Int]
    BY <2>6
  <2> HIDE DEF mix
  <2>8. mix \in Seq(Int) /\ Len(mix) = n
    BY <2>1, <2>7
  <2>9. QED
    BY <1>5, <2>1, <2>5, <2>8 DEF mix
<1>8. /\ sbuf' \in [Proc -> [Way -> Seq(Int)]]
      /\ \A q \in Proc, w \in Way : Len(sbuf'[q][w]) = Length[S][q][w]
  <2> DEFINE new == [w \in Way |->
                       IF w[1] # dim[p] \/ IsDirect(S, w[1]) THEN sbuf[p][w]
                       ELSE IF Races(p) THEN PackedZ(p, w, late) ELSE Packed(p, w)]
  <2>1. sbuf' = [sbuf EXCEPT ![p] = new]
    BY <1>1
  <2>2. \A w \in Way : new[w] \in Seq(Int) /\ Len(new[w]) = Length[S][p][w]
    BY <1>5, <1>6, <1>7
  <2>3. new \in [Way -> Seq(Int)]
    BY <2>2
  <2> HIDE DEF new
  <2>4. QED
    BY <1>5, <2>1, <2>2, <2>3
<1>9. at' \in [Proc -> 1..WaitAt(S)] /\ \A q \in Proc : at'[q] >= at[q]
  BY <1>2, <1>3 DEF ShapeInv
<1>10. ASSUME NEW q \in Proc, NEW w \in Way, msg[q][w].is = "posted"
       PROVE  dim[q] = w[1] /\ at'[q] > SendAt(S)
  <2>1. dim[q] = w[1] /\ at[q] > SendAt(S)
    BY <1>10 DEF ShapeInv
  <2>2. SendAt(S) \in Int /\ at[q] \in Int /\ at'[q] \in Int /\ at'[q] >= at[q]
    BY <1>4, <1>9, CallsAre DEF ShapeInv
  <2>3. QED
    BY <2>1, <2>2
<1>11. Proc' = Proc
  BY <1>2 DEF Proc
<1>12. QED
  BY <1>2, <1>8, <1>9, <1>10, <1>11 DEF ShapeInv, Count

LEMMA ShapeReceive ==
  ASSUME ShapeInv, NEW p \in Proc, Receive(p)
  PROVE  ShapeInv'
<1>1. /\ UNCHANGED <<S, field, sbuf, rbuf, dim, msg>> /\ at' = [at EXCEPT ![p] = at[p] + 1]
      /\ waiting' = [waiting EXCEPT ![p] = BOOLEAN]
  BY DEF Receive
<1>2. at[p] + 1 \in 1..WaitAt(S)
  BY IsNextAt DEF Receive
<1>3. at' \in [Proc -> 1..WaitAt(S)] /\ \A q \in Proc : at'[q] >= at[q]
  BY <1>1, <1>2 DEF ShapeInv
<1>4. waiting' \in [Proc -> SUBSET BOOLEAN]
  BY <1>1 DEF ShapeInv
<1>5. ASSUME NEW q \in Proc, NEW w \in Way, msg[q][w].is = "posted"
      PROVE  dim[q] = w[1] /\ at'[q] > SendAt(S)
  <2>1. dim[q] = w[1] /\ at[q] > SendAt(S)
    BY <1>5 DEF ShapeInv
  <2>2. S \in Setups /\ at[q] \in Int /\ at'[q] \in Int /\ at'[q] >= at[q]
    <3>1. S \in Setups
      BY DEF ShapeInv
    <3>2. at[q] \in 1..WaitAt(S) /\ at'[q] \in 1..WaitAt(S)
      BY <1>3 DEF ShapeInv
    <3>3. WaitAt(S) \in Int
      BY <3>1, CallsAre
    <3>4. QED
      BY <1>3, <3>1, <3>2, <3>3
  <2>3. SendAt(S) \in Int
    BY <2>2, CallsAre
  <2>4. QED
    BY <2>1, <2>2, <2>3
<1>6. Proc' = Proc
  BY <1>1 DEF Proc
<1>7. QED
  BY <1>1, <1>3, <1>4, <1>5, <1>6 DEF ShapeInv, Count

LEMMA ShapeSend ==
  ASSUME ShapeInv, NEW p \in Proc, Send(p)
  PROVE  ShapeInv'
<1> DEFINE new == [w \in Way |-> IF w[1] = dim[p] THEN [msg[p][w] EXCEPT !.is = "posted"]
                                 ELSE msg[p][w]]
<1>1. /\ UNCHANGED <<S, field, sbuf, rbuf, dim, waiting>> /\ at' = [at EXCEPT ![p] = at[p] + 1]
      /\ msg' = [msg EXCEPT ![p] = new]
  BY DEF Send
<1>2. at[p] = SendAt(S) /\ at[p] + 1 \in 1..WaitAt(S)
  BY IsNextAt DEF Send
<1>3. /\ at' \in [Proc -> 1..WaitAt(S)] /\ at'[p] = SendAt(S) + 1 /\ SendAt(S) \in Int
      /\ \A q \in Proc : q # p => at'[q] = at[q]
  BY <1>1, <1>2, CallsAre DEF ShapeInv
<1>4. msg \in [Proc -> [Way -> [is : Stages, data : Seq(Int)]]]
  BY DEF ShapeInv
<1>5. ASSUME NEW w \in Way
      PROVE  /\ new[w] \in [is : Stages, data : Seq(Int)] /\ new[w].data = msg[p][w].data
             /\ new[w].is = IF w[1] = dim[p] THEN "posted" ELSE msg[p][w].is
  <2> DEFINE m == msg[p][w]
             posted == [m EXCEPT !.is = "posted"]
  <2>1. m \in [is : Stages, data : Seq(Int)]
    BY <1>4
  <2>2. new[w] = IF w[1] = dim[p] THEN posted ELSE m
    OBVIOUS
  <2> HIDE DEF m
  <2>3. posted \in [is : Stages, data : Seq(Int)] /\ posted.data = m.data /\ posted.is = "posted"
    BY <2>1 DEF Stages
  <2> HIDE DEF posted
  <2>4. QED
    BY <2>1, <2>2, <2>3 DEF m
<1>6. new \in [Way -> [is : Stages, data : Seq(Int)]]
  BY <1>5
<1> HIDE DEF new
<1>7. msg' \in [Proc -> [Way -> [is : Stages, data : Seq(Int)]]]
  BY <1>1, <1>4, <1>6
<1>8. msg'[p] = new /\ \A q \in Proc : q # p => msg'[q] = msg[q]
  BY <1>1, <1>4
<1>9. ASSUME NEW q \in Proc, NEW w \in Way
      PROVE  /\ msg'[q][w].is = "read" => Len(msg'[q][w].data) = Count(q, w)
             /\ msg'[q][w].is = "posted" => dim[q] = w[1] /\ at'[q] > SendAt(S)
  <2>1. /\ msg[q][w].is = "read" => Len(msg[q][w].data) = Count(q, w)
        /\ msg[q][w].is = "posted" => dim[q] = w[1] /\ at[q] > SendAt(S)
    BY DEF ShapeInv
  <2>2. CASE q # p
    BY <1>3, <1>8, <2>1, <2>2
  <2>3. CASE q = p
    <3>1. /\ msg'[q][w].data = msg[q][w].data
          /\ msg'[q][w].is = IF w[1] = dim[p] THEN "posted" ELSE msg[p][w].is
      BY <1>5, <1>8, <2>3
    <3>2. at'[p] > SendAt(S)
      BY <1>3
    <3>3. QED
      BY <2>1, <2>3, <3>1, <3>2
  <2>4. QED
    BY <2>2, <2>3
<1>10. Proc' = Proc
  BY <1>1 DEF Proc
<1>11. QED
  BY <1>1, <1>3, <1>7, <1>9, <1>10 DEF ShapeInv, Count

LEMMA ShapeRead ==
  ASSUME ShapeInv, NEW p \in Proc, NEW w \in Way, Read(p, w)
  PROVE  ShapeInv'
<1> DEFINE data == IF IsDirect(S, w[1]) THEN Load(p, w) ELSE sbuf[p][w]
           new == [is |-> "read", data |-> data]
<1>1. /\ UNCHANGED <<S, field, sbuf, rbuf, dim, at, waiting>>
      /\ msg' = [msg EXCEPT ![p][w] = new]
  BY DEF Read
<1>2. S \in Setups /\ p \in ProcOf(S)
  BY DEF ShapeInv, Proc
<1>3. data \in Seq(Int) /\ Len(data) = Count(p, w)
  <2>1. ~IsDirect(S, w[1]) => Length[S][p][w] = Count(p, w)
    BY <1>2, MessageIs DEF Count
  <2>2. sbuf[p][w] \in Seq(Int) /\ Len(sbuf[p][w]) = Length[S][p][w]
    BY DEF ShapeInv
  <2>3. QED
    BY <2>1, <2>2, LoadIs
<1> HIDE DEF data
<1>4. msg \in [Proc -> [Way -> [is : Stages, data : Seq(Int)]]]
  BY DEF ShapeInv
<1>5. new \in [is : Stages, data : Seq(Int)]
  BY <1>3 DEF Stages
<1>6. msg' \in [Proc -> [Way -> [is : Stages, data : Seq(Int)]]]
  <2> HIDE DEF new
  <2>1. QED
    BY <1>1, <1>4, <1>5
<1>7. ASSUME NEW q \in Proc, NEW v \in Way
      PROVE  msg'[q][v] = IF q = p /\ v = w THEN new ELSE msg[q][v]
  <2> HIDE DEF new
  <2>1. QED
    BY <1>1, <1>4
<1>8. ASSUME NEW q \in Proc, NEW v \in Way
      PROVE  /\ msg'[q][v].is = "read" => Len(msg'[q][v].data) = Count(q, v)
             /\ msg'[q][v].is = "posted" => dim[q] = v[1] /\ at[q] > SendAt(S)
  <2>1. /\ msg[q][v].is = "read" => Len(msg[q][v].data) = Count(q, v)
        /\ msg[q][v].is = "posted" => dim[q] = v[1] /\ at[q] > SendAt(S)
    BY DEF ShapeInv
  <2>2. new.is = "read" /\ new.data = data
    OBVIOUS
  <2> HIDE DEF new
  <2>3. QED
    BY <1>3, <1>7, <2>1, <2>2
<1>9. Proc' = Proc
  BY <1>1 DEF Proc
<1>10. QED
  BY <1>1, <1>6, <1>8, <1>9 DEF ShapeInv, Count

\* Filling an array changes only its contents.
LEMMA FilledIs ==
  ASSUME NEW D, NEW f \in [D -> Int], NEW place, NEW data \in Seq(Int), NEW where
  PROVE  /\ Filled(f, place, data, where) \in [D -> Int]
         /\ \A i \in D : Filled(f, place, data, where)[i]
                           = IF i \in DOMAIN place /\ place[i] \in DOMAIN data \cap where
                             THEN data[place[i]] ELSE f[i]
BY DEF Filled

LEMMA SenderIs ==
  ASSUME ShapeInv, NEW q \in Proc, NEW w \in Way
  PROVE  /\ Sender(q, w) = From(S, q, w)
         /\ Sender(q, w) \in Proc
         /\ Count(Sender(q, w), w) = Count(q, w)
<1>1. S \in Setups /\ q \in ProcOf(S)
  BY DEF ShapeInv, Proc
<1>2. w[1] \in Dim /\ w[2] \in BOOLEAN /\ w = <<w[1], w[2]>>
  BY <1>1, MessageIs
<1>3. Sender(q, w) = From(S, q, w)
  BY DEF Sender, From
<1>4. From(S, q, w) \in ProcOf(S)
  BY <1>1, <1>2, FromIs
<1>5. SlabSize(S, Blk[S][From(S, q, w)], w[1]) = SlabSize(S, Blk[S][q], w[1])
  BY <1>1, <1>2, SameSize
<1>6. QED
  BY <1>3, <1>4, <1>5 DEF Count, Proc

LEMMA ShapeWrite ==
  ASSUME ShapeInv, NEW q \in Proc, NEW w \in Way, Write(q, w)
  PROVE  ShapeInv'
<1> DEFINE p == Sender(q, w)
           data == msg[p][w].data
           new == [is |-> "written", data |-> <<>>]
<1>1. /\ UNCHANGED <<S, sbuf, dim, at>>
      /\ msg[p][w].is = "read"
      /\ msg' = [msg EXCEPT ![p][w] = new]
      /\ waiting' = [waiting EXCEPT ![q] = waiting[q] \ {w[2]}]
      /\ IF IsDirect(S, w[1])
         THEN /\ field' = [field EXCEPT ![q] = Filled(field[q], Place[S][q][w], data, DOMAIN data)]
              /\ rbuf' = rbuf
         ELSE rbuf' = [rbuf EXCEPT ![q][w] = data] /\ field' = field
  BY DEF Write
<1>2. S \in Setups /\ q \in ProcOf(S)
  BY DEF ShapeInv, Proc
<1>3. p \in Proc /\ Count(p, w) = Count(q, w)
  BY SenderIs
<1> HIDE DEF p
<1>4. msg \in [Proc -> [Way -> [is : Stages, data : Seq(Int)]]]
  BY DEF ShapeInv
<1>5. data \in Seq(Int) /\ Len(data) = Count(q, w)
  BY <1>1, <1>3, <1>4 DEF ShapeInv
<1>6. new \in [is : Stages, data : Seq(Int)] /\ new.is = "written"
  BY DEF Stages
<1> HIDE DEF data, new
<1>7. msg' \in [Proc -> [Way -> [is : Stages, data : Seq(Int)]]]
  BY <1>1, <1>4, <1>6
<1>8. ASSUME NEW r \in Proc, NEW v \in Way
      PROVE  /\ msg'[r][v].is = "read" => Len(msg'[r][v].data) = Count(r, v)
             /\ msg'[r][v].is = "posted" => dim[r] = v[1] /\ at[r] > SendAt(S)
  <2>1. msg'[r][v] = IF r = p /\ v = w THEN new ELSE msg[r][v]
    BY <1>1, <1>3, <1>4
  <2>2. /\ msg[r][v].is = "read" => Len(msg[r][v].data) = Count(r, v)
        /\ msg[r][v].is = "posted" => dim[r] = v[1] /\ at[r] > SendAt(S)
    BY DEF ShapeInv
  <2>3. QED
    BY <1>6, <2>1, <2>2
<1>9. waiting' \in [Proc -> SUBSET BOOLEAN]
  BY <1>1 DEF ShapeInv
<1>10. DOMAIN field' = Proc /\ \A r \in Proc : field'[r] \in [0..(Size[S][r] - 1) -> Int]
  <2>1. DOMAIN field = Proc /\ \A r \in Proc : field[r] \in [0..(Size[S][r] - 1) -> Int]
    BY DEF ShapeInv
  <2>2. Filled(field[q], Place[S][q][w], data, DOMAIN data) \in [0..(Size[S][q] - 1) -> Int]
    <3> DEFINE D == 0..(Size[S][q] - 1)
               f == field[q]
               place == Place[S][q][w]
    <3>1. f \in [D -> Int]
      BY <2>1
    <3> HIDE DEF D, f, place
    <3>2. Filled(f, place, data, DOMAIN data) \in [D -> Int]
      <4>1. data \in Seq(Int)
        BY <1>5
      <4>2. QED
        BY <3>1, <4>1, FilledIs
    <3>3. QED
      BY <3>2 DEF D, f, place
  <2>3. QED
    BY <1>1, <2>1, <2>2
<1>11. /\ rbuf' \in [Proc -> [Way -> Seq(Int)]]
       /\ \A r \in Proc, v \in Way : Len(rbuf'[r][v]) = Length[S][r][v]
  <2>1. /\ rbuf \in [Proc -> [Way -> Seq(Int)]]
        /\ \A r \in Proc, v \in Way : Len(rbuf[r][v]) = Length[S][r][v]
    BY DEF ShapeInv
  <2>2. CASE IsDirect(S, w[1])
    BY <1>1, <2>1, <2>2
  <2>3. CASE ~IsDirect(S, w[1])
    <3>1. Length[S][q][w] = Count(q, w)
      BY <1>2, <2>3, MessageIs DEF Count
    <3>2. rbuf' = [rbuf EXCEPT ![q][w] = data]
      BY <1>1, <2>3
    <3>3. rbuf' \in [Proc -> [Way -> Seq(Int)]]
      BY <1>5, <2>1, <3>2
    <3>4. ASSUME NEW r \in Proc, NEW v \in Way
          PROVE  rbuf'[r][v] = IF r = q /\ v = w THEN data ELSE rbuf[r][v]
      BY <2>1, <3>2
    <3>5. ASSUME NEW r \in Proc, NEW v \in Way PROVE Len(rbuf'[r][v]) = Length[S][r][v]
      <4>1. CASE r = q /\ v = w
        BY <1>5, <3>1, <3>4, <4>1
      <4>2. CASE ~(r = q /\ v = w)
        BY <2>1, <3>4, <4>2
      <4>3. QED
        BY <4>1, <4>2
    <3>6. QED
      BY <3>3, <3>5
  <2>4. QED
    BY <2>2, <2>3
<1>12. Proc' = Proc
  BY <1>1 DEF Proc
<1>13. QED
  BY <1>1, <1>7, <1>8, <1>9, <1>10, <1>11, <1>12 DEF ShapeInv, Count

LEMMA ShapeUnpack ==
  ASSUME ShapeInv, NEW p \in Proc, dim[p] \in Dim, NEW left \in BOOLEAN,
         NEW f \in [0..(Size[S][p] - 1) -> Int]
  PROVE  Unpack(p, f, left) \in [0..(Size[S][p] - 1) -> Int]
<1> DEFINE w == <<dim[p], left>>
           D == 0..(Size[S][p] - 1)
           data == rbuf[p][w]
           place == Place[S][p][w]
           where == Worked[S][p][w]
<1>1. w \in Way
  BY InWay
<1>2. data \in Seq(Int)
  BY <1>1 DEF ShapeInv
<1>3. Unpack(p, f, left) = Filled(f, place, data, where)
  BY DEF Unpack
<1>4. f \in [D -> Int]
  OBVIOUS
<1> HIDE DEF w, D, data, place, where
<1>5. Filled(f, place, data, where) \in [D -> Int]
  BY <1>2, <1>4, FilledIs
<1>6. QED
  BY <1>3, <1>5 DEF D

LEMMA ShapeFinish ==
  ASSUME ShapeInv, NEW p \in Proc, Finish(p)
  PROVE  ShapeInv'
<1> DEFINE once == Unpack(p, field[p], FALSE)
           twice == Unpack(p, once, TRUE)
<1>1. /\ UNCHANGED <<S, sbuf, rbuf, waiting, msg>>
      /\ dim' = [dim EXCEPT ![p] = dim[p] + 1] /\ at' = [at EXCEPT ![p] = 1]
      /\ \A left \in BOOLEAN : msg[p][<<dim[p], left>>].is \in {"read", "written"}
      /\ field' = IF IsDirect(S, dim[p]) THEN field ELSE [field EXCEPT ![p] = twice]
  BY DEF Finish
<1>2. dim[p] \in Dim
  BY IsNextAt DEF Finish
<1>3. S \in Setups
  BY DEF ShapeInv
<1>4. at' \in [Proc -> 1..WaitAt(S)] /\ \A q \in Proc : q # p => at'[q] = at[q]
  <2>1. 1 \in 1..WaitAt(S)
    BY <1>3, CallsAre
  <2>2. QED
    BY <1>1, <2>1 DEF ShapeInv
<1>5. dim' \in [Proc -> 1..4] /\ \A q \in Proc : q # p => dim'[q] = dim[q]
  BY <1>1, <1>2 DEF ShapeInv, Dim
<1>6. DOMAIN field' = Proc /\ \A r \in Proc : field'[r] \in [0..(Size[S][r] - 1) -> Int]
  <2>1. DOMAIN field = Proc /\ \A r \in Proc : field[r] \in [0..(Size[S][r] - 1) -> Int]
    BY DEF ShapeInv
  <2>2. once \in [0..(Size[S][p] - 1) -> Int]
    BY <1>2, <2>1, ShapeUnpack
  <2>3. twice \in [0..(Size[S][p] - 1) -> Int]
    <3> HIDE DEF once
    <3>1. QED
      BY <1>2, <2>2, ShapeUnpack
  <2> HIDE DEF twice
  <2>4. QED
    BY <1>1, <2>1, <2>3
<1>7. ASSUME NEW q \in Proc, NEW w \in Way, msg[q][w].is = "posted"
      PROVE  dim'[q] = w[1] /\ at'[q] > SendAt(S)
  <2>1. dim[q] = w[1] /\ at[q] > SendAt(S)
    BY <1>7 DEF ShapeInv
  <2>2. q # p
    <3>1. w[2] \in BOOLEAN /\ w = <<w[1], w[2]>>
      BY DEF Way
    <3>2. SUFFICES ASSUME q = p PROVE FALSE
      OBVIOUS
    <3>3. w = <<dim[p], w[2]>>
      BY <2>1, <3>1, <3>2
    <3>4. msg[p][w].is \in {"read", "written"}
      BY <1>1, <3>1, <3>3
    <3>5. QED
      BY <1>7, <3>2, <3>4
  <2>3. QED
    BY <1>4, <1>5, <2>1, <2>2
<1>8. Proc' = Proc
  BY <1>1 DEF Proc
<1>9. /\ S' \in Setups /\ waiting' \in [Proc -> SUBSET BOOLEAN]
      /\ sbuf' \in [Proc -> [Way -> Seq(Int)]] /\ rbuf' \in [Proc -> [Way -> Seq(Int)]]
      /\ msg' \in [Proc -> [Way -> [is : Stages, data : Seq(Int)]]]
      /\ \A q \in Proc, w \in Way :
           /\ Len(sbuf'[q][w]) = Length[S][q][w] /\ Len(rbuf'[q][w]) = Length[S][q][w]
           /\ msg'[q][w].is = "read" => Len(msg'[q][w].data) = Count(q, w)
  BY <1>1 DEF ShapeInv
<1>10. \A q \in Proc, w \in Way :
         msg'[q][w].is = "posted" => dim'[q] = w[1] /\ at'[q] > SendAt(S)
  BY <1>1, <1>7
<1>11. S' = S
  BY <1>1
<1>12. QED
  BY <1>4, <1>5, <1>6, <1>8, <1>9, <1>10, <1>11 DEF ShapeInv, Count

LEMMA ShapeStutter ==
  ASSUME ShapeInv, UNCHANGED vars
  PROVE  ShapeInv'
BY DEF ShapeInv, vars, Proc, Count

LEMMA ShapeNext == ShapeInv /\ [Next]_vars => ShapeInv'
<1> SUFFICES ASSUME ShapeInv, [Next]_vars PROVE ShapeInv'
  OBVIOUS
<1>1. ASSUME NEW p \in Proc, Pack(p) PROVE ShapeInv'
  BY <1>1, ShapePack
<1>2. ASSUME NEW p \in Proc, Receive(p) PROVE ShapeInv'
  BY <1>2, ShapeReceive
<1>3. ASSUME NEW p \in Proc, Send(p) PROVE ShapeInv'
  BY <1>3, ShapeSend
<1>4. ASSUME NEW p \in Proc, Finish(p) PROVE ShapeInv'
  BY <1>4, ShapeFinish
<1>5. ASSUME NEW p \in Proc, NEW w \in Way, Read(p, w) PROVE ShapeInv'
  BY <1>5, ShapeRead
<1>6. ASSUME NEW p \in Proc, NEW w \in Way, Write(p, w) PROVE ShapeInv'
  BY <1>6, ShapeWrite
<1>7. CASE UNCHANGED vars
  BY <1>7, ShapeStutter
<1>8. QED
  BY <1>1, <1>2, <1>3, <1>4, <1>5, <1>6, <1>7 DEF Next, Terminated

LEMMA ShapeInvariance == Spec => []ShapeInv
<1>1. Init => ShapeInv
  BY ShapeInit
<1>2. ShapeInv /\ [Next]_vars => ShapeInv'
  BY ShapeNext
<1>3. QED
  BY <1>1, <1>2, PTL DEF Spec

(***************************************************************************)
(* Type correctness: no loop of packing or unpacking leaves an array, in any   *)
(* backend (mpi_comm/runtime.cpp:484-742 and its likes).                     *)
(***************************************************************************)
THEOREM TypeCorrect == Spec => []TypeOK
<1>1. ShapeInv => TypeOK
  <2> SUFFICES ASSUME ShapeInv PROVE TypeOK
    OBVIOUS
  <2>1. /\ S \in Setups /\ dim \in [Proc -> 1..4] /\ at \in [Proc -> 1..WaitAt(S)]
        /\ waiting \in [Proc -> SUBSET BOOLEAN]
    BY DEF ShapeInv
  <2>2. DOMAIN Calls(S) = 1..WaitAt(S)
    BY <2>1, CallsAre
  <2>3. ASSUME NEW p \in Proc PROVE DOMAIN field[p] = 0..(Size[S][p] - 1)
    BY DEF ShapeInv
  <2>4. ASSUME NEW p \in Proc, NEW w \in Way
        PROVE  /\ DOMAIN Place[S][p][w] \subseteq 0..(Size[S][p] - 1)
               /\ Len(sbuf[p][w]) = Length[S][p][w] /\ Len(rbuf[p][w]) = Length[S][p][w]
               /\ msg[p][w].is \in Stages
    <3>1. p \in ProcOf(S)
      BY DEF Proc
    <3>2. \A k \in DOMAIN In[S][p][w] : In[S][p][w][k] \in 0..(Size[S][p] - 1)
      BY <2>1, <3>1, MessageIs
    <3>3. DOMAIN Place[S][p][w] \subseteq 0..(Size[S][p] - 1)
      BY <2>1, <3>1, <3>2, PlaceIs
    <3>4. QED
      BY <3>3 DEF ShapeInv
  <2>5. QED
    BY <2>1, <2>2, <2>3, <2>4 DEF TypeOK, Stages
<1>2. QED
  BY <1>1, ShapeInvariance, PTL

(***************************************************************************)
(* Messages fit, between blocks of whatever sizes (mpi_comm/runtime.cpp:517-533, *)
(* with the buffers of 71-92).                                              *)
(***************************************************************************)
THEOREM AllMessagesFit == Spec => []MessagesFit
<1>1. ShapeInv => MessagesFit
  <2> SUFFICES ASSUME ShapeInv, NEW q \in Proc, NEW w \in Way, NEW p, p = Sender(q, w)
               PROVE  /\ msg[p][w].is = "read" => Len(msg[p][w].data) = Len(In[S][q][w])
                      /\ ~IsDirect(S, w[1]) => /\ Len(rbuf[q][w]) = Len(In[S][q][w])
                                               /\ Len(sbuf[p][w]) = Len(Out[S][p][w])
    BY DEF MessagesFit
  <2>1. p \in Proc /\ Count(p, w) = Count(q, w)
    BY SenderIs
  <2>2. S \in Setups /\ q \in ProcOf(S) /\ p \in ProcOf(S)
    BY <2>1 DEF ShapeInv, Proc
  <2> DEFINE n == Count(q, w)
  <2>3. /\ n \in Nat /\ In[S][q][w] \in [1..n -> 0..(Size[S][q] - 1)]
        /\ ~IsDirect(S, w[1]) => Length[S][q][w] = n
    BY <2>2, MessageIs DEF Count
  <2>4. /\ Out[S][p][w] \in [1..n -> 0..(Size[S][p] - 1)]
        /\ ~IsDirect(S, w[1]) => Length[S][p][w] = n
    BY <2>1, <2>2, MessageIs DEF Count
  <2>5. /\ msg[p][w].is = "read" => Len(msg[p][w].data) = n
        /\ Len(rbuf[q][w]) = Length[S][q][w] /\ Len(sbuf[p][w]) = Length[S][p][w]
    BY <2>1 DEF ShapeInv
  <2> HIDE DEF n
  <2>6. Len(In[S][q][w]) = n /\ Len(Out[S][p][w]) = n
    BY <2>3, <2>4
  <2>7. QED
    BY <2>3, <2>4, <2>5, <2>6
<1>2. QED
  BY <1>1, ShapeInvariance, PTL

-----------------------------------------------------------------------------
(***************************************************************************)
(* Values stay right.                                                       *)
(***************************************************************************)
IInv == ShapeInv /\ ValueInv

Values == FieldsRight /\ PackedRight /\ ReadRight /\ ArrivedRight

\* Two different ways are two dimensions or two directions.
LEMMA WayIs ==
  ASSUME NEW w \in Way
  PROVE  w[1] \in Dim /\ w[2] \in BOOLEAN /\ w = <<w[1], w[2]>>
BY DEF Way

LEMMA ValueInit == Init => ValueInv
<1> SUFFICES ASSUME Init PROVE Values
  BY DEF ValueInv, Values
<1>1. ShapeInv
  BY ShapeInit
<1>2. S \in Setups /\ \A p \in Proc : p \in ProcOf(S)
  BY <1>1 DEF ShapeInv, Proc
<1>3. \A p \in Proc : dim[p] = 1 /\ at[p] = 1 /\ field[p] = make_fields(S, p)
  BY DEF Init
<1>4. FieldsRight
  BY <1>2, <1>3, KnownAtStart DEF FieldsRight
<1>5. ASSUME NEW p \in Proc, NEW w \in Way, ~IsDirect(S, w[1])
      PROVE  ~(dim[p] > w[1] \/ (dim[p] = w[1] /\ at[p] > PackAt(S)))
  <2>1. w[1] \in Dim
    BY WayIs
  <2>2. PackAt(S) >= 1 /\ PackAt(S) \in Int
    BY <1>2, <1>5, <2>1, CallsAre
  <2>3. QED
    BY <1>3, <2>1, <2>2 DEF Dim
<1>6. PackedRight
  BY <1>5 DEF PackedRight
<1>7. ReadRight
  BY DEF Init, ReadRight
<1>8. ArrivedRight
  <2>1. RecvAt(S) \in 1..3
    BY <1>2, CallsAre
  <2>2. QED
    BY <1>3, <2>1 DEF ArrivedRight
<1>9. QED
  BY <1>4, <1>6, <1>7, <1>8 DEF Values

\* What a message holds is right where it arrives.
LEMMA Delivered ==
  ASSUME ShapeInv, NEW q \in Proc, NEW w \in Way, NEW data, RightData(Sender(q, w), w, data),
         NEW k \in DOMAIN In[S][q][w]
  PROVE  data[k] = Reference[S][q][In[S][q][w][k]]
<1> DEFINE p == Sender(q, w)
           n == Count(q, w)
<1>1. p = From(S, q, w) /\ p \in Proc /\ Count(p, w) = n
  BY SenderIs
<1>2. S \in Setups /\ q \in ProcOf(S) /\ p \in ProcOf(S)
  BY <1>1 DEF ShapeInv, Proc
<1>3. w[1] \in Dim /\ w[2] \in BOOLEAN /\ w = <<w[1], w[2]>>
  BY WayIs
<1>4. In[S][q][w] \in [1..n -> 0..(Size[S][q] - 1)]
  BY <1>2, MessageIs DEF Count
<1>5. Out[S][p][w] \in [1..n -> 0..(Size[S][p] - 1)]
  BY <1>1, <1>2, MessageIs DEF Count
<1>6. k \in 1..n /\ k \in DOMAIN Out[S][p][w]
  BY <1>4, <1>5
<1>7. k \in 1..Volume(SlabSize(S, Blk[S][q], w[1]))
  BY <1>6 DEF Count
<1> HIDE DEF p, n
<1>8. Reference[S][p][Out[S][p][w][k]] = Reference[S][q][In[S][q][w][k]]
  <2> DEFINE d == w[1]
             left == w[2]
  <2>1. w = <<d, left>>
    BY <1>3
  <2>2. d \in Dim /\ left \in BOOLEAN /\ S \in Setups /\ q \in ProcOf(S)
    BY <1>2, <1>3
  <2>3. k \in 1..Volume(SlabSize(S, Blk[S][q], d))
    BY <1>7
  <2>4. p = From(S, q, <<d, left>>)
    BY <1>1, <2>1
  <2> HIDE DEF d, left
  <2>5. Reference[S][p][Out[S][p][<<d, left>>][k]] = Reference[S][q][In[S][q][<<d, left>>][k]]
    BY <2>2, <2>3, <2>4, MessageCell, SMTT(30)
  <2>6. QED
    BY <2>1, <2>5
<1>9. data[k] = Reference[S][p][Out[S][p][w][k]]
  BY <1>6 DEF RightData, p
<1>10. QED
  BY <1>8, <1>9

\* data is what belongs in the cells it goes to.
Carries(q, w, data) ==
    \A k \in DOMAIN In[S][q][w] : data[k] = Reference[S][q][In[S][q][w][k]]

\* The array g is as right as f was, and right in the cells of a message.
Righted(q, w, f, g) ==
    /\ \A i \in 0..(Size[S][q] - 1) : g[i] = f[i] \/ g[i] = Reference[S][q][i]
    /\ \A k \in DOMAIN In[S][q][w] : g[In[S][q][w][k]] = Reference[S][q][In[S][q][w][k]]

\* Filling with right values leaves an array as right as it was, and the cells
\* filled are right.
LEMMA FillRight ==
  ASSUME ShapeInv, NEW q \in Proc, NEW w \in Way,
         NEW f \in [0..(Size[S][q] - 1) -> Int], NEW data \in Seq(Int), NEW where,
         Carries(q, w, data),
         DOMAIN In[S][q][w] \subseteq DOMAIN data \cap where,
         NEW g, g = Filled(f, Place[S][q][w], data, where)
  PROVE  Righted(q, w, f, g)
<1> DEFINE D == 0..(Size[S][q] - 1)
           in == In[S][q][w]
           place == Place[S][q][w]
           R == Reference[S][q]
<1>1. S \in Setups /\ q \in ProcOf(S)
  BY DEF ShapeInv, Proc
<1>2. /\ DOMAIN place = {in[k] : k \in DOMAIN in}
      /\ \A i \in DOMAIN place : place[i] \in DOMAIN in /\ in[place[i]] = i
  BY <1>1, PlaceIs
<1>3. \A k \in DOMAIN in : in[k] \in D
  <2> DEFINE n == Volume(SlabSize(S, Blk[S][q], w[1]))
  <2>1. in \in [1..n -> D]
    BY <1>1, MessageIs
  <2> HIDE DEF n, in, D
  <2>2. QED
    BY <2>1
<1>4. /\ \A k \in DOMAIN in : data[k] = R[in[k]]
      /\ DOMAIN in \subseteq DOMAIN data \cap where
      /\ f \in [D -> Int] /\ g = Filled(f, place, data, where)
  BY DEF Carries
<1> HIDE DEF D, in, place, R
<1>5. \A i \in D : g[i] = IF i \in DOMAIN place /\ place[i] \in DOMAIN data \cap where
                          THEN data[place[i]] ELSE f[i]
  <2>1. f \in [D -> Int] /\ data \in Seq(Int) /\ g = Filled(f, place, data, where)
    BY <1>4
  <2>2. DOMAIN f = D
    BY <2>1
  <2>3. g = [i \in D |-> IF i \in DOMAIN place /\ place[i] \in DOMAIN data \cap where
                         THEN data[place[i]] ELSE f[i]]
    BY <2>1, <2>2 DEF Filled
  <2>4. QED
    BY <2>3
<1>6. ASSUME NEW i \in D PROVE g[i] = f[i] \/ g[i] = R[i]
  <2>1. CASE i \in DOMAIN place
    <3>1. data[place[i]] = R[i]
      BY <1>2, <1>4, <2>1
    <3>2. QED
      BY <1>5, <3>1
  <2>2. CASE i \notin DOMAIN place
    BY <1>5, <2>2
  <2>3. QED
    BY <2>1, <2>2
<1>7. ASSUME NEW k \in DOMAIN in PROVE g[in[k]] = R[in[k]]
  <2> DEFINE i == in[k]
  <2>1. i \in D /\ i \in DOMAIN place
    BY <1>2, <1>3
  <2> HIDE DEF i
  <2>2. place[i] \in DOMAIN in /\ in[place[i]] = i
    BY <1>2, <2>1
  <2>3. data[place[i]] = R[i] /\ place[i] \in DOMAIN data \cap where
    BY <1>4, <2>2
  <2>4. g[i] = R[i]
    BY <1>5, <2>1, <2>3
  <2>5. QED
    BY <2>4 DEF i
<1>8. QED
  BY <1>6, <1>7 DEF Righted, D, in, R

LEMMA ValuePack ==
  ASSUME ShapeInv, Values, S.backend # "kernels_z", NEW p \in Proc, Pack(p)
  PROVE  Values'
<1>1. /\ UNCHANGED <<S, field, rbuf, dim, waiting, msg>> /\ Proc' = Proc
      /\ at' = [at EXCEPT ![p] = at[p] + 1]
  BY DEF Pack, Proc
<1>2. sbuf' = [sbuf EXCEPT ![p] = [w \in Way |-> IF w[1] # dim[p] \/ IsDirect(S, w[1])
                                                  THEN sbuf[p][w] ELSE Packed(p, w)]]
  BY DEF Pack, Races
<1>3. dim[p] \in Dim /\ at[p] = PackAt(S)
  BY IsNextAt DEF Pack
<1>4. S \in Setups /\ \A q \in Proc : q \in ProcOf(S)
  BY DEF ShapeInv, Proc
<1>5. RecvAt(S) \in Int /\ PackAt(S) \in Int /\ RecvAt(S) # PackAt(S)
  BY <1>4, CallsAre
<1>6. at'[p] = PackAt(S) + 1 /\ \A q \in Proc : q # p => at'[q] = at[q]
  BY <1>1, <1>3 DEF ShapeInv
<1>7. /\ \A w \in Way : sbuf'[p][w] = IF w[1] # dim[p] \/ IsDirect(S, w[1])
                                      THEN sbuf[p][w] ELSE Packed(p, w)
      /\ \A q \in Proc : q # p => sbuf'[q] = sbuf[q]
  BY <1>2 DEF ShapeInv
<1>8. ASSUME NEW w \in Way, w[1] = dim[p], ~IsDirect(S, w[1])
      PROVE  RightData(p, w, Packed(p, w))
  <2> DEFINE n == Count(p, w)
             out == Out[S][p][w]
             old == sbuf[p][w]
             worked == Worked[S][p][w]
             D == 0..(Size[S][p] - 1)
  <2>1. /\ n \in Nat /\ out \in [1..n -> D]
        /\ \A k \in 1..n : out[k] \in KnownCells(S, p, dim[p])
        /\ worked = 1..n /\ Length[S][p][w] = n
    BY <1>4, <1>8, MessageIs DEF Count
  <2>2. old \in Seq(Int) /\ Len(old) = n
    BY <2>1 DEF ShapeInv
  <2>3. \A k \in 1..n : Load(p, w)[k] = field[p][out[k]]
    BY LoadIs
  <2>4. \A k \in 1..n : field[p][out[k]] = Reference[S][p][out[k]]
    BY <2>1 DEF Values, FieldsRight
  <2>5. Packed(p, w) = [k \in DOMAIN old |-> IF k \in worked THEN Load(p, w)[k] ELSE old[k]]
    BY DEF Packed
  <2> HIDE DEF n, out, old, worked, D
  <2>6. DOMAIN old = 1..n
    BY <2>2
  <2>7. \A k \in 1..n : Packed(p, w)[k] = Load(p, w)[k]
    BY <2>1, <2>5, <2>6
  <2>8. DOMAIN out = 1..n
    BY <2>1
  <2>9. QED
    BY <2>3, <2>4, <2>7, <2>8 DEF RightData, out
<1>9. FieldsRight'
  BY <1>1 DEF Values, FieldsRight
<1>10. ReadRight'
  BY <1>1 DEF Values, ReadRight, RightData
<1>11. ASSUME NEW q \in Proc, at'[q] > RecvAt(S) PROVE at[q] > RecvAt(S)
  BY <1>3, <1>5, <1>6, <1>11
<1>12. ArrivedRight'
  BY <1>1, <1>11 DEF Values, ArrivedRight, RightHalo
<1>13. ASSUME NEW q \in Proc, NEW w \in Way, ~IsDirect(S, w[1]),
              dim[q] > w[1] \/ (dim[q] = w[1] /\ at'[q] > PackAt(S))
       PROVE  RightData(q, w, sbuf'[q][w])
  <2>1. CASE q = p /\ w[1] = dim[p]
    BY <1>7, <1>8, <1>13, <2>1
  <2>2. CASE ~(q = p /\ w[1] = dim[p])
    <3>1. sbuf'[q][w] = sbuf[q][w]
      BY <1>7, <2>2
    <3>2. dim[q] > w[1] \/ (dim[q] = w[1] /\ at[q] > PackAt(S))
      BY <1>6, <1>13, <2>2
    <3>3. QED
      BY <1>13, <3>1, <3>2 DEF Values, PackedRight
  <2>3. QED
    BY <2>1, <2>2
<1>14. PackedRight'
  <2>1. S' = S /\ dim' = dim
    BY <1>1
  <2>2. QED
    BY <1>1, <1>13, <2>1 DEF PackedRight, RightData
<1>15. QED
  BY <1>9, <1>10, <1>12, <1>14 DEF Values

LEMMA ValueReceive ==
  ASSUME ShapeInv, Values, NEW p \in Proc, Receive(p)
  PROVE  Values'
<1>1. /\ UNCHANGED <<S, field, sbuf, rbuf, dim, msg>> /\ Proc' = Proc
      /\ at' = [at EXCEPT ![p] = at[p] + 1]
      /\ waiting' = [waiting EXCEPT ![p] = BOOLEAN]
  BY DEF Receive, Proc
<1>2. at[p] = RecvAt(S)
  BY IsNextAt DEF Receive
<1>3. S \in Setups
  BY DEF ShapeInv
<1>4. RecvAt(S) \in Int /\ PackAt(S) \in Int /\ RecvAt(S) # PackAt(S)
  BY <1>3, CallsAre
<1>5. /\ at'[p] = RecvAt(S) + 1 /\ waiting'[p] = BOOLEAN
      /\ \A q \in Proc : q # p => at'[q] = at[q] /\ waiting'[q] = waiting[q]
  BY <1>1, <1>2 DEF ShapeInv
<1>6. FieldsRight' /\ ReadRight'
  BY <1>1 DEF Values, FieldsRight, ReadRight, RightData
<1>7. ASSUME NEW q \in Proc, at'[q] > PackAt(S) PROVE at[q] > PackAt(S)
  BY <1>2, <1>4, <1>5, <1>7
<1>8. PackedRight'
  BY <1>1, <1>7 DEF Values, PackedRight, RightData
<1>9. ASSUME NEW q \in Proc, NEW w \in Way, at'[q] > RecvAt(S), w[2] \notin waiting'[q]
      PROVE  at[q] > RecvAt(S) /\ w[2] \notin waiting[q]
  <2>1. w[2] \in BOOLEAN
    BY WayIs
  <2>2. QED
    BY <1>5, <1>9, <2>1
<1>10. ArrivedRight'
  BY <1>1, <1>9 DEF Values, ArrivedRight, RightHalo
<1>11. QED
  BY <1>6, <1>8, <1>10 DEF Values

LEMMA ValueSend ==
  ASSUME ShapeInv, Values, NEW p \in Proc, Send(p)
  PROVE  Values'
<1> DEFINE new == [w \in Way |-> IF w[1] = dim[p] THEN [msg[p][w] EXCEPT !.is = "posted"]
                                 ELSE msg[p][w]]
<1>1. /\ UNCHANGED <<S, field, sbuf, rbuf, dim, waiting>> /\ Proc' = Proc
      /\ at' = [at EXCEPT ![p] = at[p] + 1]
      /\ msg' = [msg EXCEPT ![p] = new]
  BY DEF Send, Proc
<1>2. at[p] = SendAt(S)
  BY IsNextAt DEF Send
<1>3. S \in Setups
  BY DEF ShapeInv
<1>4. /\ RecvAt(S) \in Int /\ PackAt(S) \in Int /\ SendAt(S) \in Int
      /\ RecvAt(S) # SendAt(S) /\ PackAt(S) < SendAt(S)
  BY <1>3, CallsAre
<1>5. at'[p] = SendAt(S) + 1 /\ \A q \in Proc : q # p => at'[q] = at[q]
  BY <1>1, <1>2 DEF ShapeInv
<1>6. FieldsRight'
  BY <1>1 DEF Values, FieldsRight
<1>7. ASSUME NEW q \in Proc
      PROVE  /\ at'[q] > PackAt(S) => at[q] > PackAt(S)
             /\ at'[q] > RecvAt(S) => at[q] > RecvAt(S)
  BY <1>2, <1>4, <1>5
<1>8. PackedRight'
  BY <1>1, <1>7 DEF Values, PackedRight, RightData
<1>9. ArrivedRight'
  BY <1>1, <1>7 DEF Values, ArrivedRight, RightHalo
<1>10. ASSUME NEW q \in Proc, NEW w \in Way, msg'[q][w].is = "read"
       PROVE  msg[q][w].is = "read" /\ msg'[q][w].data = msg[q][w].data
  <2>1. msg \in [Proc -> [Way -> [is : Stages, data : Seq(Int)]]]
    BY DEF ShapeInv
  <2>2. q # p => msg'[q] = msg[q]
    BY <1>1, <2>1
  <2>3. msg'[p][w] = IF w[1] = dim[p] THEN [msg[p][w] EXCEPT !.is = "posted"] ELSE msg[p][w]
    BY <1>1, <2>1
  <2>4. [msg[p][w] EXCEPT !.is = "posted"].is = "posted"
    BY <2>1
  <2>5. QED
    BY <1>10, <2>2, <2>3, <2>4
<1>11. ReadRight'
  BY <1>1, <1>10 DEF Values, ReadRight, RightData
<1>12. QED
  BY <1>6, <1>8, <1>9, <1>11 DEF Values

LEMMA ValueRead ==
  ASSUME ShapeInv, Values, NEW p \in Proc, NEW w \in Way, Read(p, w)
  PROVE  Values'
<1> DEFINE data == IF IsDirect(S, w[1]) THEN Load(p, w) ELSE sbuf[p][w]
           new == [is |-> "read", data |-> data]
<1>1. /\ UNCHANGED <<S, field, sbuf, rbuf, dim, at, waiting>> /\ Proc' = Proc
      /\ msg[p][w].is = "posted" /\ msg' = [msg EXCEPT ![p][w] = new]
  BY DEF Read, Proc
<1>2. dim[p] = w[1] /\ at[p] > SendAt(S)
  BY <1>1 DEF ShapeInv
<1>3. S \in Setups /\ p \in ProcOf(S)
  BY DEF ShapeInv, Proc
<1>4. FieldsRight' /\ PackedRight' /\ ArrivedRight'
  <2>1. FieldsRight'
    BY <1>1 DEF Values, FieldsRight
  <2>2. PackedRight'
    BY <1>1 DEF Values, PackedRight, RightData
  <2>3. ArrivedRight'
    BY <1>1 DEF Values, ArrivedRight, RightHalo
  <2>4. QED
    BY <2>1, <2>2, <2>3
<1>5. RightData(p, w, data)
  <2>1. CASE IsDirect(S, w[1])
    <3> DEFINE n == Count(p, w)
               out == Out[S][p][w]
    <3>1. out \in [1..n -> 0..(Size[S][p] - 1)] /\ \A k \in 1..n : out[k] \in KnownCells(S, p, w[1])
      BY <1>3, MessageIs DEF Count
    <3>2. \A k \in 1..n : Load(p, w)[k] = field[p][out[k]]
      BY LoadIs
    <3>3. \A k \in 1..n : field[p][out[k]] = Reference[S][p][out[k]]
      BY <1>2, <3>1 DEF Values, FieldsRight
    <3>4. DOMAIN out = 1..n
      BY <3>1
    <3> HIDE DEF n, out
    <3>5. \A k \in DOMAIN out : Load(p, w)[k] = Reference[S][p][out[k]]
      BY <3>2, <3>3, <3>4
    <3>6. QED
      BY <2>1, <3>5 DEF RightData, out
  <2>2. CASE ~IsDirect(S, w[1])
    <3>1. at[p] > PackAt(S)
      <4>1. PackAt(S) \in Int /\ SendAt(S) \in Int /\ PackAt(S) < SendAt(S)
        BY <1>3, CallsAre
      <4>2. WaitAt(S) \in 3..4
        BY <1>3, CallsAre
      <4>3. at[p] \in 1..WaitAt(S)
        BY DEF ShapeInv
      <4>4. QED
        BY <1>2, <4>1, <4>2, <4>3
    <3>2. RightData(p, w, sbuf[p][w])
      BY <1>2, <2>2, <3>1 DEF Values, PackedRight
    <3>3. QED
      BY <2>2, <3>2
  <2>3. QED
    BY <2>1, <2>2
<1> HIDE DEF data
<1>6. new.is = "read" /\ new.data = data
  OBVIOUS
<1> HIDE DEF new
<1>7. ASSUME NEW q \in Proc, NEW v \in Way
      PROVE  msg'[q][v] = IF q = p /\ v = w THEN new ELSE msg[q][v]
  BY <1>1 DEF ShapeInv
<1>8. ASSUME NEW q \in Proc, NEW v \in Way, msg'[q][v].is = "read"
      PROVE  RightData(q, v, msg'[q][v].data)
  <2>1. msg[q][v].is = "read" => RightData(q, v, msg[q][v].data)
    BY DEF Values, ReadRight
  <2>2. QED
    BY <1>5, <1>6, <1>7, <1>8, <2>1
<1>9. ReadRight'
  BY <1>1, <1>8 DEF ReadRight, RightData
<1>10. QED
  BY <1>4, <1>9 DEF Values

LEMMA ValueWrite ==
  ASSUME ShapeInv, Values, NEW q \in Proc, NEW w \in Way, Write(q, w)
  PROVE  Values'
<1> DEFINE p == Sender(q, w)
           data == msg[p][w].data
           new == [is |-> "written", data |-> <<>>]
           R(r) == Reference[S][r]
           g == Filled(field[q], Place[S][q][w], data, DOMAIN data)
<1>1. /\ UNCHANGED <<S, sbuf, dim, at>> /\ Proc' = Proc
      /\ dim[q] = w[1] /\ msg[p][w].is = "read"
      /\ msg' = [msg EXCEPT ![p][w] = new]
      /\ waiting' = [waiting EXCEPT ![q] = waiting[q] \ {w[2]}]
      /\ IsDirect(S, w[1]) => field' = [field EXCEPT ![q] = g] /\ rbuf' = rbuf
      /\ ~IsDirect(S, w[1]) => rbuf' = [rbuf EXCEPT ![q][w] = data] /\ field' = field
  BY DEF Write, Proc
<1>2. S \in Setups /\ q \in ProcOf(S)
  BY DEF ShapeInv, Proc
<1>3. p \in Proc /\ Count(p, w) = Count(q, w)
  BY SenderIs
<1>4. msg \in [Proc -> [Way -> [is : Stages, data : Seq(Int)]]]
  BY DEF ShapeInv
<1>5. data \in Seq(Int)
  BY <1>3, <1>4
<1>6. Len(data) = Count(q, w)
  BY <1>1, <1>3 DEF ShapeInv
<1>7. RightData(p, w, data)
  BY <1>1, <1>3 DEF Values, ReadRight
<1>8. \A k \in DOMAIN In[S][q][w] : data[k] = R(q)[In[S][q][w][k]]
  BY <1>7, Delivered
<1>9. DOMAIN In[S][q][w] \subseteq DOMAIN data \cap DOMAIN data
  <2> DEFINE n == Count(q, w)
             in == In[S][q][w]
  <2>1. n \in Nat /\ in \in [1..n -> 0..(Size[S][q] - 1)]
    BY <1>2, MessageIs DEF Count
  <2> HIDE DEF n, in, data
  <2>2. DOMAIN in = 1..n /\ DOMAIN data = 1..n
    BY <1>5, <1>6, <2>1 DEF n
  <2>3. QED
    BY <2>2 DEF in
<1>10. field[q] \in [0..(Size[S][q] - 1) -> Int]
  BY DEF ShapeInv
<1>11. /\ \A i \in 0..(Size[S][q] - 1) : g[i] = field[q][i] \/ g[i] = R(q)[i]
       /\ \A k \in DOMAIN In[S][q][w] : g[In[S][q][w][k]] = R(q)[In[S][q][w][k]]
  <2> DEFINE f == field[q]
             where == DOMAIN data
  <2>1. /\ f \in [0..(Size[S][q] - 1) -> Int] /\ g = Filled(f, Place[S][q][w], data, where)
        /\ DOMAIN In[S][q][w] \subseteq DOMAIN data \cap where
    BY <1>9, <1>10
  <2>2. Carries(q, w, data)
    BY <1>8 DEF Carries
  <2>3. data \in Seq(Int)
    BY <1>5
  <2> HIDE DEF f, where, g, data
  <2>4. Righted(q, w, f, g)
    BY <2>1, <2>2, <2>3, FillRight
  <2>5. QED
    BY <2>4 DEF f, Righted
<1>12. new.is = "written"
  OBVIOUS
<1> HIDE DEF p, data, new, g
<1>13. ASSUME NEW r \in Proc, NEW v \in Way
       PROVE  msg'[r][v] = IF r = p /\ v = w THEN new ELSE msg[r][v]
  BY <1>1, <1>3, <1>4
<1>14. ASSUME NEW r \in Proc, NEW i \in 0..(Size[S][r] - 1)
       PROVE  field'[r][i] = field[r][i] \/ field'[r][i] = R(r)[i]
  <2>1. field'[r] = field[r] \/ (r = q /\ field'[r] = g)
    BY <1>1 DEF ShapeInv
  <2>2. QED
    BY <1>11, <2>1
<1>15. FieldsRight'
  <2>1. ASSUME NEW r \in Proc, NEW i \in KnownCells(S, r, dim[r])
        PROVE  field'[r][i] = R(r)[i]
    <3>1. i \in 0..(Size[S][r] - 1)
      BY DEF KnownCells
    <3>2. field[r][i] = R(r)[i]
      BY DEF Values, FieldsRight
    <3>3. QED
      BY <1>14, <3>1, <3>2
  <2>2. QED
    BY <1>1, <2>1 DEF FieldsRight
<1>16. PackedRight'
  BY <1>1 DEF Values, PackedRight, RightData
<1>17. ReadRight'
  <2>1. ASSUME NEW r \in Proc, NEW v \in Way, msg'[r][v].is = "read"
        PROVE  RightData(r, v, msg'[r][v].data)
    <3>1. msg'[r][v] = msg[r][v]
      BY <1>12, <1>13, <2>1
    <3>2. QED
      BY <2>1, <3>1 DEF Values, ReadRight
  <2>2. QED
    BY <1>1, <2>1 DEF ReadRight, RightData
<1>18. ASSUME NEW r \in Proc, NEW v \in Way, dim[r] = v[1], at[r] > RecvAt(S),
              v[2] \notin waiting'[r], NEW k \in DOMAIN In[S][r][v]
       PROVE  (IF IsDirect(S, v[1]) THEN field'[r][In[S][r][v][k]] ELSE rbuf'[r][v][k])
                 = R(r)[In[S][r][v][k]]
  <2> DEFINE i == In[S][r][v][k]
  <2>1. i \in 0..(Size[S][r] - 1)
    <3> DEFINE n == Count(r, v)
               in == In[S][r][v]
    <3>1. in \in [1..n -> 0..(Size[S][r] - 1)] /\ k \in DOMAIN in
      BY <1>2, MessageIs DEF Count, Proc
    <3> HIDE DEF n, in
    <3>2. in[k] \in 0..(Size[S][r] - 1)
      BY <3>1
    <3>3. QED
      BY <3>2 DEF in
  <2>2. CASE r = q /\ v = w
    <3>1. CASE IsDirect(S, w[1])
      <4>1. field'[q] = g
        BY <1>1, <3>1 DEF ShapeInv
      <4>2. QED
        BY <1>11, <2>2, <3>1, <4>1
    <3>2. CASE ~IsDirect(S, w[1])
      <4>1. rbuf'[q][w] = data
        BY <1>1, <3>2 DEF ShapeInv
      <4>2. QED
        BY <1>8, <2>2, <3>2, <4>1
    <3>3. QED
      BY <3>1, <3>2
  <2>3. CASE ~(r = q /\ v = w)
    <3>1. v[2] \notin waiting[r]
      <4>1. CASE r = q
        <5>1. v[1] = w[1] /\ v = <<v[1], v[2]>> /\ w = <<w[1], w[2]>>
          BY <1>1, <1>18, <4>1, WayIs
        <5>2. v[2] # w[2]
          BY <2>3, <4>1, <5>1
        <5>3. waiting'[q] = waiting[q] \ {w[2]}
          BY <1>1 DEF ShapeInv
        <5>4. QED
          BY <1>18, <4>1, <5>2, <5>3
      <4>2. CASE r # q
        BY <1>1, <1>18, <4>2 DEF ShapeInv
      <4>3. QED
        BY <4>1, <4>2
    <3>2. RightHalo(r, v)
      BY <1>18, <3>1 DEF Values, ArrivedRight
    <3>3. (IF IsDirect(S, v[1]) THEN field[r][i] ELSE rbuf[r][v][k]) = R(r)[i]
      BY <3>2 DEF RightHalo
    <3>4. rbuf'[r][v] = rbuf[r][v]
      <4>1. rbuf \in [Proc -> [Way -> Seq(Int)]]
        BY DEF ShapeInv
      <4>2. QED
        BY <1>1, <2>3, <4>1
    <3>5. field'[r][i] = field[r][i] \/ field'[r][i] = R(r)[i]
      BY <1>14, <2>1
    <3>6. QED
      BY <3>3, <3>4, <3>5
  <2>4. QED
    BY <2>2, <2>3
<1>19. ArrivedRight'
  <2>1. S' = S /\ dim' = dim /\ at' = at
    BY <1>1
  <2>2. QED
    BY <1>1, <1>18, <2>1 DEF ArrivedRight, RightHalo
<1>20. QED
  BY <1>15, <1>16, <1>17, <1>19 DEF Values

\* Unpacking a message that has arrived.
LEMMA UnpackRight ==
  ASSUME ShapeInv, NEW p \in Proc, dim[p] \in Dim, NEW left \in BOOLEAN,
         ~IsDirect(S, dim[p]), RightHalo(p, <<dim[p], left>>),
         NEW f \in [0..(Size[S][p] - 1) -> Int], NEW g, g = Unpack(p, f, left)
  PROVE  Righted(p, <<dim[p], left>>, f, g)
<1> DEFINE w == <<dim[p], left>>
           data == rbuf[p][w]
           where == Worked[S][p][w]
           n == Count(p, w)
           in == In[S][p][w]
<1>1. w \in Way /\ w[1] = dim[p]
  BY InWay
<1>2. S \in Setups /\ p \in ProcOf(S)
  BY DEF ShapeInv, Proc
<1>3. g = Filled(f, Place[S][p][w], data, where)
  BY DEF Unpack
<1>4. Carries(p, w, data)
  BY <1>1 DEF Carries, RightHalo
<1>5. data \in Seq(Int)
  BY <1>1 DEF ShapeInv
<1> HIDE DEF w
<1>6. n \in Nat /\ in \in [1..n -> 0..(Size[S][p] - 1)] /\ where = 1..n /\ Length[S][p][w] = n
  BY <1>1, <1>2, MessageIs DEF Count
<1>7. Len(data) = Length[S][p][w]
  BY <1>1 DEF ShapeInv
<1> HIDE DEF data, where, n, in
<1>8. DOMAIN in \subseteq DOMAIN data \cap where
  <2>1. DOMAIN data = 1..n /\ DOMAIN in = 1..n
    BY <1>5, <1>6, <1>7
  <2>2. QED
    BY <1>6, <2>1
<1>9. Righted(p, w, f, g)
  BY <1>1, <1>3, <1>4, <1>5, <1>8, FillRight DEF in
<1>10. QED
  BY <1>9 DEF w

LEMMA ValueFinish ==
  ASSUME ShapeInv, Values, NEW p \in Proc, Finish(p)
  PROVE  Values'
<1> DEFINE d == dim[p]
           once == Unpack(p, field[p], FALSE)
           twice == Unpack(p, once, TRUE)
           D == 0..(Size[S][p] - 1)
           R == Reference[S][p]
           in(left) == In[S][p][<<d, left>>]
<1>1. /\ UNCHANGED <<S, sbuf, rbuf, waiting, msg>> /\ Proc' = Proc
      /\ waiting[p] = {}
      /\ dim' = [dim EXCEPT ![p] = d + 1] /\ at' = [at EXCEPT ![p] = 1]
      /\ field' = IF IsDirect(S, d) THEN field ELSE [field EXCEPT ![p] = twice]
  BY DEF Finish, Proc
<1>2. d \in Dim /\ at[p] = WaitAt(S)
  BY IsNextAt DEF Finish
<1>3. S \in Setups /\ p \in ProcOf(S)
  BY DEF ShapeInv, Proc
<1>4. /\ RecvAt(S) \in 1..3 /\ RecvAt(S) < WaitAt(S) /\ WaitAt(S) \in 3..4
      /\ PackAt(S) \in 0..3 /\ PackAt(S) < WaitAt(S)
      /\ \A e \in Dim : ~IsDirect(S, e) => PackAt(S) >= 1
  BY <1>3, CallsAre
<1>5. /\ dim'[p] = d + 1 /\ at'[p] = 1
      /\ \A q \in Proc : q # p => dim'[q] = dim[q] /\ at'[q] = at[q] /\ field'[q] = field[q]
  BY <1>1 DEF ShapeInv
<1>6. ASSUME NEW left \in BOOLEAN PROVE RightHalo(p, <<d, left>>)
  <2> DEFINE w == <<d, left>>
  <2>1. w \in Way /\ w[1] = dim[p] /\ w[2] = left
    BY <1>2, InWay
  <2>2. at[p] > RecvAt(S) /\ w[2] \notin waiting[p]
    BY <1>1, <1>2, <1>4
  <2> HIDE DEF w
  <2>3. RightHalo(p, w)
    BY <2>1, <2>2 DEF Values, ArrivedRight
  <2>4. QED
    BY <2>3 DEF w
<1>7. ASSUME NEW i \in D
      PROVE  /\ field'[p][i] = field[p][i] \/ field'[p][i] = R[i]
             /\ (\E left \in BOOLEAN : \E k \in DOMAIN in(left) : in(left)[k] = i)
                => field'[p][i] = R[i]
  <2>1. CASE IsDirect(S, d)
    <3>1. field' = field
      BY <1>1, <2>1
    <3>2. ASSUME NEW left \in BOOLEAN, NEW k \in DOMAIN in(left)
          PROVE  field[p][in(left)[k]] = R[in(left)[k]]
      BY <1>6, <2>1 DEF RightHalo
    <3>3. QED
      BY <3>1, <3>2
  <2>2. CASE ~IsDirect(S, d)
    <3>1. field'[p] = twice
      BY <1>1, <2>2 DEF ShapeInv
    <3>2. field[p] \in [D -> Int]
      BY DEF ShapeInv
    <3>3. once \in [D -> Int]
      BY <1>2, <3>2, ShapeUnpack
    <3>4. Righted(p, <<d, FALSE>>, field[p], once)
      BY <1>2, <1>6, <2>2, <3>2, UnpackRight
    <3>5. Righted(p, <<d, TRUE>>, once, twice)
      <4> HIDE DEF once
      <4>1. QED
        BY <1>2, <1>6, <2>2, <3>3, UnpackRight
    <3> HIDE DEF once, twice
    <3>6. /\ once[i] = field[p][i] \/ once[i] = R[i]
          /\ twice[i] = once[i] \/ twice[i] = R[i]
      BY <3>4, <3>5 DEF Righted
    <3>7. ASSUME NEW left \in BOOLEAN, NEW k \in DOMAIN in(left), in(left)[k] = i
          PROVE  twice[i] = R[i]
      <4>1. CASE left = TRUE
        BY <3>5, <3>7, <4>1 DEF Righted
      <4>2. CASE left = FALSE
        <5>1. once[i] = R[i]
          BY <3>4, <3>7, <4>2 DEF Righted
        <5>2. QED
          BY <3>6, <5>1
      <4>3. QED
        BY <4>1, <4>2
    <3>8. QED
      BY <3>1, <3>6, <3>7
  <2>3. QED
    BY <2>1, <2>2
<1>8. ASSUME NEW i \in KnownCells(S, p, d + 1) PROVE field'[p][i] = R[i]
  <2>1. i \in D
    BY DEF KnownCells
  <2>2. CASE i \in KnownCells(S, p, d)
    <3>1. field[p][i] = R[i]
      BY <2>2 DEF Values, FieldsRight
    <3>2. QED
      BY <1>7, <2>1, <3>1
  <2>3. CASE i \notin KnownCells(S, p, d)
    <3>1. Reached(S, p, d, i)
      <4> HIDE DEF d
      <4>1. QED
        BY <1>2, <1>3, <2>3, KnownNext
    <3>2. \E left \in BOOLEAN : \E k \in DOMAIN in(left) : in(left)[k] = i
      BY <3>1 DEF Reached
    <3>3. QED
      BY <1>7, <2>1, <3>2
  <2>4. QED
    BY <2>2, <2>3
<1>9. ASSUME NEW q \in Proc, NEW i \in KnownCells(S, q, dim'[q])
      PROVE  field'[q][i] = Reference[S][q][i]
  <2>1. CASE q = p
    BY <1>5, <1>8, <1>9, <2>1
  <2>2. CASE q # p
    BY <1>5, <1>9, <2>2 DEF Values, FieldsRight
  <2>3. QED
    BY <2>1, <2>2
<1>10. FieldsRight'
  <2>1. S' = S
    BY <1>1
  <2>2. \A q \in Proc : \A i \in KnownCells(S, q, dim'[q]) : field'[q][i] = Reference[S][q][i]
    BY <1>9
  <2>3. \A q \in Proc' : \A i \in KnownCells(S', q, dim'[q]) : field'[q][i] = Reference[S'][q][i]
    <3>1. Proc' = Proc
      BY <1>1
    <3>2. QED
      BY <2>1, <2>2, <3>1
  <2>4. QED
    BY <2>3 DEF FieldsRight
<1>11. ASSUME NEW q \in Proc, NEW w \in Way, ~IsDirect(S, w[1]),
              dim'[q] > w[1] \/ (dim'[q] = w[1] /\ at'[q] > PackAt(S))
       PROVE  RightData(q, w, sbuf[q][w])
  <2>1. dim[q] > w[1] \/ (dim[q] = w[1] /\ at[q] > PackAt(S))
    <3>1. w[1] \in Dim
      BY WayIs
    <3>2. PackAt(S) >= 1
      BY <1>4, <1>11, <3>1
    <3>3. CASE q = p
      <4>1. d + 1 > w[1]
        BY <1>4, <1>5, <1>11, <3>2, <3>3
      <4>2. d > w[1] \/ d = w[1]
        BY <1>2, <3>1, <4>1 DEF Dim
      <4>3. at[p] > PackAt(S)
        BY <1>2, <1>4
      <4>4. QED
        BY <3>3, <4>2, <4>3
    <3>4. CASE q # p
      BY <1>5, <1>11, <3>4
    <3>5. QED
      BY <3>3, <3>4
  <2>2. QED
    BY <1>11, <2>1 DEF Values, PackedRight
<1>12. PackedRight'
  <2>1. S' = S /\ sbuf' = sbuf
    BY <1>1
  <2>2. QED
    BY <1>1, <1>11, <2>1 DEF PackedRight, RightData
<1>13. ReadRight'
  BY <1>1 DEF Values, ReadRight, RightData
<1>14. ASSUME NEW q \in Proc, NEW w \in Way, dim'[q] = w[1], at'[q] > RecvAt(S),
              w[2] \notin waiting[q], NEW k \in DOMAIN In[S][q][w]
       PROVE  (IF IsDirect(S, w[1]) THEN field'[q][In[S][q][w][k]] ELSE rbuf[q][w][k])
                 = Reference[S][q][In[S][q][w][k]]
  <2>1. q # p
    BY <1>4, <1>5, <1>14
  <2>2. RightHalo(q, w)
    BY <1>5, <1>14, <2>1 DEF Values, ArrivedRight
  <2>3. QED
    BY <1>5, <2>1, <2>2 DEF RightHalo
<1>15. ArrivedRight'
  <2>1. S' = S /\ waiting' = waiting /\ rbuf' = rbuf /\ Proc' = Proc
    BY <1>1
  <2>2. ASSUME NEW q \in Proc, NEW w \in Way, dim'[q] = w[1], at'[q] > RecvAt(S),
               w[2] \notin waiting[q]
        PROVE  RightHalo(q, w)'
    BY <1>14, <2>1, <2>2 DEF RightHalo
  <2>3. QED
    BY <2>1, <2>2 DEF ArrivedRight
<1>16. QED
  BY <1>10, <1>12, <1>13, <1>15 DEF Values

LEMMA ValueStutter ==
  ASSUME Values, UNCHANGED vars
  PROVE  Values'
<1>1. UNCHANGED <<S, field, sbuf, rbuf, dim, at, waiting, msg>> /\ Proc' = Proc
  BY DEF vars, Proc
<1>2. FieldsRight' /\ ReadRight'
  BY <1>1 DEF Values, FieldsRight, ReadRight, RightData
<1>3. PackedRight'
  BY <1>1 DEF Values, PackedRight, RightData
<1>4. ArrivedRight'
  BY <1>1 DEF Values, ArrivedRight, RightHalo
<1>5. QED
  BY <1>2, <1>3, <1>4 DEF Values

LEMMA ValueNext == IInv /\ [Next]_vars => IInv'
<1> SUFFICES ASSUME IInv, [Next]_vars PROVE IInv'
  OBVIOUS
<1>1. ShapeInv /\ ShapeInv'
  BY ShapeNext DEF IInv
<1>2. S' = S
  BY DEF Next, Terminated, Pack, Receive, Send, Finish, Read, Write, vars
<1>3. ASSUME S.backend # "kernels_z" PROVE Values'
  <2>1. Values
    BY <1>3 DEF IInv, ValueInv, Values
  <2>2. ASSUME NEW p \in Proc, Pack(p) PROVE Values'
    BY <1>1, <1>3, <2>1, <2>2, ValuePack
  <2>3. ASSUME NEW p \in Proc, Receive(p) PROVE Values'
    BY <1>1, <2>1, <2>3, ValueReceive
  <2>4. ASSUME NEW p \in Proc, Send(p) PROVE Values'
    BY <1>1, <2>1, <2>4, ValueSend
  <2>5. ASSUME NEW p \in Proc, Finish(p) PROVE Values'
    BY <1>1, <2>1, <2>5, ValueFinish
  <2>6. ASSUME NEW p \in Proc, NEW w \in Way, Read(p, w) PROVE Values'
    BY <1>1, <2>1, <2>6, ValueRead
  <2>7. ASSUME NEW p \in Proc, NEW w \in Way, Write(p, w) PROVE Values'
    BY <1>1, <2>1, <2>7, ValueWrite
  <2>8. CASE UNCHANGED vars
    BY <2>1, <2>8, ValueStutter
  <2>9. QED
    BY <2>2, <2>3, <2>4, <2>5, <2>6, <2>7, <2>8 DEF Next, Terminated
<1>4. ValueInv'
  BY <1>2, <1>3 DEF ValueInv, Values
<1>5. QED
  BY <1>1, <1>4 DEF IInv

LEMMA Invariance == Spec => []IInv
<1>1. Init => IInv
  BY ShapeInit, ValueInit DEF IInv
<1>2. IInv /\ [Next]_vars => IInv'
  BY ValueNext
<1>3. QED
  BY <1>1, <1>2, PTL DEF Spec

(***************************************************************************)
(* With every backend but the CUDA build that packs z, a thread that has ended  *)
(* the exchange has all of its field right, edges and corners included, for     *)
(* every decomposition into blocks that are not smaller than the halo           *)
(* (mpi_comm/runtime.cpp:407-482 and its likes).                             *)
(***************************************************************************)
THEOREM HalosRight == Spec => [](S.backend # "kernels_z" => HalosMatchReference)
<1>1. IInv => (S.backend # "kernels_z" => HalosMatchReference)
  <2> SUFFICES ASSUME IInv, S.backend # "kernels_z", NEW p \in Proc, Done(p)
               PROVE  field[p] = Reference[S][p]
    BY DEF HalosMatchReference
  <2> DEFINE D == 0..(Size[S][p] - 1)
  <2>1. S \in Setups /\ p \in ProcOf(S) /\ field[p] \in [D -> Int]
    BY DEF IInv, ShapeInv, Proc
  <2>2. KnownCells(S, p, 4) = D /\ dim[p] = 4
    BY <2>1, KnownAtEnd DEF Done
  <2>3. \A i \in D : field[p][i] = Reference[S][p][i]
    BY <2>2 DEF IInv, ValueInv, FieldsRight
  <2>4. Reference[S][p] = [i \in D |-> Reference[S][p][i]]
    BY <2>1 DEF Reference
  <2> HIDE DEF D
  <2>5. QED
    BY <2>1, <2>3, <2>4
<1>2. QED
  BY <1>1, Invariance, PTL

-----------------------------------------------------------------------------
(***************************************************************************)
(* check: in each dimension it looks at as many cells, from that place of the   *)
(* array on, and compares them with those of a neighbour from that place on.    *)
(***************************************************************************)
CheckExt(s, b, off, d) == IF off[d] = 0 THEN b.ext[d] ELSE s.halo
CheckFirst(s, b, off, d) ==
    IF off[d] < 0 THEN 0 ELSE IF off[d] = 0 THEN s.halo ELSE s.halo + b.ext[d]
CheckFrom(s, n, off, d) == IF off[d] < 0 THEN n.ext[d] - s.halo ELSE 0

CheckBox(s, b, off) == (0..CheckExt(s, b, off, 1) - 1) \X (0..CheckExt(s, b, off, 2) - 1)
                                                       \X (0..CheckExt(s, b, off, 3) - 1)
CheckPlace(s, b, off, c) ==
    Index(ext_buffer(s, b), <<CheckFirst(s, b, off, 1) + c[1], CheckFirst(s, b, off, 2) + c[2],
                              CheckFirst(s, b, off, 3) + c[3]>>)
CheckValue(s, n, off, c) ==
    Value(s, <<n.begin[1] + CheckFrom(s, n, off, 1) + c[1],
               n.begin[2] + CheckFrom(s, n, off, 2) + c[2],
               n.begin[3] + CheckFrom(s, n, off, 3) + c[3]>>)

LEMMA OffsetIs ==
  ASSUME NEW off \in Offset
  PROVE  \A d \in Dim : off[d] \in {-1, 0, 1}
BY DEF Offset, Dim

LEMMA ExpectationsAre ==
  ASSUME NEW s \in Setups, NEW p \in ProcOf(s), NEW off \in Offset
  PROVE  LET b == Blk[s][p]
             n == NeighborAt(s, p[1], p[2], off)
         IN  Expectations[s][p][off]
               = {<<CheckPlace(s, b, off, c), CheckValue(s, n, off, c)>> : c \in CheckBox(s, b, off)}
<1> DEFINE b == Blk[s][p]
           near(o) == NeighborAt(s, p[1], p[2], o)
           ext(o, d) == IF o[d] < 0 THEN HaloL(s, d)
                        ELSE IF o[d] = 0 THEN b.ext[d] ELSE HaloR(s, d)
           first(o, d) == IF o[d] < 0 THEN 0
                          ELSE IF o[d] = 0 THEN HaloL(s, d) ELSE HaloL(s, d) + b.ext[d]
           first_n(o, d) == IF o[d] < 0 THEN near(o).ext[d] - HaloL(s, d) ELSE 0
           box(o) == (0..ext(o, 1) - 1) \X (0..ext(o, 2) - 1) \X (0..ext(o, 3) - 1)
           pair(o, c) == <<Index(ext_buffer(s, b), Triple(LAMBDA d : first(o, d) + c[d])),
                           Value(s, Triple(LAMBDA d : near(o).begin[d] + first_n(o, d) + c[d]))>>
           pairs(o) == {pair(o, c) : c \in box(o)}
           right(c) == <<CheckPlace(s, b, off, c), CheckValue(s, near(off), off, c)>>
<1>1. Expectations[s][p] = Expected(s, p)
  BY DEF Expectations
<1>2. Expected(s, p) = [o \in Offset |-> pairs(o)]
  BY DEF Expected
<1>3. Expected(s, p)[off] = pairs(off)
  <2> HIDE DEF pairs
  <2>1. QED
    BY <1>2
<1>4. ASSUME NEW d \in Dim
      PROVE  /\ ext(off, d) = CheckExt(s, b, off, d) /\ first(off, d) = CheckFirst(s, b, off, d)
             /\ first_n(off, d) = CheckFrom(s, near(off), off, d)
  <2>1. off[d] \in {-1, 0, 1} /\ HaloL(s, d) = s.halo /\ HaloR(s, d) = s.halo
    BY OffsetIs, Setup
  <2>2. QED
    BY <2>1 DEF CheckExt, CheckFirst, CheckFrom
<1>5. 1 \in Dim /\ 2 \in Dim /\ 3 \in Dim
  BY DEF Dim
<1> HIDE DEF b, near, ext, first, first_n
<1>6. box(off) = CheckBox(s, b, off)
  BY <1>4, <1>5 DEF CheckBox
<1>7. ASSUME NEW c PROVE pair(off, c) = right(c)
  <2>1. /\ first(off, 1) = CheckFirst(s, b, off, 1) /\ first(off, 2) = CheckFirst(s, b, off, 2)
        /\ first(off, 3) = CheckFirst(s, b, off, 3)
        /\ first_n(off, 1) = CheckFrom(s, near(off), off, 1)
        /\ first_n(off, 2) = CheckFrom(s, near(off), off, 2)
        /\ first_n(off, 3) = CheckFrom(s, near(off), off, 3)
    BY <1>4, <1>5
  <2>2. pair(off, c)
          = <<Index(ext_buffer(s, b), <<first(off, 1) + c[1], first(off, 2) + c[2],
                                        first(off, 3) + c[3]>>),
              Value(s, <<near(off).begin[1] + first_n(off, 1) + c[1],
                         near(off).begin[2] + first_n(off, 2) + c[2],
                         near(off).begin[3] + first_n(off, 3) + c[3]>>)>>
    BY DEF Triple
  <2> HIDE DEF pair
  <2>3. QED
    BY <2>1, <2>2 DEF CheckPlace, CheckValue
<1> HIDE DEF box, pair, right
<1>8. pairs(off) = {right(c) : c \in CheckBox(s, b, off)}
  BY <1>6, <1>7
<1> HIDE DEF pairs
<1>9. QED
  BY <1>1, <1>3, <1>8 DEF right, b, near

\* A place in the domain is its own remainder.
LEMMA ModIn ==
  ASSUME NEW n \in Nat, NEW a \in 0..(n - 1)
  PROVE  a % n = a
<1>1. n \in Nat \ {0} /\ 0 \in Int /\ a + n * 0 = a
  OBVIOUS
<1>2. (a + n * 0) % n = a
  BY <1>1, DivModOf
<1>3. QED
  BY <1>1, <1>2

\* What check expects of a cell is right.
LEMMA ExpectedRight ==
  ASSUME NEW s \in Setups, NEW p \in ProcOf(s), NEW off \in Offset,
         NEW n, n = NeighborAt(s, p[1], p[2], off), NEW b, b = Blk[s][p],
         NEW c \in CheckBox(s, b, off)
  PROVE  /\ CheckPlace(s, b, off, c) \in 0..(Size[s][p] - 1)
         /\ CheckValue(s, n, off, c) = Reference[s][p][CheckPlace(s, b, off, c)]
<1> DEFINE h == s.halo
           G(d) == GlobalDomain(s, d)
           nb == ext_buffer(s, b)
           F(d) == CheckFirst(s, b, off, d)
           N(d) == CheckFrom(s, n, off, d)
           E(d) == CheckExt(s, b, off, d)
           j == <<F(1) + c[1], F(2) + c[2], F(3) + c[3]>>
           i == Index(nb, j)
<1>1. 1 \in Dim /\ 2 \in Dim /\ 3 \in Dim
  BY DEF Dim
<1>2. \A d \in Dim : off[d] \in {-1, 0, 1}
  BY OffsetIs
<1>3. /\ <<n.rank, n.thread>> \in ProcOf(s) /\ Blk[s][<<n.rank, n.thread>>] = n
      /\ \A d \in Dim : Adjoins(s, d, b, n, off[d])
  BY <1>2, Neighbours
<1>4. IsBlock(b) /\ \A d \in Dim : /\ G(d) \in Nat /\ b.begin[d] \in Nat /\ b.ext[d] \in Nat
                                   /\ b.begin[d] + b.ext[d] <= G(d) /\ h <= b.ext[d]
  BY Block
<1>5. \A d \in Dim : /\ n.begin[d] \in Nat /\ n.ext[d] \in Nat
                     /\ n.begin[d] + n.ext[d] <= G(d) /\ h <= n.ext[d]
  BY <1>3, Block
<1>6. h \in Nat
  BY Setup
<1>7. IsSize(nb) /\ \A d \in Dim : nb[d] = b.ext[d] + h + h
  BY <1>4, Array DEF Dim
<1>8. ASSUME NEW d \in Dim PROVE c[d] \in 0..(E(d) - 1)
  BY DEF CheckBox, Dim
<1>9. ASSUME NEW d \in Dim
      PROVE  /\ F(d) + c[d] \in 0..(nb[d] - 1)
             /\ n.begin[d] + N(d) + c[d] = (b.begin[d] + ((F(d) + c[d]) - h)) % G(d)
  <2> DEFINE a == c[d]
             x == n.begin[d] + N(d) + a
             y == b.begin[d] + ((F(d) + a) - h)
             g == G(d)
  <2>1. /\ off[d] \in {-1, 0, 1} /\ h \in Nat /\ a \in 0..(E(d) - 1) /\ nb[d] = b.ext[d] + h + h
        /\ g \in Nat /\ b.begin[d] \in Nat /\ b.ext[d] \in Nat
        /\ b.begin[d] + b.ext[d] <= g /\ h <= b.ext[d]
        /\ n.begin[d] \in Nat /\ n.ext[d] \in Nat
        /\ n.begin[d] + n.ext[d] <= g /\ h <= n.ext[d]
    BY <1>2, <1>4, <1>5, <1>6, <1>7, <1>8
  <2>2. Adjoins(s, d, b, n, off[d])
    BY <1>3
  <2> HIDE DEF a, h, nb
  <2>3. /\ F(d) + a \in 0..(nb[d] - 1)
        /\ x \in 0..(g - 1) /\ y \in Int /\ (y = x \/ x = g + y \/ y = g + x)
    <3>1. CASE off[d] = 0
      <4>1. F(d) = h /\ N(d) = 0 /\ E(d) = b.ext[d]
        BY <3>1 DEF CheckFirst, CheckFrom, CheckExt, h
      <4>2. n.begin[d] = b.begin[d] /\ n.ext[d] = b.ext[d]
        BY <2>2, <3>1 DEF Adjoins
      <4> HIDE DEF F, N, E, g
      <4>3. QED
        BY <2>1, <4>1, <4>2
    <3>2. CASE off[d] = 1
      <4>1. F(d) = h + b.ext[d] /\ N(d) = 0 /\ E(d) = h
        BY <3>2 DEF CheckFirst, CheckFrom, CheckExt, h
      <4>2. \/ b.begin[d] + b.ext[d] = n.begin[d]
            \/ b.begin[d] + b.ext[d] = g /\ n.begin[d] = 0
        BY <2>2, <3>2 DEF Adjoins
      <4> HIDE DEF F, N, E, g
      <4>3. QED
        BY <2>1, <4>1, <4>2
    <3>3. CASE off[d] = -1
      <4>1. F(d) = 0 /\ N(d) = n.ext[d] - h /\ E(d) = h
        BY <3>3 DEF CheckFirst, CheckFrom, CheckExt, h
      <4>2. \/ n.begin[d] + n.ext[d] = b.begin[d]
            \/ n.begin[d] + n.ext[d] = g /\ b.begin[d] = 0
        BY <2>2, <3>3 DEF Adjoins
      <4> HIDE DEF F, N, E, g
      <4>3. QED
        BY <2>1, <4>1, <4>2
    <3>4. QED
      BY <2>1, <3>1, <3>2, <3>3
  <2> HIDE DEF x, y, g
  <2>4. g \in Nat \ {0} /\ x \in Int /\ x % g = x
    BY <2>1, <2>3, ModIn
  <2>5. y % g = x % g
    BY <2>3, <2>4, ModAround
  <2>6. x = y % g
    BY <2>4, <2>5
  <2>7. QED
    BY <2>3, <2>6 DEF x, y, a, g, h
<1>10. j \in Box(nb)
  <2>1. /\ F(1) + c[1] \in 0..(nb[1] - 1) /\ F(2) + c[2] \in 0..(nb[2] - 1)
        /\ F(3) + c[3] \in 0..(nb[3] - 1)
    BY <1>1, <1>9
  <2> HIDE DEF F, nb
  <2>2. QED
    BY <2>1 DEF Box
<1>11. i = CheckPlace(s, b, off, c)
  BY DEF CheckPlace
<1> HIDE DEF nb, j
<1>12. i \in 0..(Volume(nb) - 1) /\ CellAt(nb, i) = j
  BY <1>7, <1>10, IndexOfCell
<1>13. Size[s][p] = Volume(nb)
  BY SizeIs DEF nb
<1> HIDE DEF i
<1>14. Reference[s][p][i]
         = Value(s, <<(b.begin[1] + (j[1] - h)) % G(1), (b.begin[2] + (j[2] - h)) % G(2),
                      (b.begin[3] + (j[3] - h)) % G(3)>>)
  BY <1>12, <1>13, ReferenceIs DEF nb
<1>15. j[1] = F(1) + c[1] /\ j[2] = F(2) + c[2] /\ j[3] = F(3) + c[3]
  BY DEF j
<1>16. CheckValue(s, n, off, c)
         = Value(s, <<n.begin[1] + N(1) + c[1], n.begin[2] + N(2) + c[2], n.begin[3] + N(3) + c[3]>>)
  BY DEF CheckValue
<1> DEFINE x(d) == n.begin[d] + N(d) + c[d]
           y(d) == (b.begin[d] + ((F(d) + c[d]) - h)) % G(d)
<1>17. x(1) = y(1) /\ x(2) = y(2) /\ x(3) = y(3)
  BY <1>1, <1>9
<1>18. /\ Reference[s][p][i] = Value(s, <<y(1), y(2), y(3)>>)
       /\ CheckValue(s, n, off, c) = Value(s, <<x(1), x(2), x(3)>>)
  <2> DEFINE z(d) == (b.begin[d] + (j[d] - h)) % G(d)
  <2>1. Reference[s][p][i] = Value(s, <<z(1), z(2), z(3)>>)
    BY <1>14
  <2>2. z(1) = y(1) /\ z(2) = y(2) /\ z(3) = y(3)
    BY <1>15
  <2>3. CheckValue(s, n, off, c) = Value(s, <<x(1), x(2), x(3)>>)
    BY <1>16
  <2> HIDE DEF x, y, z
  <2>4. QED
    BY <2>1, <2>2, <2>3
<1> HIDE DEF x, y
<1>19. QED
  BY <1>11, <1>12, <1>13, <1>17, <1>18

\* And it looks at every cell.
LEMMA ExpectedAll ==
  ASSUME NEW s \in Setups, NEW p \in ProcOf(s), NEW i \in 0..(Size[s][p] - 1),
         NEW b, b = Blk[s][p]
  PROVE  \E off \in Offset : \E c \in CheckBox(s, b, off) : CheckPlace(s, b, off, c) = i
<1> DEFINE h == s.halo
           nb == ext_buffer(s, b)
           j == CellAt(nb, i)
           o(d) == IF j[d] < h THEN -1 ELSE IF j[d] < h + b.ext[d] THEN 0 ELSE 1
           off == <<o(1), o(2), o(3)>>
           F(d) == CheckFirst(s, b, off, d)
           c == <<j[1] - F(1), j[2] - F(2), j[3] - F(3)>>
<1>1. 1 \in Dim /\ 2 \in Dim /\ 3 \in Dim
  BY DEF Dim
<1>2. IsBlock(b) /\ h \in Nat /\ \A d \in Dim : b.ext[d] \in Nat
  BY Block, Setup
<1>3. IsSize(nb) /\ \A d \in Dim : nb[d] = b.ext[d] + h + h
  BY <1>2, Array DEF Dim
<1>4. i \in 0..(Volume(nb) - 1)
  BY SizeIs
<1> HIDE DEF nb
<1>5. j \in Box(nb) /\ Index(nb, j) = i
  BY <1>3, <1>4, CellOfIndex
<1> HIDE DEF j
<1>6. j = <<j[1], j[2], j[3]>> /\ \A d \in Dim : j[d] \in 0..(nb[d] - 1)
  BY <1>5 DEF Box, Dim
<1>7. \A d \in Dim : o(d) \in {-1, 0, 1}
  OBVIOUS
<1>8. off \in Offset /\ \A d \in Dim : off[d] = o(d)
  <2>1. o(1) \in {-1, 0, 1} /\ o(2) \in {-1, 0, 1} /\ o(3) \in {-1, 0, 1}
    BY <1>1, <1>7
  <2> HIDE DEF o
  <2>2. off \in Offset
    BY <2>1 DEF Offset
  <2>3. QED
    BY <2>2 DEF Dim
<1> HIDE DEF off
<1>9. ASSUME NEW d \in Dim
      PROVE  /\ F(d) \in Int /\ j[d] \in Int
             /\ j[d] - F(d) \in 0..(CheckExt(s, b, off, d) - 1)
  <2> DEFINE a == j[d]
             e == b.ext[d]
  <2>1. a \in 0..(e + h + h - 1) /\ e \in Nat /\ h \in Nat
    BY <1>2, <1>3, <1>6
  <2>2. off[d] = IF a < h THEN -1 ELSE IF a < h + e THEN 0 ELSE 1
    BY <1>8
  <2> HIDE DEF a, h
  <2>3. CASE a < h
    <3>1. off[d] = -1
      BY <2>2, <2>3
    <3>2. F(d) = 0 /\ CheckExt(s, b, off, d) = h
      BY <3>1 DEF CheckFirst, CheckExt, h
    <3>3. QED
      BY <2>1, <2>3, <3>2 DEF a
  <2>4. CASE ~(a < h) /\ a < h + e
    <3>1. off[d] = 0
      BY <2>2, <2>4
    <3>2. F(d) = h /\ CheckExt(s, b, off, d) = e
      BY <3>1 DEF CheckFirst, CheckExt, h
    <3>3. QED
      BY <2>1, <2>4, <3>2 DEF a
  <2>5. CASE ~(a < h) /\ ~(a < h + e)
    <3>1. off[d] = 1
      BY <2>2, <2>5
    <3>2. F(d) = h + e /\ CheckExt(s, b, off, d) = h
      BY <3>1 DEF CheckFirst, CheckExt, h
    <3>3. QED
      BY <2>1, <2>5, <3>2 DEF a
  <2>6. QED
    BY <2>3, <2>4, <2>5
<1>10. c \in CheckBox(s, b, off)
  <2> DEFINE E(d) == CheckExt(s, b, off, d)
             x == j[1] - F(1)
             y == j[2] - F(2)
             z == j[3] - F(3)
  <2>1. x \in 0..(E(1) - 1) /\ y \in 0..(E(2) - 1) /\ z \in 0..(E(3) - 1)
    BY <1>1, <1>9
  <2>2. CheckBox(s, b, off) = (0..(E(1) - 1)) \X (0..(E(2) - 1)) \X (0..(E(3) - 1))
    BY DEF CheckBox
  <2> HIDE DEF E, x, y, z
  <2>3. <<x, y, z>> \in CheckBox(s, b, off)
    BY <2>1, <2>2
  <2>4. QED
    BY <2>3 DEF x, y, z
<1>11. CheckPlace(s, b, off, c) = Index(nb, <<F(1) + c[1], F(2) + c[2], F(3) + c[3]>>)
  BY DEF CheckPlace, nb
<1>12. F(1) + c[1] = j[1] /\ F(2) + c[2] = j[2] /\ F(3) + c[3] = j[3]
  BY <1>1, <1>9
<1> HIDE DEF c, F
<1>13. CheckPlace(s, b, off, c) = i
  BY <1>5, <1>6, <1>11, <1>12
<1>14. QED
  BY <1>8, <1>10, <1>13

\* What check answers.
LEMMA CheckIs ==
  ASSUME ShapeInv, NEW p \in Proc
  PROVE  check(p) <=> field[p] = Reference[S][p]
<1> DEFINE b == Blk[S][p]
           n(off) == NeighborAt(S, p[1], p[2], off)
           D == 0..(Size[S][p] - 1)
           place(off, c) == CheckPlace(S, b, off, c)
<1>1. S \in Setups /\ p \in ProcOf(S) /\ field[p] \in [D -> Int]
  BY DEF ShapeInv, Proc
<1>2. Reference[S][p] = [i \in D |-> Reference[S][p][i]]
  BY <1>1 DEF Reference
<1>3. \A off \in Offset : Expectations[S][p][off]
        = {<<place(off, c), CheckValue(S, n(off), off, c)>> : c \in CheckBox(S, b, off)}
  BY <1>1, ExpectationsAre
<1>4. check(p) <=> \A off \in Offset : \A c \in CheckBox(S, b, off) :
                     field[p][place(off, c)] = CheckValue(S, n(off), off, c)
  <2> DEFINE value(off, c) == CheckValue(S, n(off), off, c)
             set(off) == Expectations[S][p][off]
  <2>1. check(p) <=> \A off \in Offset : \A e \in set(off) : field[p][e[1]] = e[2]
    BY DEF check
  <2>2. ASSUME NEW off \in Offset
        PROVE  (\A e \in set(off) : field[p][e[1]] = e[2])
                  <=> \A c \in CheckBox(S, b, off) : field[p][place(off, c)] = value(off, c)
    <3>1. set(off) = {<<place(off, c), value(off, c)>> : c \in CheckBox(S, b, off)}
      BY <1>3
    <3> HIDE DEF b, place, value, set
    <3>2. ASSUME \A e \in set(off) : field[p][e[1]] = e[2], NEW c \in CheckBox(S, b, off)
          PROVE  field[p][place(off, c)] = value(off, c)
      <4> DEFINE e == <<place(off, c), value(off, c)>>
      <4>1. e \in set(off) /\ e[1] = place(off, c) /\ e[2] = value(off, c)
        BY <3>1
      <4> HIDE DEF e
      <4>2. QED
        BY <3>2, <4>1
    <3>3. ASSUME \A c \in CheckBox(S, b, off) : field[p][place(off, c)] = value(off, c),
                 NEW e \in set(off)
          PROVE  field[p][e[1]] = e[2]
      <4>1. PICK c \in CheckBox(S, b, off) : e = <<place(off, c), value(off, c)>>
        BY <3>1
      <4>2. e[1] = place(off, c) /\ e[2] = value(off, c)
        BY <4>1
      <4>3. QED
        BY <3>3, <4>2
    <3>4. QED
      BY <3>2, <3>3
  <2> HIDE DEF set
  <2>3. QED
    BY <2>1, <2>2
<1>5. \A off \in Offset : \A c \in CheckBox(S, b, off) :
        place(off, c) \in D /\ CheckValue(S, n(off), off, c) = Reference[S][p][place(off, c)]
  BY <1>1, ExpectedRight
<1>6. \A i \in D : \E off \in Offset : \E c \in CheckBox(S, b, off) : place(off, c) = i
  BY <1>1, ExpectedAll
<1> HIDE DEF b, n, D, place
<1>7. check(p) <=> \A i \in D : field[p][i] = Reference[S][p][i]
  BY <1>4, <1>5, <1>6
<1>8. QED
  BY <1>1, <1>2, <1>7

(***************************************************************************)
(* check tells the truth, at whatever point of an exchange, for every          *)
(* decomposition into blocks that are not smaller than the halo, the backend    *)
(* whose exchange fails included (runtime.cpp:207-271).                      *)
(***************************************************************************)
THEOREM CheckIsRight == Spec => []CheckTellsTruth
<1>1. ShapeInv => CheckTellsTruth
  BY CheckIs DEF CheckTellsTruth
<1>2. QED
  BY <1>1, ShapeInvariance, PTL
=============================================================================
