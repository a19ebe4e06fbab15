--------------------------- MODULE Decomposition ---------------------------
(***************************************************************************)
(* The index arithmetic of cartex::decomposition                            *)
(* (cartex/src/decomposition/decomposition.cpp): a periodic grid of ranks,    *)
(* each split into a grid of threads, and a block of the global domain for    *)
(* every thread of every rank.                                              *)
(*                                                                         *)
(* A decomposition D is a record: grid is m_global_decomposition, threads is   *)
(* m_thread_decomposition, cells is the domain size asked for and local says   *)
(* whether it is that of one block or of the whole.  A rank is named by its   *)
(* place in the grid: the numbering of ranks (MPI_Cart_rank, hwcart) is any    *)
(* bijection.  Dimensions are 1, 2, 3 for x, y, z.                            *)
(***************************************************************************)
EXTENDS Integers

Dim == 1..3
Triple(f(_)) == <<f(1), f(2), f(3)>>

Rank(D) == (0..D.grid[1] - 1) \X (0..D.grid[2] - 1) \X (0..D.grid[3] - 1)

\* m_threads_per_rank and the thread ids of a rank.
ThreadsPerRank(D) == D.threads[1] * D.threads[2] * D.threads[3]
Tid(D) == 0..(ThreadsPerRank(D) - 1)

\* Blocks in a dimension: m_last_coord is one less.
Blocks(D, d) == D.grid[d] * D.threads[d]
GlobalCoord(D) == (0..Blocks(D, 1) - 1) \X (0..Blocks(D, 2) - 1) \X (0..Blocks(D, 3) - 1)

-----------------------------------------------------------------------------
(***************************************************************************)
(* init_domain: block sizes and where the blocks begin, per dimension.       *)
(***************************************************************************)
GlobalDomain(D, d) == IF D.local THEN Blocks(D, d) * D.cells[d] ELSE D.cells[d]

\* A mutation: the remainder is given away twice.
DomainExtRoundedUp(D, d, i) ==
    (GlobalDomain(D, d) + Blocks(D, d) - 1) \div Blocks(D, d)

DomainExt(D, d, i) ==
    LET ext == GlobalDomain(D, d) \div Blocks(D, d)
        j == GlobalDomain(D, d) - Blocks(D, d) * ext
    IN  ext + (IF i < j THEN 1 ELSE 0)

\* m_domain_coord[d], one entry longer than the number of blocks.
DomainCoord(D, d) ==
    LET at[i \in 0..Blocks(D, d)] ==
          IF i = 0 THEN 0 ELSE at[i - 1] + DomainExt(D, d, i - 1)
    IN  at

-----------------------------------------------------------------------------
(***************************************************************************)
(* coord and domain                                                         *)
(***************************************************************************)
\* A mutation: z varies fastest.
CoordZFirst(D, rank, t) ==
    LET T == D.threads
        r(d) == rank[d] * T[d]
    IN  <<r(1) + (t \div (T[3] * T[2])), r(2) + ((t \div T[3]) % T[2]), r(3) + (t % T[3])>>

Coord(D, rank, t) ==
    LET T == D.threads
        r(d) == rank[d] * T[d]   \* m_coord after init_domain
    IN  <<r(1) + (t % T[1]), r(2) + ((t \div T[1]) % T[2]), r(3) + ((t \div T[1]) \div T[2])>>

DomainId(D, c) == c[1] + Blocks(D, 1) * (c[2] + Blocks(D, 2) * c[3])

DomainAt(D, rank, t, c) ==
    [id |-> DomainId(D, c), rank |-> rank, thread |-> t, coord |-> c,
     begin |-> Triple(LAMBDA d : DomainCoord(D, d)[c[d]]),
     ext |-> Triple(LAMBDA d : DomainExt(D, d, c[d]))]

Domain(D, rank, t) == DomainAt(D, rank, t, Coord(D, rank, t))

(***************************************************************************)
(* neighbor, off[d] blocks away in each dimension d, one at the most, over     *)
(* the periodic ends of the grid.                                           *)
(***************************************************************************)
\* A mutation: the step off the right end is taken one block too late.
WrapLate(D, d, x) == IF x > Blocks(D, d) THEN x - Blocks(D, d)
                     ELSE IF x < 0 THEN x + Blocks(D, d) ELSE x

Wrap(D, d, x) == IF x > Blocks(D, d) - 1 THEN x - Blocks(D, d)
                 ELSE IF x < 0 THEN x + Blocks(D, d) ELSE x

\* The rank and the thread of a block.
RankOf(D, c) == Triple(LAMBDA d : c[d] \div D.threads[d])

ThreadOf(D, c) ==
    LET ct(d) == c[d] - (c[d] \div D.threads[d]) * D.threads[d]
    IN  ct(1) + D.threads[1] * (ct(2) + D.threads[2] * ct(3))

NeighborAt(D, rank, t, off) ==
    LET c == Triple(LAMBDA e : Wrap(D, e, Coord(D, rank, t)[e] + off[e]))
    IN  DomainAt(D, RankOf(D, c), ThreadOf(D, c), c)

\* One step in dimension d, to the left (-1) or to the right (1).
OneStep(d, way) == Triple(LAMBDA e : IF e = d THEN way ELSE 0)

Neighbor(D, rank, t, d, way) == NeighborAt(D, rank, t, OneStep(d, way))
=============================================================================
