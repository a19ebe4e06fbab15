------------------------- MODULE DecompositionWalk -------------------------
(***************************************************************************)
(* Walks over the blocks of a decomposition, from neighbour to neighbour, as  *)
(* the constructors of the halo exchanges ask for them                       *)
(* (cartex/src/runtime/mpi_comm/runtime.cpp:37-51): what must hold at every    *)
(* block for halo messages to find each other.                              *)
(***************************************************************************)
EXTENDS Neighborhood, LevelGrid, FiniteSets

CONSTANTS Decompositions,  \* the decompositions to walk over, and in levels the
                           \* m_level_grid of those that hw_topo makes, or <<>>
          Fields           \* m_num_fields

ASSUME DecompositionsAssumption ==
    \A E \in Decompositions, d \in Dim :
      /\ E.grid[d] \in Nat \ {0} /\ E.threads[d] \in Nat \ {0}
      /\ E.cells[d] \in Nat

\* Levels are of positive sizes, and with hw_topo the grid of ranks is the one
\* that they make.
ASSUME LevelsAssumption ==
    \A E \in Decompositions :
      /\ E.levels \in Seq([1..3 -> Nat \ {0}])
      /\ E.levels # <<>> => E.grid = Grid(E.levels)

VARIABLES D, here   \* the decomposition, and the block of it we are at

vars == <<D, here>>

Init == /\ D \in Decompositions
        /\ here = Domain(D, <<0, 0, 0>>, 0)

Move(d, way) == /\ here' = Neighbor(D, here.rank, here.thread, d, way)
                /\ UNCHANGED D

Next == \E d \in Dim, way \in {-1, 1} : Move(d, way)

Spec == Init /\ [][Next]_vars

\* A neighbour is a block of the grid, of an existing rank and thread.
TypeOK == /\ D \in Decompositions
          /\ here.rank \in Rank(D)
          /\ here.thread \in Tid(D)
          /\ here.coord \in GlobalCoord(D)

To(d, way) == Neighbor(D, here.rank, here.thread, d, way)

-----------------------------------------------------------------------------
(***************************************************************************)
(* The block one step away is the one its own rank and thread know as their   *)
(* domain, and we are its neighbour on the other side.                      *)
(***************************************************************************)
NeighborsKnowEachOther ==
    \A d \in Dim, way \in {-1, 1} :
      LET there == To(d, way)
      IN  /\ there = Domain(D, there.rank, there.thread)
          /\ here = Neighbor(D, there.rank, there.thread, d, -way)

(***************************************************************************)
(* Sender and receiver compute the same tag, each from what it knows.        *)
(***************************************************************************)
TagsAgree ==
    LET nb == Neighborhood(D, here.rank, here.thread)
    IN  \A dim \in Dim, left \in BOOLEAN, field \in 0..(Fields - 1) :
          LET there == Target(nb, dim, left)
          IN  sendtag(nb, field, dim, left)
                = recvtag(Neighborhood(D, there.rank, there.thread), field, dim, left)

(***************************************************************************)
(* Blocks are numbered without a gap and without a clash, and tile the global  *)
(* domain: those of a row begin where the last one ends, the first at 0 and    *)
(* the last ending with the domain, and their sizes differ by one cell at the  *)
(* most.                                                                    *)
(***************************************************************************)
IdsAreExact ==
    LET ids == {Domain(D, r, t).id : r \in Rank(D), t \in Tid(D)}
        n == Cardinality(Rank(D)) * ThreadsPerRank(D)
    IN  here.id \in 0..(n - 1) /\ Cardinality(ids) = n

RowsTile ==
    \A d \in Dim :
      LET right == To(d, 1)
          first == here.coord[d] = 0
          last == here.coord[d] = Blocks(D, d) - 1
      IN  /\ first => here.begin[d] = 0
          /\ here.begin[d] + here.ext[d]
               = IF last THEN GlobalDomain(D, d) ELSE right.begin[d]
          /\ right.ext[d] - here.ext[d] \in -1..1

BlocksTile == IdsAreExact /\ RowsTile

(***************************************************************************)
(* In a nested grid the coordinates of a rank, level by level, stay within the  *)
(* grid of each level and lead back to the rank, and at every level the         *)
(* resources and the ranks in each make up all the ranks.                     *)
(***************************************************************************)
LevelsRoundTrip ==
    LET g == D.levels
        c == level_grid_coord(g, here.rank)
    IN  g # <<>> =>
          /\ \A i \in DOMAIN c, d \in Dim : c[i][d] \in 0..(g[Len(g) + 1 - i][d] - 1)
          /\ RankAt(g, c) = here.rank
          /\ \A l \in 0..(Len(g) - 1) : RanksIn(g, l) * Count(g, l) = Cardinality(Rank(D))
=============================================================================
