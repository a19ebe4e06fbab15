----------------------------- MODULE LevelGrid -----------------------------
(***************************************************************************)
(* The arithmetic of ghexbench::hw_topo (src/src/hw_topo.cpp): a grid of ranks *)
(* nested by hardware level, the ranks of a core in a grid, the cores of an L3  *)
(* cache in a grid, and so on up to the nodes.                               *)
(*                                                                         *)
(* g is m_level_grid, one triple per level from the innermost out.  Levels     *)
(* count from 0 as in the source, g from 1.  How hwcart numbers the ranks is    *)
(* external: a rank is its place in the whole grid.                          *)
(***************************************************************************)
EXTENDS Integers, Sequences

Resources == <<"hwthread", "core", "l3", "numa", "socket", "node">>

\* check and build of hw_topo_builder b: the resources it was given a grid for.
Given(b, r) == \A d \in 1..3 : b[r][d] > 0
m_levels(b) == SelectSeq(Resources, LAMBDA r : Given(b, r))
m_level_grid(b) == [i \in DOMAIN m_levels(b) |-> b[m_levels(b)[i]]]

\* A mutation: the level counts itself.
SizeInclusive(g, l, d) ==
    LET up[j \in 0..Len(g)] == IF j = 0 THEN 1 ELSE up[j - 1] * g[j][d]
    IN  up[IF l < Len(g) THEN l + 1 ELSE l]

\* size(l, d): places in dimension d that a resource of level l has.
Size(g, l, d) ==
    LET up[j \in 0..Len(g)] == IF j = 0 THEN 1 ELSE up[j - 1] * g[j][d]
    IN  up[l]

\* size(l) and count(l): ranks in a resource of level l, and such resources.
RanksIn(g, l) == Size(g, l, 1) * Size(g, l, 2) * Size(g, l, 3)
Count(g, l) ==
    LET from[j \in 0..Len(g)] ==
          IF j = Len(g) THEN 1 ELSE g[j + 1][1] * g[j + 1][2] * g[j + 1][3] * from[j + 1]
    IN  from[l]

\* m_grid
Grid(g) == <<Size(g, Len(g), 1), Size(g, Len(g), 2), Size(g, Len(g), 3)>>

\* level_grid_coord of the rank at coord: outermost level first.  left is
\* what remains of coord when the levels above l are taken off.
level_grid_coord(g, coord) ==
    LET left[l \in 0..(Len(g) - 1)] ==
          [d \in 1..3 |-> IF l = Len(g) - 1 THEN coord[d]
                          ELSE left[l + 1][d]
                                 - (left[l + 1][d] \div Size(g, l + 1, d)) * Size(g, l + 1, d)]
    IN  [i \in 1..Len(g) |->
           [d \in 1..3 |-> left[Len(g) - i][d] \div Size(g, Len(g) - i, d)]]

\* rank(c): the place of the rank whose level coordinates are c.
RankAt(g, c) ==
    LET sum[l \in 0..Len(g)] ==
          [d \in 1..3 |-> IF l = 0 THEN 0
                          ELSE sum[l - 1][d] + c[Len(g) + 1 - l][d] * Size(g, l - 1, d)]
    IN  <<sum[Len(g)][1], sum[Len(g)][2], sum[Len(g)][3]>>
=============================================================================
