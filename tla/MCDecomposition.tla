--------------------------- MODULE MCDecomposition ---------------------------
(***************************************************************************)
(* Grids of up to 3 ranks and 2 threads in a dimension, with domains that do  *)
(* and do not divide evenly; and grids nested in one, two and three levels.    *)
(***************************************************************************)
EXTENDS DecompositionWalk

ThreadGrids == {<<1, 1, 1>>, <<2, 1, 1>>, <<1, 2, 2>>, <<3, 2, 1>>}
Cells == {<<5, 7, 11>>, <<12, 6, 13>>}

\* --MPICart
Cart == [grid : {<<1, 1, 1>>, <<2, 1, 3>>, <<3, 2, 1>>}, levels : {<<>>},
         threads : ThreadGrids, cells : Cells, local : BOOLEAN]

\* --core, --socket, --node, ... : what is not given has an empty grid.
Builder(core, socket, node) ==
    [r \in {Resources[i] : i \in DOMAIN Resources} |->
       CASE r = "core" -> core [] r = "socket" -> socket [] r = "node" -> node
         [] OTHER -> <<0, 0, 0>>]

Builders == {Builder(<<2, 1, 2>>, <<0, 0, 0>>, <<0, 0, 0>>),
             Builder(<<2, 1, 1>>, <<0, 0, 0>>, <<3, 2, 1>>),
             Builder(<<2, 1, 1>>, <<1, 2, 1>>, <<2, 1, 2>>)}

Nested == {[grid |-> Grid(m_level_grid(b)), levels |-> m_level_grid(b),
            threads |-> <<2, 1, 1>>, cells |-> <<13, 8, 9>>, local |-> FALSE] : b \in Builders}

MCDecompositions == Cart \union Nested
=============================================================================
