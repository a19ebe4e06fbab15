--------------------------- MODULE MCHaloExchange ---------------------------
(***************************************************************************)
(* Decompositions of two to four threads, in one rank or several, with as      *)
(* many fields as the tags can tell apart, or with one thread per rank.       *)
(***************************************************************************)
EXTENDS HaloExchange

S(g, t, f) == [grid |-> g, threads |-> t, fields |-> f,
               cells |-> <<1, 1, 1>>, local |-> TRUE]

MCSetups == {S(<<1, 1, 1>>, <<2, 1, 1>>, 2),
             S(<<1, 2, 1>>, <<1, 1, 1>>, 3),
             S(<<1, 1, 3>>, <<1, 1, 1>>, 1),
             S(<<2, 1, 1>>, <<1, 2, 1>>, 1)}

\* Two threads, three fields.
MCManyFields == {S(<<1, 1, 1>>, <<2, 1, 1>>, 3)}
=============================================================================
