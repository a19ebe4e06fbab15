---------------------------- MODULE MCHaloCells ----------------------------
(***************************************************************************)
(* One to four blocks, some of different sizes, in every backend.             *)
(***************************************************************************)
EXTENDS HaloCells

On(g, t, c, h, be) == [grid |-> g, threads |-> t, cells |-> c, local |-> FALSE,
                        fields |-> 2, halo |-> h, backend |-> be]

MCSetups == {On(<<2, 1, 1>>, <<1, 1, 1>>, <<3, 1, 2>>, 1, "datatypes"),
             On(<<1, 1, 1>>, <<1, 1, 2>>, <<1, 2, 3>>, 1, "datatypes"),
             On(<<1, 2, 1>>, <<1, 1, 1>>, <<1, 3, 1>>, 1, "packed"),
             On(<<1, 1, 1>>, <<1, 1, 1>>, <<2, 3, 2>>, 2, "packed"),
             On(<<1, 1, 1>>, <<1, 1, 2>>, <<1, 2, 3>>, 1, "packed_z"),
             On(<<1, 1, 1>>, <<2, 1, 1>>, <<3, 1, 1>>, 1, "oomph"),
             On(<<1, 2, 1>>, <<1, 1, 1>>, <<2, 3, 1>>, 1, "oomph_z"),
             On(<<1, 1, 2>>, <<1, 1, 1>>, <<2, 1, 3>>, 1, "tausch"),
             On(<<1, 1, 1>>, <<1, 1, 1>>, <<2, 2, 2>>, 2, "tausch"),
             On(<<2, 1, 1>>, <<1, 1, 1>>, <<4, 3, 1>>, 1, "kernels"),
             On(<<1, 1, 1>>, <<1, 1, 1>>, <<2, 5, 3>>, 1, "kernels"),
             On(<<1, 1, 1>>, <<1, 1, 1>>, <<2, 3, 2>>, 2, "kernels_loop"),
             On(<<3, 1, 1>>, <<1, 1, 1>>, <<4, 1, 1>>, 1, "datatypes"),
             On(<<1, 2, 1>>, <<1, 1, 2>>, <<1, 3, 3>>, 1, "oomph")}

\* A single block whose z buffers are packed by the CUDA kernel.
MCPackZ == {On(<<1, 1, 1>>, <<1, 1, 1>>, <<1, 2, 1>>, 1, "kernels_z")}
=============================================================================
