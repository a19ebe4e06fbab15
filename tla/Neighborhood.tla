---------------------------- MODULE Neighborhood ----------------------------
(***************************************************************************)
(* What a thread knows of its neighbours in a halo exchange: the class         *)
(* neighborhood of cartex/src/runtime/mpi_comm/runtime.cpp.  In a neighborhood *)
(* nb, d is its own block and l and r are those to the left and to the right   *)
(* in each dimension.  Dimensions are 1..3 here, 0..2 there.                 *)
(***************************************************************************)
EXTENDS Decomposition

\* The constructor.  It initialises num_fields with the threads of a rank.
Neighborhood(D, rank, t) ==
    [num_fields |-> ThreadsPerRank(D),
     d |-> Domain(D, rank, t),
     l |-> Triple(LAMBDA i : Neighbor(D, rank, t, i, -1)),
     r |-> Triple(LAMBDA i : Neighbor(D, rank, t, i, 1))]

\* A message that moves left goes to the left neighbour, from the right one.
Target(nb, dim, left) == IF left THEN nb.l[dim] ELSE nb.r[dim]
Source(nb, dim, left) == IF left THEN nb.r[dim] ELSE nb.l[dim]

Tag(nb, field_id, dim, left, thread) ==
    field_id + nb.num_fields * ((dim - 1) * 2 + (IF left THEN 0 ELSE 1) + 6 * thread)

sendtag(nb, field_id, dim, left) == Tag(nb, field_id, dim, left, nb.d.thread)

\* A mutation: the tag names the thread that receives.
RecvtagOwnThread(nb, field_id, dim, left) == Tag(nb, field_id, dim, left, nb.d.thread)

\* A mutation: the direction is the one the message comes from.
RecvtagFlipped(nb, field_id, dim, left) ==
    Tag(nb, field_id, dim, ~left, Source(nb, dim, left).thread)

recvtag(nb, field_id, dim, left) ==
    Tag(nb, field_id, dim, left, Source(nb, dim, left).thread)
=============================================================================
