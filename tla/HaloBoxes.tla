----------------------------- MODULE HaloBoxes -----------------------------
(***************************************************************************)
(* Which cells of a field a halo exchange moves, and in which order: the       *)
(* index arithmetic of packing and unpacking in the backends of cartex         *)
(* (cartex/src/runtime/{mpi,oomph,tausch}_comm).                            *)
(*                                                                         *)
(* A setup s is a decomposition with the halo width s.halo; b is a block of it *)
(* (domain_t).  A field is one array over the block and its halos.  A message  *)
(* "moves left" when it goes to the left neighbour: what the sources call a     *)
(* left buffer belongs to the left halo, so it holds what moves right.         *)
(***************************************************************************)
EXTENDS Neighborhood, Sequences, FiniteSets

CONSTANTS MaxThreads,   \* max_threads, max_threads_x and max_threads_y
          MaxThreadsZ,  \* max_threads_z
          WarpSize      \* warp_size

ASSUME LaunchAssumption == {MaxThreads, MaxThreadsZ, WarpSize} \subseteq Nat \ {0}

\* The six halos, of which the runtime makes one number.
m_halos(s) == [i \in 1..6 |-> s.halo]
HaloL(s, d) == m_halos(s)[2 * d - 1]
HaloR(s, d) == m_halos(s)[2 * d]

ext_buffer(s, b) == Triple(LAMBDA d : b.ext[d] + HaloL(s, d) + HaloR(s, d))
z_plane(s, b) == ext_buffer(s, b)[1] * ext_buffer(s, b)[2]

\* memory_view: where a cell is in the array, x fastest.
Index(n, c) == c[1] + n[1] * (c[2] + n[2] * c[3])
Volume(n) == n[1] * n[2] * n[3]
CellAt(n, i) == <<i % n[1], (i \div n[1]) % n[2], i \div (n[1] * n[2])>>

\* The cells of a box, in the order the loops over z, y and x visit them.
Cells(s, b, box) ==
    [k \in 1..Volume(box.size) |->
       LET c == CellAt(box.size, k - 1)
       IN  Index(ext_buffer(s, b), Triple(LAMBDA e : box.first[e] + c[e]))]

\* A mutation: halos that were received are never passed on.
SlabInterior(s, b, d, first, size) ==
    [first |-> Triple(LAMBDA e : IF e = d THEN first ELSE HaloL(s, e)),
     size |-> Triple(LAMBDA e : IF e = d THEN size ELSE b.ext[e])]

(***************************************************************************)
(* The box that spans size cells in dimension d and, around it, the halos of    *)
(* the dimensions already exchanged but only the interior of those to come.     *)
(***************************************************************************)
Slab(s, b, d, first, size) ==
    [first |-> Triple(LAMBDA e : IF e = d THEN first
                                 ELSE IF e < d THEN 0 ELSE HaloL(s, e)),
     size |-> Triple(LAMBDA e : IF e = d THEN size
                                ELSE IF e < d THEN ext_buffer(s, b)[e] ELSE b.ext[e])]

-----------------------------------------------------------------------------
(***************************************************************************)
(* MPI: packed, as datatypes, and z without packing                         *)
(***************************************************************************)
PackBox(s, b, d, left) ==
    IF left THEN Slab(s, b, d, HaloL(s, d), HaloR(s, d))
            ELSE Slab(s, b, d, b.ext[d], HaloL(s, d))

\* A mutation: both halos are left out before the right one begins.
UnpackBoxFar(s, b, d, left) ==
    IF left THEN Slab(s, b, d, ext_buffer(s, b)[d], HaloR(s, d))
            ELSE Slab(s, b, d, 0, HaloL(s, d))

UnpackBox(s, b, d, left) ==
    IF left THEN Slab(s, b, d, HaloL(s, d) + b.ext[d], HaloR(s, d))
            ELSE Slab(s, b, d, 0, HaloL(s, d))

\* The committed subarrays: [xyz]_send_l is what moves left, [xyz]_recv_r where it goes.
SendType(s, b, d, left) ==
    IF left THEN Slab(s, b, d, HaloL(s, d), HaloR(s, d))
            ELSE Slab(s, b, d, HaloL(s, d) + b.ext[d] - HaloR(s, d), HaloL(s, d))

RecvType(s, b, d, left) ==
    IF left THEN Slab(s, b, d, HaloL(s, d) + b.ext[d], HaloR(s, d))
            ELSE Slab(s, b, d, 0, HaloL(s, d))

\* z0 to z3: planes of the field itself, n of them from plane z on.
Planes(s, b, z, n) == [k \in 1..(z_plane(s, b) * n) |-> z_plane(s, b) * z + k - 1]

SendPlanes(s, b, left) == IF left THEN Planes(s, b, HaloL(s, 3), HaloR(s, 3))
                                  ELSE Planes(s, b, b.ext[3], HaloL(s, 3))

RecvPlanes(s, b, left) == IF left THEN Planes(s, b, HaloL(s, 3) + b.ext[3], HaloR(s, 3))
                                  ELSE Planes(s, b, 0, HaloL(s, 3))

\* A mutation: the buffers for y are made without the halos in x.
BufferSizeInterior(s, b, d, left) ==
    (IF left THEN HaloR(s, d) ELSE HaloL(s, d))
      * (IF d = 1 THEN b.ext[2] * b.ext[3]
         ELSE IF d = 2 THEN b.ext[1] * b.ext[3] ELSE z_plane(s, b))

\* How large init makes the send and the receive buffer.
BufferSize(s, b, d, left) ==
    (IF left THEN HaloR(s, d) ELSE HaloL(s, d))
      * (IF d = 1 THEN b.ext[2] * b.ext[3]
         ELSE IF d = 2 THEN ext_buffer(s, b)[1] * b.ext[3] ELSE z_plane(s, b))

-----------------------------------------------------------------------------
(***************************************************************************)
(* oomph has the functions of the MPI backend once more, over its own buffers;  *)
(* with z not packed its buffers for z are made around the field.             *)
(***************************************************************************)
OomphPackBox(s, b, d, left) == PackBox(s, b, d, left)
OomphUnpackBox(s, b, d, left) == UnpackBox(s, b, d, left)
OomphBufferSize(s, b, d, left) == BufferSize(s, b, d, left)
OomphSendPlanes(s, b, left) == SendPlanes(s, b, left)
OomphRecvPlanes(s, b, left) == RecvPlanes(s, b, left)

(***************************************************************************)
(* Tausch is given lists of indices, by the first and behind the last cell.     *)
(***************************************************************************)
TauschBox(s, b, d, from, to) ==
    LET lo(e) == IF e = d THEN from ELSE IF e < d THEN 0 ELSE HaloL(s, e)
        hi(e) == IF e = d THEN to
                 ELSE IF e < d THEN ext_buffer(s, b)[e] ELSE b.ext[e] + HaloR(s, e)
    IN  [first |-> Triple(lo), size |-> Triple(LAMBDA e : hi(e) - lo(e))]

add_send_halo(s, b, d, left) ==
    IF left THEN TauschBox(s, b, d, HaloL(s, d), HaloL(s, d) + HaloR(s, d))
            ELSE TauschBox(s, b, d, b.ext[d], HaloL(s, d) + b.ext[d])

add_recv_halo(s, b, d, left) ==
    IF left THEN TauschBox(s, b, d, HaloL(s, d) + b.ext[d], ext_buffer(s, b)[d])
            ELSE TauschBox(s, b, d, 0, HaloL(s, d))

-----------------------------------------------------------------------------
(***************************************************************************)
(* The CUDA kernels: a launch has blocks of dims threads.  A thread works on     *)
(* one cell of one of the two buffers, and cells beyond the last thread are     *)
(* not packed.                                                              *)
(***************************************************************************)
Least(i, j) == IF i < j THEN i ELSE j
CeilDiv(n, k) == (n + k - 1) \div k

\* The dimension whose threads make whole warps: y for the x kernels, else x.
WarpDim(d) == IF d = 1 THEN 2 ELSE 1

WarpThreads(s, b, d) ==
    LET n == IF d = 1 THEN b.ext[2] ELSE ext_buffer(s, b)[1]
    IN  (Least(n, MaxThreads \div (HaloL(s, d) + HaloR(s, d))) \div WarpSize) * WarpSize

\* The constructor divides by these: a launch needs them to be positive.
Launchable(s, b) ==
    \A d \in Dim : HaloL(s, d) + HaloR(s, d) > 0 /\ WarpThreads(s, b, d) > 0

(***************************************************************************)
(* dims_[xyz]: both halos side by side in dimension d, whole warps in another,   *)
(* and what is left of MaxThreads in the third, a single layer of threads when  *)
(* the x kernels loop over z (CARTEX_MPI_PACK_Z_LOOP_GPU).                    *)
(***************************************************************************)
Dims(s, b, d) ==
    LET both == HaloL(s, d) + HaloR(s, d)
        rest == MaxThreads \div (both * WarpThreads(s, b, d))
        third == IF d = 3 THEN Least(rest, ext_buffer(s, b)[2])
                 ELSE IF d = 1 /\ s.backend = "kernels_loop" THEN 1
                 ELSE Least(rest, MaxThreadsZ)
    IN  Triple(LAMBDA e : IF e = d THEN both
                          ELSE IF e = WarpDim(d) THEN WarpThreads(s, b, d) ELSE third)

\* blocks_[xyz], along the size of a box.
LaunchBlocks(s, b, d, size) ==
    Triple(LAMBDA e : IF e = d \/ (d = 1 /\ e = 3 /\ s.backend = "kernels_loop")
                      THEN 1 ELSE CeilDiv(size[e], Dims(s, b, d)[e]))

\* The x kernels: threadIdx.x picks the buffer, y and z come from the grid.
XThread(s, b, c, left) ==
    LET n == LaunchBlocks(s, b, 1, PackBox(s, b, 1, left).size)
        t == Dims(s, b, 1)
    IN  /\ c[1] + (IF left THEN HaloL(s, 1) ELSE 0) < t[1]
        /\ c[2] < n[2] * t[2]
        /\ s.backend = "kernels_loop" \/ c[3] < n[3] * t[3]

\* The y kernels: threadIdx.y picks the buffer, x and z come from the grid.
YThread(s, b, c, left) ==
    LET n == LaunchBlocks(s, b, 2, PackBox(s, b, 2, left).size)
        t == Dims(s, b, 2)
    IN  /\ c[2] + (IF left THEN HaloL(s, 2) ELSE 0) < t[2]
        /\ c[1] < n[1] * t[1]
        /\ c[3] < n[3] * t[3]

\* The z kernels: threadIdx.z picks the buffer, x and y come from the grid.
ZThread(s, b, c, left) ==
    LET n == LaunchBlocks(s, b, 3, PackBox(s, b, 3, left).size)
        t == Dims(s, b, 3)
    IN  /\ c[3] + (IF left THEN HaloL(s, 3) ELSE 0) < t[3]
        /\ c[1] < n[1] * t[1]
        /\ c[2] < n[2] * t[2]

\* The positions of a buffer that have a thread.
Covered(s, b, d, left) ==
    LET size == PackBox(s, b, d, left).size
        thread(c) == \/ d = 1 /\ XThread(s, b, c, left)
                     \/ d = 2 /\ YThread(s, b, c, left)
                     \/ d = 3 /\ ZThread(s, b, c, left)
    IN  {k \in 1..Volume(size) : thread(CellAt(size, k - 1))}
=============================================================================
