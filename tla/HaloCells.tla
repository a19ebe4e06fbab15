----------------------------- MODULE HaloCells -----------------------------
(***************************************************************************)
(* One step of the halo exchange, cell by cell: all threads of all ranks       *)
(* exchange the halos of one field, in the three dimensions one after the      *)
(* other, and runtime::check then compares every cell with what it should be.  *)
(*                                                                         *)
(* S.backend says how: "datatypes", "packed" and "packed_z" are the MPI          *)
(* runtime with subarrays, with packing, and with CARTEX_MPI_PACK_Z as well;     *)
(* "kernels", "kernels_loop" and "kernels_z" are the CUDA builds of the last     *)
(* two; "oomph" and "oomph_z" are the oomph runtime without and with PACK_Z;     *)
(* "tausch" is the Tausch runtime.                                          *)
(*                                                                         *)
(* A message is known by its sender, the dimension and the direction; that tags *)
(* tell these apart is the matter of HaloExchange.  A message is read from its  *)
(* buffer, or from the field itself, at any time from the call of send until    *)
(* the sender's wait returns, and written at any time while the receiver waits.*)
(***************************************************************************)
EXTENDS HaloBoxes

CONSTANT Setups   \* decompositions with halo and backend

ProcOf(s) == {<<r, t>> : r \in Rank(s), t \in Tid(s)}
BlockOf(s, p) == Domain(s, p[1], p[2])

Backends == {"datatypes", "packed", "packed_z", "kernels", "kernels_loop", "kernels_z",
             "oomph", "oomph_z", "tausch"}

ASSUME SetupsAssumption ==
    \A s \in Setups :
      /\ \A d \in Dim : /\ s.grid[d] \in Nat \ {0} /\ s.threads[d] \in Nat \ {0}
                        /\ s.cells[d] \in Nat
      /\ s.halo \in Nat /\ s.fields \in Nat \ {0}
      /\ s.backend \in Backends

ASSUME KernelsAssumption ==
    \A s \in Setups : s.backend \in {"kernels", "kernels_loop", "kernels_z"} =>
                      \A p \in ProcOf(s) : Launchable(s, BlockOf(s, p))

\* Nothing in the code asks for it, but a wider halo could not come from one neighbour.
ASSUME HaloAssumption ==
    \A s \in Setups : \A p \in ProcOf(s), d \in Dim : s.halo <= BlockOf(s, p).ext[d]

VARIABLES S,        \* the setup
          field,    \* m_raw_fields: the array of one field of every thread
          sbuf,     \* send_buffers, by dimension and direction
          rbuf,     \* recv_buffers, by dimension and direction
          dim,      \* the dimension a thread is in, 4 after the last
          at,       \* ... and which call of Calls comes next there
          waiting,  \* the directions whose messages a thread waits for
          msg       \* what became of every message, by its sender

vars == <<S, field, sbuf, rbuf, dim, at, waiting, msg>>

Proc == ProcOf(S)
Way == {<<d, left>> : d \in Dim, left \in BOOLEAN}   \* a dimension, and whether the message moves left

\* What the constructors work out once, for every thread of every setup.
Blk == [s \in Setups |-> [p \in ProcOf(s) |-> BlockOf(s, p)]]
Neighbors == [s \in Setups |-> [p \in ProcOf(s) |->
    Neighborhood(s, p[1], p[2])]]

-----------------------------------------------------------------------------
(***************************************************************************)
(* The cells a message is made of and the cells it fills, by backend.          *)
(***************************************************************************)
Kernels(s) == s.backend \in {"kernels", "kernels_loop", "kernels_z"}
Oomph(s) == s.backend \in {"oomph", "oomph_z"}

\* Sent out of the field and received into it, with no buffer in between.
IsDirect(s, d) ==
    \/ s.backend = "datatypes"
    \/ d = 3 /\ s.backend \in {"packed", "kernels", "kernels_loop", "oomph"}

SendBox(s, b, d, left) ==
    CASE s.backend = "datatypes" -> SendType(s, b, d, left)
      [] s.backend = "tausch" -> add_send_halo(s, b, d, left)
      [] Oomph(s) -> OomphPackBox(s, b, d, left)
      [] OTHER -> PackBox(s, b, d, left)

RecvBox(s, b, d, left) ==
    CASE s.backend = "datatypes" -> RecvType(s, b, d, left)
      [] s.backend = "tausch" -> add_recv_halo(s, b, d, left)
      [] Oomph(s) -> OomphUnpackBox(s, b, d, left)
      [] OTHER -> UnpackBox(s, b, d, left)

SendCells(s, b, w) ==
    IF s.backend = "datatypes" \/ ~IsDirect(s, w[1]) THEN Cells(s, b, SendBox(s, b, w[1], w[2]))
    ELSE IF Oomph(s) THEN OomphSendPlanes(s, b, w[2]) ELSE SendPlanes(s, b, w[2])

RecvCells(s, b, w) ==
    IF s.backend = "datatypes" \/ ~IsDirect(s, w[1]) THEN Cells(s, b, RecvBox(s, b, w[1], w[2]))
    ELSE IF Oomph(s) THEN OomphRecvPlanes(s, b, w[2]) ELSE RecvPlanes(s, b, w[2])

Out == [s \in Setups |-> [p \in ProcOf(s) |->
    [w \in Way |-> SendCells(s, Blk[s][p], w)]]]
In == [s \in Setups |-> [p \in ProcOf(s) |->
    [w \in Way |-> RecvCells(s, Blk[s][p], w)]]]

\* Where a cell is in the message that fills it.
Place == [s \in Setups |-> [p \in ProcOf(s) |->
    [w \in Way |->
    [i \in {In[s][p][w][k] : k \in DOMAIN In[s][p][w]} |->
       CHOOSE k \in DOMAIN In[s][p][w] : In[s][p][w][k] = i]]]]

\* The positions of a buffer that are packed and unpacked.
Worked == [s \in Setups |-> [p \in ProcOf(s) |->
    [w \in Way |->
    IF Kernels(s) THEN Covered(s, Blk[s][p], w[1], w[2]) ELSE DOMAIN Out[s][p][w]]]]

\* How long the buffers are: Tausch makes its own, as long as the lists of indices.
Length == [s \in Setups |-> [p \in ProcOf(s) |->
    [w \in Way |->
    IF IsDirect(s, w[1]) THEN 0
    ELSE CASE s.backend = "tausch" -> Len(Out[s][p][w])
           [] Oomph(s) -> OomphBufferSize(s, Blk[s][p], w[1], w[2])
           [] OTHER -> BufferSize(s, Blk[s][p], w[1], w[2])]]]

Buffer(p, w) == [k \in 1..Length[S][p][w] |-> 0]

-----------------------------------------------------------------------------
(***************************************************************************)
(* What fields hold: every cell of the global domain has a value of its own    *)
(* (of the last field, so that it is never 0).                              *)
(***************************************************************************)
Value(s, g) ==
    (g[1] + GlobalDomain(s, 1) * (g[2] + GlobalDomain(s, 2) * g[3])) * s.fields + s.fields - 1

Size == [s \in Setups |-> [p \in ProcOf(s) |->
    Volume(ext_buffer(s, Blk[s][p]))]]
PlaceInBlock(s, p, i) ==
    Triple(LAMBDA d : CellAt(ext_buffer(s, Blk[s][p]), i)[d] - HaloL(s, d))

make_fields(s, p) ==
    LET b == Blk[s][p]
    IN  [i \in 0..(Size[s][p] - 1) |->
          LET c == PlaceInBlock(s, p, i)
          IN  IF \A d \in Dim : c[d] \in 0..(b.ext[d] - 1)
              THEN Value(s, Triple(LAMBDA d : b.begin[d] + c[d])) ELSE 0]

\* What an exchanged field should hold: the global domain is periodic.
Reference == [s \in Setups |-> [p \in ProcOf(s) |->
    [i \in 0..(Size[s][p] - 1) |->
       LET c == PlaceInBlock(s, p, i)
       IN  Value(s, Triple(LAMBDA d : (Blk[s][p].begin[d] + c[d]) % GlobalDomain(s, d)))]]]

(***************************************************************************)
(* check: the cells it looks at and what it expects there, from the blocks      *)
(* around, and its answer.                                                  *)
(***************************************************************************)
\* A mutation: the loop over zn ends too early.
OffsetShort == {<<xn, yn, zn>> : xn \in {-1, 0, 1}, yn \in {-1, 0, 1}, zn \in {-1, 0}}

Offset == {<<xn, yn, zn>> : xn \in {-1, 0, 1}, yn \in {-1, 0, 1}, zn \in {-1, 0, 1}}

Expected(s, p) ==
    [off \in Offset |->
      LET b == Blk[s][p]
          n == NeighborAt(s, p[1], p[2], off)
          ext(d) == IF off[d] < 0 THEN HaloL(s, d)
                    ELSE IF off[d] = 0 THEN b.ext[d] ELSE HaloR(s, d)
          first(d) == IF off[d] < 0 THEN 0
                      ELSE IF off[d] = 0 THEN HaloL(s, d) ELSE HaloL(s, d) + b.ext[d]
          first_n(d) == IF off[d] < 0 THEN n.ext[d] - HaloL(s, d) ELSE 0
      IN  {<<Index(ext_buffer(s, b), Triple(LAMBDA d : first(d) + c[d])),
             Value(s, Triple(LAMBDA d : n.begin[d] + first_n(d) + c[d]))>> :
           c \in (0..ext(1) - 1) \X (0..ext(2) - 1) \X (0..ext(3) - 1)}]

Expectations == [s \in Setups |-> [p \in ProcOf(s) |-> Expected(s, p)]]

check(p) == \A off \in Offset : \A e \in Expectations[S][p][off] : field[p][e[1]] = e[2]

-----------------------------------------------------------------------------
(***************************************************************************)
(* The calls of a dimension, the same in all three: packing, two receives, two  *)
(* sends, and the wait with unpacking.                                      *)
(***************************************************************************)
MpiTypeCalls == <<"recv", "send", "wait">>
MpiCalls == <<"pack", "recv", "send", "wait">>
OomphCalls == <<"recv", "pack", "send", "wait">>
TauschCalls == <<"pack", "send", "recv", "wait">>

Calls(s) == CASE s.backend = "datatypes" -> MpiTypeCalls
              [] s.backend = "tausch" -> TauschCalls
              [] Oomph(s) -> OomphCalls
              [] OTHER -> MpiCalls

Init ==
    /\ S \in Setups
    /\ field = [p \in Proc |-> make_fields(S, p)]
    /\ sbuf = [p \in Proc |-> [w \in Way |-> Buffer(p, w)]]
    /\ rbuf = [p \in Proc |-> [w \in Way |-> Buffer(p, w)]]
    /\ dim = [p \in Proc |-> 1]
    /\ at = [p \in Proc |-> 1]
    /\ waiting = [p \in Proc |-> {}]
    /\ msg = [p \in Proc |-> [w \in Way |-> [is |-> "none", data |-> <<>>]]]

Load(p, w) == LET cells == Out[S][p][w]
                  values == field[p]
              IN  [k \in DOMAIN cells |-> values[cells[k]]]

\* A buffer after packing.
Packed(p, w) == LET values == Load(p, w)
                    worked == Worked[S][p][w]
                    old == sbuf[p][w]
                IN  [k \in DOMAIN old |-> IF k \in worked THEN values[k] ELSE old[k]]

\* pack_z_kernel: both halves write buffer_left, and the right half last where late says so.
PackedZ(p, w, late) ==
    LET left_half == Load(p, <<3, FALSE>>)
        right_half == Load(p, <<3, TRUE>>)
    IN  IF w[2] THEN sbuf[p][w]
        ELSE [k \in DOMAIN left_half |-> IF k \in late THEN right_half[k] ELSE left_half[k]]

Races(p) == S.backend = "kernels_z" /\ dim[p] = 3

\* The next of the calls that a thread makes in a dimension.
IsNext(p, call) == dim[p] \in Dim /\ at[p] \in DOMAIN Calls(S) /\ Calls(S)[at[p]] = call

Pack(p) ==
    /\ IsNext(p, "pack")
    /\ \E late \in IF Races(p) THEN SUBSET DOMAIN sbuf[p][<<3, FALSE>>] ELSE {{}} :
         sbuf' = [sbuf EXCEPT ![p] = [w \in Way |->
                    IF w[1] # dim[p] \/ IsDirect(S, w[1]) THEN @[w]
                    ELSE IF Races(p) THEN PackedZ(p, w, late) ELSE Packed(p, w)]]
    /\ at' = [at EXCEPT ![p] = @ + 1]
    /\ UNCHANGED <<S, field, rbuf, dim, waiting, msg>>

\* Both receives of a dimension.
Receive(p) ==
    /\ IsNext(p, "recv")
    /\ waiting' = [waiting EXCEPT ![p] = BOOLEAN]
    /\ at' = [at EXCEPT ![p] = @ + 1]
    /\ UNCHANGED <<S, field, sbuf, rbuf, dim, msg>>

\* Both sends of a dimension.
Send(p) ==
    /\ IsNext(p, "send")
    /\ msg' = [msg EXCEPT ![p] = [w \in Way |->
                 IF w[1] = dim[p] THEN [@[w] EXCEPT !.is = "posted"] ELSE @[w]]]
    /\ at' = [at EXCEPT ![p] = @ + 1]
    /\ UNCHANGED <<S, field, sbuf, rbuf, dim, waiting>>

\* The library reads a message that was sent.
Read(p, w) ==
    /\ msg[p][w].is = "posted"
    /\ msg' = [msg EXCEPT ![p][w] =
                 [is |-> "read", data |-> IF IsDirect(S, w[1]) THEN Load(p, w) ELSE sbuf[p][w]]]
    /\ UNCHANGED <<S, field, sbuf, rbuf, dim, at, waiting>>

Sender(q, w) == LET n == Source(Neighbors[S][q], w[1], w[2]) IN <<n.rank, n.thread>>

\* A field f with the part of data at the positions in where put in its place.
Filled(f, place, data, where) ==
    [i \in DOMAIN f |-> IF i \in DOMAIN place /\ place[i] \in DOMAIN data \cap where
                        THEN data[place[i]] ELSE f[i]]

\* The library writes a message where the receiver wants it.
Write(q, w) ==
    LET p == Sender(q, w)
    IN  /\ dim[q] = w[1] /\ w[2] \in waiting[q]
        /\ msg[p][w].is = "read"
        /\ msg' = [msg EXCEPT ![p][w] = [is |-> "written", data |-> <<>>]]
        /\ waiting' = [waiting EXCEPT ![q] = @ \ {w[2]}]
        /\ IF IsDirect(S, w[1])
           THEN /\ field' = [field EXCEPT ![q] =
                        Filled(@, Place[S][q][w], msg[p][w].data, DOMAIN msg[p][w].data)]
                /\ UNCHANGED rbuf
           ELSE /\ rbuf' = [rbuf EXCEPT ![q][w] = msg[p][w].data]
                /\ UNCHANGED field
        /\ UNCHANGED <<S, sbuf, dim, at>>

Unpack(p, f, left) ==
    LET w == <<dim[p], left>>
    IN  Filled(f, Place[S][p][w], rbuf[p][w], Worked[S][p][w])

\* A mutation: it is enough that one of the two messages came.
FinishEarly(p) ==
    /\ IsNext(p, "wait") /\ waiting[p] # BOOLEAN
    /\ \A left \in BOOLEAN : msg[p][<<dim[p], left>>].is \in {"read", "written"}
    /\ field' = IF IsDirect(S, dim[p]) THEN field
                ELSE [field EXCEPT ![p] = Unpack(p, Unpack(p, @, FALSE), TRUE)]
    /\ dim' = [dim EXCEPT ![p] = @ + 1]
    /\ at' = [at EXCEPT ![p] = 1]
    /\ UNCHANGED <<S, sbuf, rbuf, waiting, msg>>

\* The wait for both messages and for our own, and unpacking.
Finish(p) ==
    /\ IsNext(p, "wait") /\ waiting[p] = {}
    /\ \A left \in BOOLEAN : msg[p][<<dim[p], left>>].is \in {"read", "written"}
    /\ field' = IF IsDirect(S, dim[p]) THEN field
                ELSE [field EXCEPT ![p] = Unpack(p, Unpack(p, @, FALSE), TRUE)]
    /\ dim' = [dim EXCEPT ![p] = @ + 1]
    /\ at' = [at EXCEPT ![p] = 1]
    /\ UNCHANGED <<S, sbuf, rbuf, waiting, msg>>

Done(p) == dim[p] = 4

Terminated == (\A p \in Proc : Done(p)) /\ UNCHANGED vars

Next == \/ \E p \in Proc : Pack(p) \/ Receive(p) \/ Send(p) \/ Finish(p)
        \/ \E p \in Proc, w \in Way : Read(p, w) \/ Write(p, w)
        \/ Terminated

Spec == Init /\ [][Next]_vars

-----------------------------------------------------------------------------
\* Arrays and buffers keep their size, and no loop leaves an array.
TypeOK ==
    /\ S \in Setups
    /\ dim \in [Proc -> 1..4]
    /\ at \in [Proc -> DOMAIN Calls(S)]
    /\ waiting \in [Proc -> SUBSET BOOLEAN]
    /\ \A p \in Proc :
         LET cells == DOMAIN field[p]
         IN  /\ cells = 0..(Size[S][p] - 1)
             /\ \A w \in Way :
                  /\ DOMAIN Place[S][p][w] \subseteq cells
                  /\ Len(sbuf[p][w]) = Length[S][p][w]
                  /\ Len(rbuf[p][w]) = Length[S][p][w]
                  /\ msg[p][w].is \in {"none", "posted", "read", "written"}

(***************************************************************************)
(* A thread that has ended the exchange has its whole field right, the edges    *)
(* and corners that came by way of two or three blocks included, although its  *)
(* neighbours may still be at it and messages are read and written at any time *)
(* (mpi_comm/runtime.cpp:407-482 and its likes in the other backends).        *)
(***************************************************************************)
HalosMatchReference == \A p \in Proc : Done(p) => field[p] = Reference[S][p]

(***************************************************************************)
(* check tells the truth, at whatever point of an exchange it is asked: it       *)
(* answers true exactly if all cells of the field hold what they should, so it  *)
(* overlooks no cell and expects nothing wrong (runtime.cpp:207-271).         *)
(***************************************************************************)
CheckTellsTruth == \A p \in Proc : check(p) <=> field[p] = Reference[S][p]

(***************************************************************************)
(* What is sent is as long as what the receiver asked for and as what it will    *)
(* unpack, also between blocks of different size (mpi_comm/runtime.cpp:517-533, *)
(* a longer message would be an error of MPI, a shorter one leave cells stale). *)
(***************************************************************************)
MessagesFit ==
    \A q \in Proc, w \in Way :
      LET p == Sender(q, w)
      IN  /\ msg[p][w].is = "read" => Len(msg[p][w].data) = Len(In[S][q][w])
          /\ ~IsDirect(S, w[1]) => /\ Len(rbuf[q][w]) = Len(In[S][q][w])
                                   /\ Len(sbuf[p][w]) = Len(Out[S][p][w])

(***************************************************************************)
(* Packing z is the same exchange by another way: check passes ("pack/unpack z  *)
(* buffers instead of direct exchange", mpi_comm/CMakeLists.txt:1).           *)
(***************************************************************************)
CheckPasses == \A p \in Proc : Done(p) => check(p)
=============================================================================
