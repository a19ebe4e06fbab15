---------------------------- MODULE HaloExchange ----------------------------
(***************************************************************************)
(* The halo exchange of cartex over MPI: every thread of every rank, in its   *)
(* own calls of runtime::exchange (cartex/src/runtime/runtime.cpp), updates    *)
(* the halos of its fields from its six neighbours, one dimension after the    *)
(* other (cartex/src/runtime/mpi_comm/runtime.cpp), with nothing to keep the    *)
(* threads in step but the messages themselves until the measured steps.      *)
(*                                                                         *)
(* MPI matches a receive with a message of the rank and the tag it asks for,   *)
(* whichever thread of that rank sent it, and messages of one thread with one  *)
(* tag in the order they were sent.  Match may take its time, so the four      *)
(* calls that start a dimension can be one action: a call made early is one    *)
(* whose effect may come late.                                             *)
(*                                                                         *)
(* Data is followed by region: offset o in {-1,0,1}^3 of a field is its part   *)
(* that belongs to the neighbour at o, <<0,0,0>> the interior.  The content of  *)
(* a region is <<block, field, step>>: whose interior it is a copy of, and of   *)
(* which step.  (The benchmark computes nothing between steps: a program that   *)
(* does relies on just this.)                                              *)
(***************************************************************************)
EXTENDS Neighborhood, Sequences, FiniteSets, SequencesExt

CONSTANTS Setups,     \* decompositions and numbers of fields to try
          FreeSteps,  \* the steps before the first barrier: check and warm-up
          MainSteps   \* the steps that are measured

ASSUME StepsAssumption == FreeSteps \in Nat \ {0} /\ MainSteps \in Nat
ASSUME SetupsAssumption ==
    \A E \in Setups :
      /\ E.fields \in Nat \ {0}
      /\ \A d \in Dim : E.grid[d] \in Nat \ {0} /\ E.threads[d] \in Nat \ {0}

VARIABLES D,        \* the decomposition, and in D.fields m_num_fields
          pos,      \* where a thread is: step, field and dimension
          at,       \* ... and what it does there
          halo,     \* the halo regions of every field of every thread
          sent,     \* messages of a thread that no receive has taken yet
          posted,   \* receives that wait for a message
          inbox,    \* recv_buffers, by the direction the message moved in
          send_buffers,  \* by dimension and direction: none is used for z
          lent,     \* sends whose memory MPI may still read
          entered,  \* how often a thread entered the barrier of its rank
          mpi       \* how often a rank entered MPI_Barrier

vars == <<D, pos, at, halo, sent, posted, inbox, send_buffers, lent,
          entered, mpi>>
memory == <<send_buffers, lent>>

ProcOf(s) == Rank(s) \X Tid(s)
Proc == ProcOf(D)

\* m_neighbors: made once, by the constructor of the runtime.
Neighbors == [s \in Setups |-> [p \in ProcOf(s) |-> Neighborhood(s, p[1], p[2])]]
m_neighbors(p) == Neighbors[D][p]

Offset == {-1, 0, 1} \X {-1, 0, 1} \X {-1, 0, 1}
Here == <<0, 0, 0>>
Field == 0..(D.fields - 1)
LastStep == FreeSteps + MainSteps

\* Nothing received yet.
Empty == <<>>

\* A measured step starts with the barrier, the steps before do not.
Before(step) == IF step > LastStep THEN "done"
                ELSE IF step > FreeSteps THEN "b1" ELSE "start"

Init ==
    /\ D \in Setups
    /\ pos = [p \in Proc |-> [step |-> 1, field |-> 0, dim |-> 1]]
    /\ at = [p \in Proc |-> Before(1)]
    /\ halo = [p \in Proc |-> [f \in Field |-> [o \in Offset \ {Here} |-> Empty]]]
    /\ sent = [p \in Proc |-> <<>>]
    /\ posted = [p \in Proc |-> {}]
    /\ inbox = [p \in Proc |-> [left \in BOOLEAN |-> Empty]]
    /\ send_buffers = [p \in Proc |-> [d \in {1, 2} |-> [left \in BOOLEAN |-> Empty]]]
    /\ lent = [p \in Proc |-> {}]
    /\ entered = [p \in Proc |-> 0]
    /\ mpi = [r \in Rank(D) |-> 0]

-----------------------------------------------------------------------------
(***************************************************************************)
(* neighborhood::exchange, one dimension                                    *)
(***************************************************************************)
\* A mutation: halos of earlier dimensions are not passed on.
SlabInteriorOnly(d) == {Here}

\* The regions sent in dimension d: the interior, and what dimensions before
\* d have filled.
Slab(d) == {o \in Offset : \A e \in Dim : e >= d => o[e] = 0}

\* What a region of a field of p holds now.
Region(p, f, o) == IF o = Here THEN <<m_neighbors(p).d.coord, f, pos[p].step>>
                   ELSE halo[p][f][o]

Content(p, o) == Region(p, pos[p].field, o)

Receive(p, left) ==
    LET nb == m_neighbors(p)
        x == pos[p]
    IN  [left |-> left, from |-> Source(nb, x.dim, left).rank,
         tag |-> recvtag(nb, x.field, x.dim, left)]

Message(p, left) ==
    LET nb == m_neighbors(p)
        x == pos[p]
    IN  [to |-> Target(nb, x.dim, left).rank,
         tag |-> sendtag(nb, x.field, x.dim, left),
         left |-> left, at |-> x,
         cells |-> [o \in Slab(x.dim) |-> Content(p, o)]]

Send(x, left) == [at |-> x, left |-> left]

\* x and y are packed, z is sent straight out of the field.
Pack(p) ==
    send_buffers' =
      IF pos[p].dim = 3 THEN send_buffers
      ELSE [send_buffers EXCEPT ![p][pos[p].dim] =
              [left \in BOOLEAN |-> Message(p, left).cells]]

\* A mutation: the receive from the left is forgotten.
StartOneReceive(p) ==
    /\ at[p] = "start"
    /\ Pack(p)
    /\ posted' = [posted EXCEPT ![p] = {Receive(p, TRUE)}]
    /\ sent' = [sent EXCEPT ![p] = @ \o <<Message(p, TRUE), Message(p, FALSE)>>]
    /\ lent' = [lent EXCEPT ![p] = @ \cup {Send(pos[p], left) : left \in BOOLEAN}]
    /\ at' = [at EXCEPT ![p] = "wait"]
    /\ UNCHANGED <<D, pos, halo, inbox, entered, mpi>>

\* pack, two MPI_Irecv and two MPI_Isend
Start(p) ==
    /\ at[p] = "start"
    /\ Pack(p)
    /\ posted' = [posted EXCEPT ![p] = {Receive(p, TRUE), Receive(p, FALSE)}]
    /\ sent' = [sent EXCEPT ![p] = @ \o <<Message(p, TRUE), Message(p, FALSE)>>]
    /\ lent' = [lent EXCEPT ![p] = @ \cup {Send(pos[p], left) : left \in BOOLEAN}]
    /\ at' = [at EXCEPT ![p] = "wait"]
    /\ UNCHANGED <<D, pos, halo, inbox, entered, mpi>>

\* The message of p that receive r of q would be given: the first that fits.
Fits(p, q, r) ==
    {i \in DOMAIN sent[p] : /\ p[1] = r.from
                            /\ sent[p][i].to = q[1]
                            /\ sent[p][i].tag = r.tag}

First(S) == CHOOSE i \in S : \A j \in S : i <= j

Match(p, q) ==
    \E r \in posted[q] :
      /\ Fits(p, q, r) # {}
      /\ LET i == First(Fits(p, q, r))
         IN  /\ inbox' = [inbox EXCEPT ![q][r.left] = sent[p][i].cells]
             /\ sent' = [sent EXCEPT ![p] = RemoveAt(@, i)]
             /\ lent' = [lent EXCEPT ![p] = @ \ {Send(sent[p][i].at, sent[p][i].left)}]
      /\ posted' = [posted EXCEPT ![q] = @ \ {r}]
      /\ UNCHANGED <<D, pos, at, halo, send_buffers, entered, mpi>>

\* A mutation: the row of fields never starts again.
AdvanceNoWrap(x) ==
    IF x.dim < 3 THEN [x EXCEPT !.dim = @ + 1]
    ELSE IF x.field < D.fields THEN [x EXCEPT !.dim = 1, !.field = @ + 1]
    ELSE [step |-> x.step + 1, field |-> 0, dim |-> 1]

\* impl::step: dimension after dimension, field after field.
Advance(x) ==
    IF x.dim < 3 THEN [x EXCEPT !.dim = @ + 1]
    ELSE IF x.field < D.fields - 1 THEN [x EXCEPT !.dim = 1, !.field = @ + 1]
    ELSE [step |-> x.step + 1, field |-> 0, dim |-> 1]

\* The halo regions of a field after unpacking what came from both sides.
\* (A matched message may be one of another dimension.)
Unpacked(p) ==
    LET d == pos[p].dim
        side(o) == inbox[p][o[d] = 1]
        inner(o) == [o EXCEPT ![d] = 0]
    IN  [o \in Offset \ {Here} |->
           IF o[d] # 0 /\ inner(o) \in Slab(d)
           THEN IF inner(o) \in DOMAIN side(o) THEN side(o)[inner(o)] ELSE Empty
           ELSE halo[p][pos[p].field][o]]

SendsDone(p) == \A i \in DOMAIN sent[p] : sent[p][i].at # pos[p]

\* A mutation: the requests of the sends are not waited for.
FinishReceivesOnly(p) ==
    /\ at[p] = "wait"
    /\ posted[p] = {}
    /\ halo' = [halo EXCEPT ![p][pos[p].field] = Unpacked(p)]
    /\ inbox' = [inbox EXCEPT ![p] = [left \in BOOLEAN |-> Empty]]
    /\ pos' = [pos EXCEPT ![p] = Advance(@)]
    /\ at' = [at EXCEPT ![p] = IF pos'[p].step = pos[p].step THEN "start"
                               ELSE Before(pos'[p].step)]
    /\ UNCHANGED <<D, sent, posted, send_buffers, lent, entered, mpi>>

\* MPI_Waitall and unpack.  Both messages must have come; its own may still be
\* under way when MPI has buffered them, and then it reads them no more.
Finish(p) ==
    /\ at[p] = "wait"
    /\ posted[p] = {}
    /\ halo' = [halo EXCEPT ![p][pos[p].field] = Unpacked(p)]
    /\ inbox' = [inbox EXCEPT ![p] = [left \in BOOLEAN |-> Empty]]
    /\ pos' = [pos EXCEPT ![p] = Advance(@)]
    /\ at' = [at EXCEPT ![p] = IF pos'[p].step = pos[p].step THEN "start"
                               ELSE Before(pos'[p].step)]
    /\ lent' = [lent EXCEPT ![p] = {}]
    /\ UNCHANGED <<D, sent, posted, send_buffers, entered, mpi>>

-----------------------------------------------------------------------------
(***************************************************************************)
(* main_step: b(); if (j == 0) MPI_Barrier; b().  The barrier of a rank is    *)
(* the one Rendezvous promises.                                             *)
(***************************************************************************)
BarrierEnter(p) ==
    /\ at[p] \in {"b1", "b2"}
    /\ entered' = [entered EXCEPT ![p] = @ + 1]
    /\ at' = [at EXCEPT ![p] = IF @ = "b1" THEN "b1in" ELSE "b2in"]
    /\ UNCHANGED <<D, pos, halo, sent, posted, inbox, memory, mpi>>

\* A mutation: there is no second b() for the threads but 0.
BarrierLeaveOnce(p) ==
    /\ at[p] \in {"b1in", "b2in"}
    /\ \A t \in Tid(D) : entered[<<p[1], t>>] >= entered[p]
    /\ at' = [at EXCEPT ![p] = IF @ = "b2in" \/ p[2] # 0 THEN "start" ELSE "mpi"]
    /\ UNCHANGED <<D, pos, halo, sent, posted, inbox, memory, entered, mpi>>

BarrierLeave(p) ==
    /\ at[p] \in {"b1in", "b2in"}
    /\ \A t \in Tid(D) : entered[<<p[1], t>>] >= entered[p]
    /\ at' = [at EXCEPT ![p] = IF @ = "b2in" THEN "start"
                               ELSE IF p[2] = 0 THEN "mpi" ELSE "b2"]
    /\ UNCHANGED <<D, pos, halo, sent, posted, inbox, memory, entered, mpi>>

MpiBarrierEnter(p) ==
    /\ at[p] = "mpi"
    /\ mpi' = [mpi EXCEPT ![p[1]] = @ + 1]
    /\ at' = [at EXCEPT ![p] = "mpiin"]
    /\ UNCHANGED <<D, pos, halo, sent, posted, inbox, memory, entered>>

MpiBarrierLeave(p) ==
    /\ at[p] = "mpiin"
    /\ \A r \in Rank(D) : mpi[r] >= mpi[p[1]]
    /\ at' = [at EXCEPT ![p] = "b2"]
    /\ UNCHANGED <<D, pos, halo, sent, posted, inbox, memory, entered, mpi>>

-----------------------------------------------------------------------------
Step(p) == \/ Start(p) \/ Finish(p)
           \/ BarrierEnter(p) \/ BarrierLeave(p)
           \/ MpiBarrierEnter(p) \/ MpiBarrierLeave(p)

AllDone == \A p \in Proc : at[p] = "done"

Done == AllDone /\ UNCHANGED vars

Next == \/ \E p \in Proc : Step(p)
        \/ \E p, q \in Proc : Match(p, q)
        \/ Done

Spec == Init /\ [][Next]_vars

\* What goes on even if MPI buffers nothing: MPI_Waitall returns when the
\* messages of the thread are taken.
Progress == \/ \E p, q \in Proc : Match(p, q)
            \/ \E p \in Proc : \/ Start(p)
                              \/ (SendsDone(p) /\ Finish(p))
                              \/ BarrierEnter(p)
                              \/ BarrierLeave(p)
                              \/ MpiBarrierEnter(p)
                              \/ MpiBarrierLeave(p)

-----------------------------------------------------------------------------
\* Threads stay within their steps and fields, messages and receives name
\* existing ranks, and all barriers are entered as often as there are steps.
TypeOK ==
    /\ \A p \in Proc :
         /\ pos[p] \in [step : 1..(LastStep + 1), field : Field, dim : Dim]
         /\ at[p] \in {"start", "wait", "b1", "b1in", "mpi", "mpiin",
                       "b2", "b2in", "done"}
         /\ \A i \in DOMAIN sent[p] : sent[p][i].to \in Rank(D)
         /\ \A r \in posted[p] : r.from \in Rank(D)
    /\ entered \in [Proc -> 0..(2 * MainSteps)]
    /\ mpi \in [Rank(D) -> 0..MainSteps]

(***************************************************************************)
(* A tag tells what it is said to encode (mpi_comm/runtime.cpp:181-185): the  *)
(* message a receive is given is that of the sending thread, field, dimension, *)
(* and direction it is for, and of the same step.                            *)
(***************************************************************************)
TagsTell ==
    \A p, q \in Proc : \A r \in posted[q] :
      Fits(p, q, r) # {} =>
        LET m == sent[p][First(Fits(p, q, r))]
            n == Source(m_neighbors(q), pos[q].dim, r.left)
        IN  /\ p = <<n.rank, n.thread>>
            /\ m.left = r.left
            /\ m.at = pos[q]

(***************************************************************************)
(* After a step every halo region, edges and corners too, holds what the      *)
(* block on that side has in its interior in that step (runtime::check,       *)
(* runtime.cpp:207-271, looks once at what every step must achieve).          *)
(***************************************************************************)
HalosComplete ==
    \A p \in Proc :
      LET x == pos[p]
          c == m_neighbors(p).d.coord
          side(o) == <<Wrap(D, 1, c[1] + o[1]), Wrap(D, 2, c[2] + o[2]),
                       Wrap(D, 3, c[3] + o[3])>>
      IN  (x.step > 1 /\ x.field = 0 /\ x.dim = 1 /\ at[p] # "wait") =>
            \A f \in Field : \A o \in Offset \ {Here} :
              halo[p][f][o] = <<side(o), f, x.step - 1>>

(***************************************************************************)
(* What MPI has yet to read is what was sent: although the two buffers of a    *)
(* dimension are packed again for the next field and the next step, and z is   *)
(* sent out of the field itself, whose halos the next step unpacks             *)
(* (mpi_comm/runtime.cpp:411-465), no thread gets there while a receiver is    *)
(* late and MPI has not copied the message.                                  *)
(***************************************************************************)
Memory(p, x, left) == IF x.dim = 3 THEN [o \in Slab(3) |-> Region(p, x.field, o)]
                      ELSE send_buffers[p][x.dim][left]

SendsIntact ==
    \A p \in Proc : \A i \in DOMAIN sent[p] :
      LET m == sent[p][i]
      IN  Send(m.at, m.left) \in lent[p] => Memory(p, m.at, m.left) = m.cells

(***************************************************************************)
(* In a measured step no rank works on another step (main_step,               *)
(* runtime.cpp:78-83): from the moment a thread starts it, all threads of all  *)
(* ranks have ended the step before.                                        *)
(***************************************************************************)
MeasuredTogether ==
    \A p, q \in Proc :
      (pos[p].step > FreeSteps /\ at[p] \in {"start", "wait"})
         => pos[q].step >= pos[p].step

(***************************************************************************)
(* No message is left over when everybody is done.                          *)
(***************************************************************************)
NothingLeftOver == AllDone => \A p \in Proc : sent[p] = <<>>

(***************************************************************************)
(* Nobody waits for a message that does not come: until all threads are done   *)
(* something can go on, even if MPI buffers nothing.  As no behaviour is       *)
(* endless (every step advances a thread, or a message), all steps end.       *)
(***************************************************************************)
NeverStuck == AllDone \/ ENABLED Progress
=============================================================================
