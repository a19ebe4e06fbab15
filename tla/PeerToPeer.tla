----------------------------- MODULE PeerToPeer -----------------------------
(***************************************************************************)
(* The p2p benchmark (p2p/src/benchmark.cpp, callbacks.hpp): each rank runs  *)
(* the same number of worker threads, and each thread exchanges messages     *)
(* with the thread of its number of the peer rank, in Window slots at once.   *)
(* In each of three phases a slot sends and receives one message after the   *)
(* other, each submitted by the callback of the one before.                  *)
(*                                                                         *)
(* What a process does one thing after the other is its script, a sequence   *)
(* of operations.  The barrier of the threads is the one Rendezvous promises, *)
(* sync returns when the workers have finished their jobs, as ThreadPool      *)
(* shows, and a message is the number of its phase and its place in it.      *)
(***************************************************************************)
EXTENDS Integers, Sequences, FiniteSets, FiniteSetsExt, SequencesExt

CONSTANTS Setups,    \* ranks, threads, window and nrep to try
          WarmReps   \* messages per slot in warm_up: 100

ASSUME SetupsAssumption ==
    \A s \in Setups : /\ s.ranks \in Nat /\ s.ranks % 2 = 0   \* or it aborts
                      /\ {s.threads, s.window} \subseteq Nat \ {0}
                      /\ s.nrep \in Nat
ASSUME WarmRepsAssumption == WarmReps \in Nat \ {0}

VARIABLES S,        \* the setup
          todo,     \* what each process has still to do, first things first
          inside,   \* it has entered a barrier and has not left it
          entered,  \* how often a thread entered m_thread_barrier
          mpi,      \* how often a rank entered MPI_Barrier
          gathered, \* it has given its number of threads to MPI_Gather
          jobs,     \* batches of jobs that the main thread of a rank scheduled
          batch,    \* the batch that a worker is at
          begun,    \* phases in which a thread has begun to send
          ended,    \* phases in which it has waited for all its messages
          sending,  \* the send outstanding in a slot, 0 if none
          waiting,  \* the receive outstanding in a slot, 0 if none
          sent,     \* messages of a slot that no receive has taken
          arrived,  \* the message its receive has taken, if any
          submitted, \* sends of a thread in this phase
          rows      \* lines of the locality table, in the order of printing

barriers == <<inside, entered, mpi, gathered>>
batches == <<jobs, batch>>
phases == <<begun, ended>>
slots == <<sending, waiting, sent, arrived, submitted>>
vars == <<S, todo, barriers, batches, phases, slots, rows>>

Rank == 0..(S.ranks - 1)
Tid == 0..(S.threads - 1)
Slot == 0..(S.window - 1)

\* The worker threads and, with -1 for its number, the main thread of a rank.
MainOf(r) == <<r, -1>>
WorkerOf(s) == (0..(s.ranks - 1)) \X (0..(s.threads - 1))
MainsOf(s) == {MainOf(r) : r \in 0..(s.ranks - 1)}
Worker == WorkerOf(S)
Main == MainsOf(S)

m_peer_rank(r) == (r + (S.ranks \div 2) + S.ranks) % S.ranks
tag(t, i) == t + i * 1000

-----------------------------------------------------------------------------
(***************************************************************************)
(* The scripts.  Thread 0 calls MPI_Barrier for its rank.                    *)
(***************************************************************************)
MpiBarrier(t) == IF t = 0 THEN <<"mpi">> ELSE <<>>

\* A mutation: the rows of a rank are printed without waiting for each other.
RowsUnordered(s, t) == <<"row", "barrier">>

Rows(s, t) == FlattenSeq([k \in 1..s.threads |->
                            (IF t = k - 1 THEN <<"row">> ELSE <<>>) \o <<"barrier">>])

print_locality(s, p) ==
    FlattenSeq([k \in 1..s.ranks |->
                  MpiBarrier(p[2]) \o <<"barrier">>
                  \o (IF p[1] = k - 1 THEN Rows(s, p[2]) ELSE <<>>)
                  \o MpiBarrier(p[2]) \o <<"barrier">>])

\* A mutation: threads but 0 do not wait for the MPI barrier.
PhaseOneBarrier(t, name) == <<"barrier">> \o MpiBarrier(t) \o <<name, "wait">>

\* check, warm_up and main_loop
Phase(t, name) == <<"barrier">> \o MpiBarrier(t) \o <<"barrier", name, "wait">>

\* A mutation: main takes the time as soon as its own rank is done.
MainHurries == <<"sync", "schedule", "sync", "gather", "report", "mpi",
                 "schedule", "sync", "mpi", "end">>

\* run(), from the first sync on: a worker is idle until main has scheduled its
\* next jobs.
MainScript == <<"sync", "schedule", "sync", "mpi", "gather", "report",
                "schedule", "sync", "mpi", "end">>
WorkerScript(s, p) ==
    print_locality(s, p) \o Phase(p[2], "check") \o Phase(p[2], "warm_up")
    \o <<"idle">> \o Phase(p[2], "main_loop") \o <<"idle", "clear", "idle">>

Script(s, p) == IF p \in MainsOf(s) THEN MainScript ELSE WorkerScript(s, p)

At(p) == Head(todo[p])
Proceed(p) == todo' = [todo EXCEPT ![p] = Tail(@)]

-----------------------------------------------------------------------------
PhaseNames == <<"check", "warm_up", "main_loop">>
Reps == [check |-> 1, warm_up |-> WarmReps, main_loop |-> S.nrep]

\* n of the phase a thread is in
Repeat(p) == Reps[PhaseNames[begun[p]]]

Init ==
    /\ S \in Setups
    /\ todo = [p \in Worker \cup Main |-> Script(S, p)]
    /\ inside = [p \in Worker \cup Main |-> FALSE]
    /\ entered = [p \in Worker |-> 0]
    /\ mpi = [r \in Rank |-> 0]
    /\ gathered = [r \in Rank |-> FALSE]
    /\ jobs = [r \in Rank |-> 1]
    /\ batch = [p \in Worker |-> 1]
    /\ begun = [p \in Worker |-> 0]
    /\ ended = [p \in Worker |-> 0]
    /\ sending = [p \in Worker |-> [i \in Slot |-> 0]]
    /\ waiting = [p \in Worker |-> [i \in Slot |-> 0]]
    /\ sent = [p \in Worker |-> [i \in Slot |-> <<>>]]
    /\ arrived = [p \in Worker |-> [i \in Slot |-> <<>>]]
    /\ submitted = [p \in Worker |-> 0]
    /\ rows = <<>>

(***************************************************************************)
(* Waiting for each other                                                   *)
(***************************************************************************)
Enter(p) == /\ At(p) \in {"barrier", "mpi"} /\ ~inside[p]
            /\ inside' = [inside EXCEPT ![p] = TRUE]
            /\ IF At(p) = "barrier"
               THEN entered' = [entered EXCEPT ![p] = @ + 1] /\ UNCHANGED mpi
               ELSE mpi' = [mpi EXCEPT ![p[1]] = @ + 1] /\ UNCHANGED entered
            /\ UNCHANGED <<S, todo, gathered, batches, phases, slots, rows>>

Leave(p) == /\ At(p) \in {"barrier", "mpi"} /\ inside[p]
            /\ IF At(p) = "barrier"
               THEN \A t \in Tid : entered[<<p[1], t>>] >= entered[p]
               ELSE \A r \in Rank : mpi[r] >= mpi[p[1]]
            /\ inside' = [inside EXCEPT ![p] = FALSE]
            /\ Proceed(p)
            /\ UNCHANGED <<S, entered, mpi, gathered, batches, phases, slots, rows>>

\* main's sync is over when the workers have done all they were given.
Sync(r) == /\ At(MainOf(r)) = "sync"
           /\ \A t \in Tid : At(<<r, t>>) = "idle" /\ batch[<<r, t>>] = jobs[r]
           /\ Proceed(MainOf(r))
           /\ UNCHANGED <<S, barriers, batches, phases, slots, rows>>

\* main schedules the next job of each worker: main_loop, then clear.
Schedule(r) == /\ At(MainOf(r)) = "schedule"
               /\ jobs' = [jobs EXCEPT ![r] = @ + 1]
               /\ Proceed(MainOf(r))
               /\ UNCHANGED <<S, barriers, batch, phases, slots, rows>>

\* MPI_Gather of the numbers of threads: rank 0 needs those of all ranks, the
\* others may go on when they have given theirs.
GatherGive(r) == /\ At(MainOf(r)) = "gather" /\ ~gathered[r]
                 /\ gathered' = [gathered EXCEPT ![r] = TRUE]
                 /\ UNCHANGED <<S, todo, inside, entered, mpi, batches, phases, slots, rows>>

GatherEnd(r) == /\ At(MainOf(r)) = "gather" /\ gathered[r]
                /\ r = 0 => \A k \in Rank : gathered[k]
                /\ Proceed(MainOf(r))
                /\ UNCHANGED <<S, barriers, batches, phases, slots, rows>>

\* A worker begins the next job it was given.
NextJob(p) == /\ At(p) = "idle" /\ batch[p] < jobs[p[1]]
              /\ batch' = [batch EXCEPT ![p] = @ + 1]
              /\ Proceed(p)
              /\ UNCHANGED <<S, barriers, jobs, phases, slots, rows>>

PrintRow(p) == /\ At(p) = "row"
               /\ rows' = Append(rows, p)
               /\ Proceed(p)
               /\ UNCHANGED <<S, barriers, batches, phases, slots>>

\* The destruction of the state of a thread, and main's report.
Local(p) == /\ At(p) \in {"clear", "report"}
            /\ Proceed(p)
            /\ UNCHANGED <<S, barriers, batches, phases, slots, rows>>

-----------------------------------------------------------------------------
(***************************************************************************)
(* send_recv: a receive and a send in every slot.  A callback that the        *)
(* transport runs inside a later call of the loop concerns its own slot only,  *)
(* and might as well run after the loop.                                     *)
(***************************************************************************)
send_recv(p) ==
    /\ At(p) \in DOMAIN Reps
    /\ waiting' = [waiting EXCEPT ![p] = [i \in Slot |-> 1]]
    /\ sending' = [sending EXCEPT ![p] = [i \in Slot |-> 1]]
    /\ begun' = [begun EXCEPT ![p] = @ + 1]
    /\ sent' = [sent EXCEPT ![p] = [i \in Slot |-> Append(@[i], <<begun'[p], 1>>)]]
    /\ submitted' = [submitted EXCEPT ![p] = S.window]
    /\ Proceed(p)
    /\ UNCHANGED <<S, barriers, batches, ended, arrived, rows>>

\* The transport gives a receive the first message of its peer with its tag.
Match(p, i) ==
    /\ waiting[p][i] # 0 /\ arrived[p][i] = <<>>
    /\ \E q \in Worker, j \in Slot :
         /\ q[1] = m_peer_rank(p[1]) /\ tag(q[2], j) = tag(p[2], i)
         /\ sent[q][j] # <<>>
         /\ arrived' = [arrived EXCEPT ![p][i] = <<Head(sent[q][j])>>]
         /\ sent' = [sent EXCEPT ![q][j] = Tail(@)]
    /\ UNCHANGED <<S, todo, barriers, batches, phases, sending, waiting, submitted, rows>>

\* send_callback, once the transport has done with the message: it may have
\* kept a copy that no receive has taken yet.
send_callback(p, i) ==
    /\ At(p) = "wait" /\ sending[p][i] # 0
    /\ IF sending[p][i] < Repeat(p)
       THEN /\ sending' = [sending EXCEPT ![p][i] = @ + 1]
            /\ sent' = [sent EXCEPT ![p][i] = Append(@, <<begun[p], sending'[p][i]>>)]
            /\ submitted' = [submitted EXCEPT ![p] = @ + 1]
       ELSE /\ sending' = [sending EXCEPT ![p][i] = 0]
            /\ UNCHANGED <<sent, submitted>>
    /\ UNCHANGED <<S, todo, barriers, batches, phases, waiting, arrived, rows>>

\* Mutations: a message too few, or too many, is received.
RecvCallbackStopsEarly(p, i) ==
    /\ At(p) = "wait" /\ arrived[p][i] # <<>>
    /\ arrived' = [arrived EXCEPT ![p][i] = <<>>]
    /\ waiting' = [waiting EXCEPT ![p][i] = IF @ + 1 < Repeat(p) THEN @ + 1 ELSE 0]
    /\ UNCHANGED <<S, todo, barriers, batches, phases, sending, sent, submitted, rows>>

RecvCallbackGoesOn(p, i) ==
    /\ At(p) = "wait" /\ arrived[p][i] # <<>>
    /\ arrived' = [arrived EXCEPT ![p][i] = <<>>]
    /\ waiting' = [waiting EXCEPT ![p][i] = IF @ <= Repeat(p) THEN @ + 1 ELSE 0]
    /\ UNCHANGED <<S, todo, barriers, batches, phases, sending, sent, submitted, rows>>

recv_callback(p, i) ==
    /\ At(p) = "wait" /\ arrived[p][i] # <<>>
    /\ arrived' = [arrived EXCEPT ![p][i] = <<>>]
    /\ waiting' = [waiting EXCEPT ![p][i] = IF @ < Repeat(p) THEN @ + 1 ELSE 0]
    /\ UNCHANGED <<S, todo, barriers, batches, phases, sending, sent, submitted, rows>>

\* wait_all, and in main_loop progress until is_ready
wait_all(p) == /\ At(p) = "wait"
               /\ \A i \in Slot : sending[p][i] = 0 /\ waiting[p][i] = 0
               /\ ended' = [ended EXCEPT ![p] = @ + 1]
               /\ Proceed(p)
               /\ UNCHANGED <<S, barriers, batches, begun, slots, rows>>

-----------------------------------------------------------------------------
Finished == \A p \in Main : At(p) = "end"

Done == Finished /\ UNCHANGED vars

Next ==
    \/ \E p \in Worker \cup Main : Enter(p) \/ Leave(p) \/ Local(p)
    \/ \E r \in Rank : Sync(r) \/ Schedule(r) \/ GatherGive(r) \/ GatherEnd(r)
    \/ \E p \in Worker : NextJob(p) \/ PrintRow(p) \/ send_recv(p) \/ wait_all(p)
    \/ \E p \in Worker, i \in Slot :
         Match(p, i) \/ send_callback(p, i) \/ recv_callback(p, i)
    \/ Done

Spec == Init /\ [][Next]_vars

\* What goes on even if the transport completes no send whose message has
\* not been taken, and no rank leaves MPI_Gather before all have come.
Taken(p, i) == <<begun[p], sending[p][i]>> \notin ToSet(sent[p][i])

Progress ==
    \/ \E p \in Worker \cup Main : Enter(p) \/ Leave(p) \/ Local(p)
    \/ \E r \in Rank : Sync(r) \/ Schedule(r) \/ GatherGive(r)
    \/ (\A r \in Rank : gathered[r]) /\ \E r \in Rank : GatherEnd(r)
    \/ \E p \in Worker : NextJob(p) \/ PrintRow(p) \/ send_recv(p) \/ wait_all(p)
    \/ \E p \in Worker, i \in Slot :
         \/ Match(p, i)
         \/ Taken(p, i) /\ send_callback(p, i)
         \/ recv_callback(p, i)

-----------------------------------------------------------------------------
\* Scripts are not left, and slots count to the repetitions of the phase.
TypeOK ==
    /\ \A p \in Worker \cup Main : todo[p] # <<>>
    /\ inside \in [Worker \cup Main -> BOOLEAN]
    /\ gathered \in [Rank -> BOOLEAN]
    /\ \A p \in Worker : \A i \in Slot :
         /\ {sending[p][i], waiting[p][i]} \subseteq
              0..(IF begun[p] = 0 THEN 0 ELSE Max({1, Repeat(p)}))
         /\ Len(arrived[p][i]) <= 1
         /\ \A k \in DOMAIN sent[p][i] : sent[p][i][k][1] \in 1..3
    /\ \A k \in DOMAIN rows : rows[k] \in Worker

(***************************************************************************)
(* The table of print_locality is in the order of ranks and threads, although *)
(* every thread of every rank prints its own line (benchmark.cpp:72-94).      *)
(***************************************************************************)
RowsInOrder ==
    \A j, k \in DOMAIN rows :
      j < k => \/ rows[j][1] < rows[k][1]
               \/ rows[j][1] = rows[k][1] /\ rows[j][2] < rows[k][2]

(***************************************************************************)
(* The n-th receive of a phase gets the n-th message of the same phase, though *)
(* every phase uses the same tags and a sender may be whole messages ahead.    *)
(***************************************************************************)
MatchedAlike ==
    \A p \in Worker : \A i \in Slot :
      arrived[p][i] # <<>> => arrived[p][i] = <<<<begun[p], waiting[p][i]>>>>

(***************************************************************************)
(* No thread of any rank sends in a phase before all of them have waited for  *)
(* the end of the phase before (benchmark.cpp:131-133, 164-166, 179-181).      *)
(***************************************************************************)
PhasesApart ==
    \A p, q \in Worker : begun[p] <= ended[q] + 1

(***************************************************************************)
(* When the report is made all messages have been received, by everybody, and *)
(* there were as many as it says (benchmark.cpp:236, 248, 258).              *)
(***************************************************************************)
num_msgs == S.ranks * S.threads * S.window * S.nrep

Reporting == \E p \in Main : At(p) = "report"

ReportIsRight ==
    Reporting =>
      /\ \A p \in Worker, i \in Slot : /\ sent[p][i] = <<>> /\ arrived[p][i] = <<>>
                                       /\ waiting[p][i] = 0
      /\ MapThenSumSet(LAMBDA p : submitted[p], Worker) = num_msgs

(***************************************************************************)
(* nrep is the "number of messages per thread" (p2p/benchmark.hpp:111).       *)
(***************************************************************************)
MessagesPerThread ==
    Reporting => \A p \in Worker : submitted[p] = S.nrep

(***************************************************************************)
(* Nobody waits for ever: until all have finished something can go on, even if *)
(* no send completes before its message is received.                         *)
(***************************************************************************)
NeverStuck == Finished \/ ENABLED Progress
=============================================================================
