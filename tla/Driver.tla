------------------------------- MODULE Driver -------------------------------
(***************************************************************************)
(* The cartex benchmark from main to the halo steps                          *)
(* (cartex/src/bin/benchmark.cpp, cartex/src/runtime/runtime.cpp): on every    *)
(* rank a main thread that initialises MPI, makes the decomposition and its    *)
(* communicators, and has a pool of workers initialise, exchange and exit.    *)
(*                                                                         *)
(* What a thread has to do is the sequence of its operations; those of main    *)
(* follow from the options, those of a worker are the jobs scheduled for it.   *)
(* The parts are here by what they promise: the pool by WorkPool, the barrier  *)
(* b and the hand-over of sync_loop by Rendezvous, a halo step by HaloExchange  *)
(* (it ends when the neighbours have begun theirs), the decomposition by its   *)
(* neighbours.  MPI is external: a collective call that need not wait for       *)
(* others may end early or late.                                            *)
(***************************************************************************)
EXTENDS Decomposition, Sequences, SequencesExt

CONSTANTS Ranks,    \* the size of MPI_COMM_WORLD
          Setups,   \* the options to try
          WarmUps   \* warm-up steps of a thread

ASSUME RanksAssumption == Ranks \in Nat \ {0} /\ WarmUps \in Nat
ASSUME SetupsAssumption ==
    \A s \in Setups : /\ s.mode \in {"config", "refused", "print", "run"}
                     /\ {s.cart, s.check, s.timed} \subseteq BOOLEAN
                     /\ s.threads \in Nat \ {0} /\ s.reps \in Nat

VARIABLES setup,   \* the options the program was started with
          todo,    \* the operations a thread has before it
          busy,    \* whether it is in the first of them
          mpi,     \* whether a rank is between MPI_Init and MPI_Finalize
          comms,   \* the communicators it holds
          calls,   \* the collective calls it has made on each communicator
          met,     \* how often a worker has come to a meeting of its rank
          steps,   \* how many halo steps a worker has begun
          fields   \* whether the fields and buffers of a worker are there

vars == <<setup, todo, busy, mpi, comms, calls, met, steps, fields>>

Comm == {"world", "hw", "cart"}
Meeting == {"b", "loop"}   \* thread_pool::barrier b and sync_loop::bcast
Place == 0..(Ranks - 1)
Main == -1
Worker == 0..(setup.threads - 1)
WorkerProc == Place \X Worker
Proc == Place \X ({Main} \union Worker)

\* The decomposition, as a row of all the workers of all ranks.
Row(s) == [grid |-> <<Ranks, 1, 1>>, threads |-> <<s.threads, 1, 1>>,
           cells |-> <<1, 1, 1>>, local |-> TRUE]

NearIn(s, r, j) == LET nb(way) == Neighbor(Row(s), <<r, 0, 0>>, j, 1, way)
                   IN  {<<nb(way).rank[1], nb(way).thread>> : way \in {-1, 1}}

Nears == [s \in Setups |-> [p \in Place \X (0..s.threads - 1) |-> NearIn(s, p[1], p[2])]]
Near(p) == Nears[setup][p]

-----------------------------------------------------------------------------
(***************************************************************************)
(* Operations, and what consists of them                                    *)
(***************************************************************************)
Op(o) == [op |-> o]
Call(c, comm) == [op |-> "call", call |-> c, comm |-> comm]
Create(parent, comm) == [op |-> "call", call |-> "create", comm |-> parent, new |-> comm]
Meet(m) == [op |-> "meet", at |-> m]
Schedule(j, job) == [op |-> "schedule", worker |-> j, job |-> job]

Times(n, ops) == FlattenSeq([k \in 1..n |-> ops])
When(b, ops) == IF b THEN ops ELSE <<>>

\* decomposition::mpi_comm
MpiComm(s) == IF s.cart THEN "cart" ELSE "hw"

\* The constructors of decomposition and hw_topo.
Build(s) == IF s.cart THEN <<Create("world", "cart")>>
            ELSE <<Create("world", "hw"), Create("hw", "cart")>>

\* Members are destroyed in reverse: m_cart_comm, and m_comm of m_hw_topo.
TearDown(s) == <<Call("free", "cart")>> \o When(~s.cart, <<Call("free", "hw")>>)

\* A mutation: the threads do not wait for the ranks.
MainStepOneMeeting(s, j) ==
    <<Meet("b")>> \o When(j = 0, <<Call("barrier", MpiComm(s))>>)
                  \o When(j # 0, <<Meet("b")>>) \o <<Op("step")>>

MainStep(s, j) ==
    <<Meet("b")>> \o When(j = 0, <<Call("barrier", MpiComm(s))>>)
                  \o <<Meet("b"), Op("step")>>

\* sync_loop::elapsed
Elapsed(s, j) == When(j = 0, <<Call("bcast", MpiComm(s))>>) \o <<Meet("loop")>>

\* runtime::exchange.  With --time each loop asks once whether the time is up
\* (module SyncLoop has them ask again, or not at all).
Exchange(s, j) ==
    When(s.check, <<Op("step")>>)
      \o Times(WarmUps, <<Op("step")>>) \o When(s.timed, Elapsed(s, j))
      \o Times(s.reps, MainStep(s, j)) \o When(s.timed, Elapsed(s, j))
      \o When(j = 0, <<Call("reduce", MpiComm(s))>>)

\* The jobs that main schedules.
Job(s, j, name) == CASE name = "init"     -> <<Op("ready")>>
                     [] name = "exchange" -> Exchange(s, j)
                     [] name = "exit"     -> <<Op("exit")>>

\* One job or more for every worker, in turn.
ForAll(s, Jobs(_)) == FlattenSeq([k \in 1..s.threads |-> Jobs(k - 1)])

\* Mutations: main does not wait for init, or for the exchange.
BenchmarkNoSync(s) ==
    <<Call("barrier", MpiComm(s)), Call("barrier", MpiComm(s))>>
      \o ForAll(s, LAMBDA j : <<Schedule(j, "init")>>)
      \o <<Call("barrier", MpiComm(s))>>
      \o ForAll(s, LAMBDA j : <<Schedule(j, "exchange"), Schedule(j, "exit")>>)
      \o <<Op("join"), Call("barrier", MpiComm(s)), Op("destroy")>>

BenchmarkNoJoin(s) ==
    <<Call("barrier", MpiComm(s)), Call("barrier", MpiComm(s))>>
      \o ForAll(s, LAMBDA j : <<Schedule(j, "init")>>)
      \o <<Op("sync"), Call("barrier", MpiComm(s))>>
      \o ForAll(s, LAMBDA j : <<Schedule(j, "exchange"), Schedule(j, "exit")>>)
      \o <<Call("barrier", MpiComm(s)), Op("destroy")>>

\* The second barrier is that of runtime::impl.
Benchmark(s) ==
    <<Call("barrier", MpiComm(s)), Call("barrier", MpiComm(s))>>
      \o ForAll(s, LAMBDA j : <<Schedule(j, "init")>>)
      \o <<Op("sync"), Call("barrier", MpiComm(s))>>
      \o ForAll(s, LAMBDA j : <<Schedule(j, "exchange"), Schedule(j, "exit")>>)
      \o <<Op("join"), Call("barrier", MpiComm(s)), Op("destroy")>>

\* decomposition::print is collective for a topology.
PrintOut(s) ==
    <<Call("barrier", MpiComm(s))>> \o When(~s.cart, <<Call("print", "hw")>>)
      \o <<Call("barrier", MpiComm(s)), Call("barrier", "world")>>

\* main, after MPI_Init_thread.  --config returns at once.  A cart size that
\* is not the number of ranks (refused) is found by every rank.
Program(s) ==
    CASE s.mode = "config"  -> <<>>
      [] s.mode = "refused" -> <<Op("finalize")>>
      [] s.mode = "print"   -> Build(s) \o PrintOut(s) \o <<Op("finalize")>>
      [] s.mode = "run"     -> Build(s) \o Benchmark(s) \o TearDown(s) \o <<Op("finalize")>>

\* A mutation: one level for all.
RequiredSingle(s) == "single"

\* The thread level main asks MPI for; if it is not provided main terminates.
Required(s) == IF s.threads > 1 THEN "multiple" ELSE "single"

Init == /\ setup \in Setups
        /\ todo = [p \in Proc |-> IF p[2] = Main THEN <<Op("init")>> \o Program(setup)
                                  ELSE <<>>]
        /\ busy = [p \in Proc |-> FALSE]
        /\ mpi = [r \in Place |-> "off"]
        /\ comms = [r \in Place |-> {}]
        /\ calls = [r \in Place |-> [c \in Comm |-> <<>>]]
        /\ met = [p \in WorkerProc |-> [m \in Meeting |-> 0]]
        /\ steps = [p \in WorkerProc |-> 0]
        /\ fields = [p \in WorkerProc |-> "none"]

-----------------------------------------------------------------------------
\* o is the next of the operations of p.
IsNext(p, o) == todo[p] # <<>> /\ Head(todo[p]).op = o
Now(p) == Head(todo[p])

Begin(p, o) == /\ IsNext(p, o) /\ ~busy[p]
               /\ busy' = [busy EXCEPT ![p] = TRUE]
               /\ UNCHANGED <<setup, todo>>

End(p, o) == /\ IsNext(p, o) /\ busy[p]
             /\ busy' = [busy EXCEPT ![p] = FALSE]
             /\ todo' = [todo EXCEPT ![p] = Tail(@)]
             /\ UNCHANGED setup

\* An operation of one action.
Do(p, o) == /\ IsNext(p, o) /\ todo' = [todo EXCEPT ![p] = Tail(@)]
            /\ UNCHANGED <<setup, busy>>

-----------------------------------------------------------------------------
(***************************************************************************)
(* MPI: external                                                            *)
(***************************************************************************)
InitMpi(p) == /\ Do(p, "init")
              /\ mpi' = [mpi EXCEPT ![p[1]] = Required(setup)]
              /\ comms' = [comms EXCEPT ![p[1]] = {"world"}]
              /\ UNCHANGED <<calls, met, steps, fields>>

Finalize(p) == /\ Do(p, "finalize")
               /\ mpi' = [mpi EXCEPT ![p[1]] = "off"]
               /\ UNCHANGED <<comms, calls, met, steps, fields>>

BeginCall(p) == /\ Begin(p, "call")
                /\ calls' = [calls EXCEPT ![p[1]][Now(p).comm] = Append(@, Now(p).call)]
                /\ UNCHANGED <<mpi, comms, met, steps, fields>>

\* The call of p is the last of its rank on this communicator.
Arrived(p, r) == Len(calls[r][Now(p).comm]) >= Len(calls[p[1]][Now(p).comm])
AllArrived(p) == \A r \in Place : Arrived(p, r)

MayEnd(p) == CASE Now(p).call \in {"barrier", "create"} -> AllArrived(p)
               [] Now(p).call = "reduce" -> p[1] = 0 => AllArrived(p)
               [] Now(p).call = "bcast"  -> Arrived(p, 0)
               [] OTHER                  -> TRUE

EndCall(p) ==
    /\ End(p, "call") /\ MayEnd(p)
    /\ comms' = [comms EXCEPT ![p[1]] =
                   CASE Now(p).call = "create" -> @ \union {Now(p).new}
                     [] Now(p).call = "free"   -> @ \ {Now(p).comm}
                     [] OTHER                  -> @]
    /\ UNCHANGED <<mpi, calls, met, steps, fields>>

-----------------------------------------------------------------------------
(***************************************************************************)
(* The pool, as main sees it                                                *)
(***************************************************************************)
ScheduleJob(p) ==
    /\ IsNext(p, "schedule")
    /\ LET j == Now(p).worker
       IN  todo' = [todo EXCEPT ![p] = Tail(@),
                                ![<<p[1], j>>] = @ \o Job(setup, j, Now(p).job)]
    /\ UNCHANGED <<setup, busy, mpi, comms, calls, met, steps, fields>>

\* sync and join: main schedules nothing meanwhile, so all jobs are done.
Wait(p) == /\ Do(p, "sync") \/ Do(p, "join")
           /\ \A j \in Worker : todo[<<p[1], j>>] = <<>>
           /\ UNCHANGED <<mpi, comms, calls, met, steps, fields>>

\* ~runtime
Destroy(p) == /\ Do(p, "destroy")
              /\ fields' = [q \in WorkerProc |-> IF q[1] = p[1] THEN "gone" ELSE fields[q]]
              /\ UNCHANGED <<mpi, comms, calls, met, steps>>

-----------------------------------------------------------------------------
(***************************************************************************)
(* Workers                                                                  *)
(***************************************************************************)
\* runtime::init: fields, and what the implementation keeps for this thread.
InitRuntime(p) == /\ Do(p, "ready")
                  /\ fields' = [fields EXCEPT ![p] = "ready"]
                  /\ UNCHANGED <<mpi, comms, calls, met, steps>>

\* runtime::exit: nothing, or (oomph) the communicator of this thread, which
\* no other thread uses.
Exit(p) == /\ Do(p, "exit")
           /\ UNCHANGED <<mpi, comms, calls, met, steps, fields>>

BeginMeet(p) == /\ Begin(p, "meet")
                /\ met' = [met EXCEPT ![p][Now(p).at] = @ + 1]
                /\ UNCHANGED <<mpi, comms, calls, steps, fields>>

EndMeet(p) == /\ End(p, "meet")
              /\ \A j \in Worker : met[<<p[1], j>>][Now(p).at] >= met[p][Now(p).at]
              /\ UNCHANGED <<mpi, comms, calls, met, steps, fields>>

BeginStep(p) == /\ Begin(p, "step")
                /\ steps' = [steps EXCEPT ![p] = @ + 1]
                /\ UNCHANGED <<mpi, comms, calls, met, fields>>

\* A mutation: the thread stays in the step, although it has ended.
EndStepStays(p) == /\ Do(p, "step") /\ busy[p]
                   /\ \A q \in Near(p) : steps[q] >= steps[p]
                   /\ UNCHANGED <<mpi, comms, calls, met, steps, fields>>

EndStep(p) == /\ End(p, "step")
              /\ \A q \in Near(p) : steps[q] >= steps[p]
              /\ UNCHANGED <<mpi, comms, calls, met, steps, fields>>

MainNext(p) == InitMpi(p) \/ Finalize(p) \/ ScheduleJob(p) \/ Wait(p) \/ Destroy(p)
WorkerNext(p) == \/ InitRuntime(p) \/ Exit(p)
                 \/ BeginMeet(p) \/ EndMeet(p) \/ BeginStep(p) \/ EndStep(p)

Next == \/ \E p \in Place \X {Main} : MainNext(p)
        \/ \E p \in WorkerProc : WorkerNext(p)
        \/ \E p \in Proc : BeginCall(p) \/ EndCall(p)

Spec == Init /\ [][Next]_vars

(***************************************************************************)
(* The system does not stop while a thread can go on; a collective call is     *)
(* sure to end only when all ranks have made it.  (The program is finite, so    *)
(* no thread can be kept waiting for ever by the others.)                    *)
(***************************************************************************)
GoesOn(p) == \/ p[2] = Main /\ MainNext(p)
             \/ p[2] # Main /\ WorkerNext(p)
             \/ BeginCall(p)
             \/ EndCall(p) /\ AllArrived(p)

Fairness == WF_vars(\E p \in Proc : GoesOn(p))

FairSpec == Spec /\ Fairness

-----------------------------------------------------------------------------
TypeOK ==
    /\ setup \in Setups
    /\ \A p \in Proc : busy[p] => todo[p] # <<>> /\ Now(p).op \in {"call", "meet", "step"}
    /\ mpi \in [Place -> {"off", "single", "multiple"}]
    /\ comms \in [Place -> SUBSET Comm]
    /\ \A r \in Place, c \in Comm : Len(calls[r][c]) \in Nat
    /\ met \in [WorkerProc -> [Meeting -> Nat]]
    /\ steps \in [WorkerProc -> Nat]
    /\ fields \in [WorkerProc -> {"none", "ready", "gone"}]

(***************************************************************************)
(* While any thread of any rank is in a halo step, the fields and buffers of   *)
(* every thread of every rank are there: a neighbour may write to them or       *)
(* read from them.  (benchmark.cpp:228-251, sync, join and the barriers)       *)
(***************************************************************************)
FieldsAliveInSteps ==
    (\E p \in WorkerProc : busy[p] /\ Now(p).op = "step")
      => \A q \in WorkerProc : fields[q] = "ready"

(***************************************************************************)
(* All ranks make the same collective calls on a communicator in the same      *)
(* order, whichever thread makes them, and one at a time.                    *)
(***************************************************************************)
InCall(p) == busy[p] /\ Now(p).op = "call"

CollectivesMatch ==
    /\ \A r, s \in Place, c \in Comm :
         IsPrefix(calls[r][c], calls[s][c]) \/ IsPrefix(calls[s][c], calls[r][c])
    /\ \A p, q \in Proc : p # q /\ p[1] = q[1] /\ InCall(p) /\ InCall(q)
                            => Now(p).comm # Now(q).comm

(***************************************************************************)
(* A thread is in MPI only between init and finalize, on a communicator that   *)
(* its rank holds, and alone unless main has asked for MPI_THREAD_MULTIPLE.    *)
(***************************************************************************)
InMpi(p) == busy[p] /\ Now(p).op \in {"call", "step"}

MpiCallsLegal ==
    \A p \in Proc : InMpi(p) =>
      /\ mpi[p[1]] # "off"
      /\ (IF Now(p).op = "call" THEN Now(p).comm ELSE MpiComm(setup)) \in comms[p[1]]
      /\ mpi[p[1]] = "single" => \A q \in Proc : q # p /\ q[1] = p[1] => ~InMpi(q)

(***************************************************************************)
(* Every rank comes to the end of main, with all jobs done, and has finalized   *)
(* MPI unless it was only asked for its configuration.                       *)
(***************************************************************************)
EveryRankEnds ==
    <>(/\ \A p \in Proc : todo[p] = <<>>
       /\ setup.mode # "config" => \A r \in Place : mpi[r] = "off")
=============================================================================
