# ghexbench in TLA+

ghexbench is a pair of MPI benchmarks. `cartex` exchanges the halos of a
Cartesian, periodic, block-decomposed domain with one of several communication
libraries; `p2p` exchanges windows of messages between pairs of ranks. Both run
on a small support library (`src/src`, `src/include/ghexbench`): a thread pool
with a spinning barrier, a timed loop that all threads of all ranks must leave
together, thread pinning, statistics and options.

Paths below are relative to the repository (`src/` in `PROJECT.json`).

## 1. Inventory

| component | state | operations | interacts with |
|---|---|---|---|
| `thread_pool::barrier` (`src/thread_pool.cpp`) | atomics `m_up`, `m_down` | `operator()`, `count_up`, `count_down` | called by every worker, in `runtime::init`, `main_step` and p2p |
| `thread_pool` (`src/thread_pool.cpp`) | per worker: queue, mutex, condition variable, `m_running`; `m_joined` | `schedule`, `sync`, `join`, the worker's loop, destructor | main thread and workers |
| `sync_loop` (`src/sync_loop.cpp`) | `m_dt`, `m_count_up`, `m_count_down` | `repeat_for`, `elapsed`, `bcast` | all threads of a rank, and ranks through `MPI_Bcast` |
| decomposition (`cartex/src/decomposition`) | grids of ranks and threads, block sizes (constant after `init_domain`) | `domain`, `neighbor`, `coord` | read by every runtime |
| MPI halo exchange (`cartex/src/runtime/mpi_comm`) | fields, send and receive buffers, requests | constructor (`neighborhood`), `exchange`, `pack`, `unpack` | threads of other ranks and of its own, by messages |
| oomph and Tausch exchanges (`cartex/src/runtime/{oomph,tausch}_comm`) | fields, buffers or lists of cells, requests | as above | as above, through libraries that are not in the repository |
| GHEX and GCL exchanges | handles of the libraries | as above | libraries that are not in the repository |
| cartex runtime (`cartex/src/runtime/runtime.cpp`) | raw fields, timers | `init`, `exchange`, `check`, `exit` | decomposition, exchange, barrier, `sync_loop` |
| cartex driver (`cartex/src/bin/benchmark.cpp`) | MPI, the decomposition with its communicators, the runtime, the pool: all owned by `main` | `--config`, `--print`, or: `init`, `exchange`, `exit` scheduled for all workers; `sync`, `join` | thread pool, decomposition, runtime, MPI |
| p2p benchmark (`p2p/src/benchmark.cpp`, `callbacks.hpp`) | counters per slot of the window | submit, resubmit from the callback, progress | oomph, thread pool |
| `hw_topo`, `mpi_comm_holder` | communicator, grids by hardware level, ownership flags | builder, `size`, `count`, `coord`, `rank_to_coord`; constructors, moves, destructors | MPI, hwmalloc, hwcart; the decomposition |
| statistics, options, device map, memory | samples, tables, buffers | sequential | runtimes |

What is hard: spinning on counters that are reused without a generation;
compare-exchanges that fail for no reason; plain stores that reset a counter;
condition variables notified outside the mutex; polls of queues without the
mutex; an answer that one thread overwrites while others may still be reading
the last one; threads of different ranks that run ahead of each other and are
told apart by message tags only; a ring in which everybody waits for everybody;
collective calls made by two threads of a rank; buffers that a library still
reads when they are packed again; index arithmetic at the edges of a periodic grid,
three times over: in what is packed, in how long the buffers are, and in `check`. `PROJECT.json` lists these
hazards at their lines, with the property that covers each or why none does.

What makes each component correct:

- barrier: nobody leaves before all have arrived, in every reuse; no count is
  lost; every call returns.
- thread pool: jobs run once, in order; `sync` returns only after all jobs it
  promised; `join` drains the queues; no wakeup is lost; calls return.
- `sync_loop`: all threads leave after the same iteration, each acting on the
  answer to its own query; nobody hangs; the loop runs as long as asked.
- decomposition: neighbours are mutual, blocks tile the domain, both sides of a
  message compute one tag, ids are exact, nested grids lead back to the rank.
- halo exchange: after each step each halo region, edges and corners too, holds
  what its owner had in that step; a receive never gets another message; nothing
  is left behind; nobody is stuck; measured steps do not overlap others. Cell by
  cell: packing, sizes of messages and unpacking agree in every backend, and
  `check` answers true exactly when the field is right.
- driver: fields live as long as any rank is in a step; all ranks make the same
  collective calls in one order; nobody is in MPI who may not be; every rank ends.

## 2. Modules

| module | models | composed with |
|---|---|---|
| `Rendezvous` | what a barrier promises: calls begin freely, the k-th ends when all have begun it | refined by `Barrier` (proved) |
| `Barrier` | the spinning barrier, an action per atomic operation | |
| `WorkPool` | what the pool promises: jobs accepted, run one by one in order, `sync` and `join` that wait for them | refined by `ThreadPool` |
| `ThreadPool` | workers, mutexes, condition variables, `schedule`, `sync`, `join` | |
| `ThreadPoolProofs` | theorems about `Barrier` and `ThreadPool` | extends both |
| `SyncLoop` | two timed loops in a row of all threads of all ranks, with `MPI_Bcast` | |
| `SyncLoopProofs` | theorems about `SyncLoop` | extends `SyncLoop` |
| `LevelGrid` | arithmetic of grids nested by hardware level (`hw_topo`) | |
| `Decomposition` | pure index arithmetic of `decomposition.cpp` | |
| `Neighborhood` | `neighborhood`, `sendtag`, `recvtag` | extends `Decomposition` |
| `DecompositionWalk` | walks from block to block; what must hold at each | extends `Neighborhood`, `LevelGrid` |
| `GridProofs`, `DecompositionProofs` | theorems about blocks, tags and ids | extend `Neighborhood`, `DecompositionWalk` |
| `HaloExchange` | `runtime::exchange` with `--nrep` over MPI, by region | extends `Neighborhood`; its barrier is the one `Rendezvous` promises |
| `HaloExchangeProofs` | theorems about the steps, messages and halos of `HaloExchange` | extends `HaloExchange`, `GridProofs` |
| `HaloBoxes` | which cells every backend packs, sends, receives and unpacks, and its buffer sizes | extends `Neighborhood` |
| `HaloCells` | one exchange cell by cell in every backend, `make_fields` and `check` | extends `HaloBoxes` |
| `HaloCellsProofs` | theorems about `HaloCells` | extends `HaloCells`, `GridProofs` |
| `Driver` | `main` of cartex and its workers, on all ranks | the pool of `WorkPool`, meetings of `Rendezvous`, halo steps of `HaloExchange`, blocks of `Decomposition` |
| `DriverProofs` | theorems about `Driver` | extends `Driver`, `GridProofs` |
| `PeerToPeer` | the p2p benchmark: workers and main of all ranks, slots and callbacks | its barrier is the one of `Rendezvous`, its `sync` the one of `WorkPool` |
| `PeerToPeerProofs` | theorems about `PeerToPeer` | extends `PeerToPeer` |

An `MC*` module and its `.cfg` files give each a small instance. Definitions
called "a mutation" are plausible bugs; `PROJECT.json` says which definition each
would replace and which property notices. `map` gives the lines of every
definition.

### How state and actions correspond to the code

**Barrier.** `m_up` and `m_down` are the atomics; `pc[t]` is the next atomic
operation of thread t, `expected[t]` the local `expected` / `ex`. `UpLoad`,
`UpCas`, `UpCasFail`, `UpReset`, `UpSpin` are `count_up`, `Turn` the spin in
`operator()` on the first decrement, `Down*` are `count_down`. `compare_exchange_weak`
may fail spuriously (`*Fail`). Atomics interleave: orderings weaker than
sequential consistency are not modelled.

**ThreadPool.** `m_queue`, `m_running`, `m_joined` are the members; `owner` is the
holder of a worker's mutex, `wpc` and `mpc` the places of the workers and of main. A
critical section is split where another thread can notice: main polls without
the mutex, a worker between predicate and wait holds it, `notify_one` comes after
the unlock. A job is its number; `promised` records what `sync` has to wait for.
**WorkPool** has none of that: `accepted` jobs of each worker, the one it is
`running`, the last it has `finished`, and the `call` that goes on. In
`ThreadPool!ImplementsPool` a job is accepted when it is pushed, and the jobs that `sync`
gives the workers for itself are jobs like others.

**SyncLoop.** `m_dt` carries only whether the time is up. Query after query,
thread 0 calls `MPI_Bcast` (rank 0 enters and goes on; the others need rank 0 to
have entered), stores `m_dt`, counts up, and all count down. The clock is any
clock. Two loops run in a row with no barrier between, as `runtime::exchange` does.

**Decomposition.** A decomposition is a record; a rank is named by its place in
the grid because the numbering (`MPI_Cart_create`, hwcart) can be any bijection.
`Neighbor` is `neighbor` with one step in one dimension, as the exchanges call it;
`NeighborAt` takes any offset, as `check` does. **LevelGrid** is `hw_topo`: a
rank is a place in the whole grid, `m_level_grid` a sequence of grids from the
innermost level out, made of what the options gave; `coord` takes a rank apart level by
level and `rank_to_coord` puts it together.

**HaloExchange.** Every (rank, thread) goes through steps, fields and dimensions (`pos`). `Start` is
pack, two `MPI_Irecv` and two `MPI_Isend`; `Match` is MPI, which gives a receive
the first message of that rank and tag; `Finish` is `MPI_Waitall` and unpack.
The four calls are one action because `Match` may come arbitrarily late, so a
call made early and one with a late effect are the same. A message is matched by
*rank* and tag, whatever thread sent it: the hazard of threads that share a rank.
Order among the messages of one thread is kept; between threads of a rank it
is free (`MPI_THREAD_MULTIPLE`). Data is followed by region: each of the 26 halo
regions holds the name ⟨block, field, step⟩ of an interior, so a halo that is stale,
of another field or of another block is seen. Halos are at most as
wide as blocks. `send_buffers` are those of x and y, packed again in every field and step; z is sent out of
the field. `lent` are the sends MPI may still read: a send is lent by `Start` and no more when it is matched
or `MPI_Waitall` returns, which for one that is not matched means that MPI has a copy. A message records
what was sent, so memory that changes while it is lent is seen (`SendsIntact`). `main_step`'s `b(); MPI_Barrier; b()` are the `Barrier*` and
`MpiBarrier*` actions.

**HaloBoxes, HaloCells.** The same exchange seen from below: one step, one field,
every cell (that buffers are packed again for the next is in `HaloExchange`). A field is the array of `memory_view`, a cell its index in it; every cell
of the global domain has a value of its own (`make_fields`). A box is a first cell
and a size; `Cells` lists its indices in the order of the loops. A setup names a
backend, which decides the boxes, the lengths of buffers, what is packed and what
goes straight out of the field, and the order of the calls:

| backend | code | x, y, z |
|---|---|---|
| `datatypes` | MPI with subarray types | out of the field |
| `packed`, `packed_z` | MPI with `pack` and `unpack` | buffers; z out of the field, or packed too (`CARTEX_MPI_PACK_Z`) |
| `kernels`, `kernels_loop`, `kernels_z` | the CUDA kernels of `kernels.hpp` | threads of a launch by block and warp; the loop kernels; with `PACK_Z` |
| `oomph`, `oomph_z` | oomph | receives first, packed x and y with the halos made so far; z direct or packed |
| `tausch` | Tausch's lists of cells, made by the constructor | packed |

`Pack`, `Receive`, `Send` and `Finish` are the calls of a dimension. The library
is `Read` and `Write`: a message may be read from its buffer or field at any time
between the call of send and the return of the sender's wait, and written at any
time while the receiver waits. In CUDA builds a cell is packed if some thread of the
launch covers it; the two halves of `pack_z_kernel` that write one buffer race, and the
result is any mixture. Two assumptions the code does not ask for, and its runs rely on, are
named: a halo is no wider than a block (`HaloAssumption`) and the launch has a thread
in y (`KernelsAssumption`). `SetupsAssumption` and `LaunchAssumption` only say what options and
constants are: positive grids, threads and fields, natural numbers of cells, one of the nine
backends, positive launch sizes.

**Driver.** What a thread has to do is the sequence of its operations, `todo`:
those of main follow from the options (`Program`), those of a worker are the jobs
that main has scheduled (`Job`). Operations are collective calls of MPI on a communicator, meetings
of the workers of a rank (`b` and the hand-over of `sync_loop`), halo steps, and
what makes and destroys runtime and fields. A call or a step has a begin and an
end: `busy`. A barrier, the creation of a communicator and the root's part of a
reduction end when all ranks have come; a broadcast when the root has; others at any time after they
began. A halo step ends when the neighbours have begun theirs. The modes are the
four ways through `main`: `--config` (which returns without `MPI_Finalize`), a
refused grid, `--print`, and a run. The moves of `hw_topo` and of the communicator
holders into their places are not there: one owner holds each throughout.

**PeerToPeer.** What a thread does is a script, a sequence of operations
(`todo`): the locality table, the three phases, the jobs of each batch; main's
script is `run()`. A slot counts the send and the receive it has outstanding
(`sending`, `waiting`), which is `i + 1` of the callback's `i`. `send_callback`
and `recv_callback` resubmit while `++i < nrep`; they run when the thread makes
progress. A send may complete before its message is received. A worker is idle
between batches until main `Schedule`s the next: `main_loop` after the first `sync`, `clear` only after
the second, `MPI_Barrier`, `MPI_Gather` (`GatherGive`, `GatherEnd`: only rank 0 waits for the others)
and the report. Messages carry
their phase and number, so that one received in the wrong phase is seen.

## 3. Runs

| run | instance | what it shows |
|---|---|---|
| `barrier` | 3 threads, 3 calls each | no early return, no count lost, every call returns |
| `thread_pool` | 2 workers, any 4 calls of main | no lost wakeup, refinement of `WorkPool` (order of jobs, `sync` and `join` only when they may), calls return and accepted jobs finish |
| `sync_loop` | 2 ranks × 2 threads, time up at the third answer at the latest | agreement and own answers across queries and loops, all finish |
| `sync_loop_time` | the same, time up at the second (expected violation) | with `--time` alone the measured loop ignores the time |
| `decomposition` | 51 decompositions, 3 of them nested | neighbours, tags, ids and tiling, nested coordinates |
| `halo_exchange` | 4 setups of 2–4 threads, 2 free steps and a measured one | halos complete, tags tell, sends read what was packed, no one stuck, nothing left over |
| `halo_exchange_fields` | 2 threads, 3 fields (expected violation) | tags collide when there are more fields than threads |
| `halo_cells` | 14 setups of 1–4 blocks, all backends but `kernels_z` | all cells right, messages fit, `check` tells the truth |
| `halo_cells_pack_z` | one block, `kernels_z` (expected violation) | the CUDA kernel that packs z fills one buffer twice |
| `driver` | 2 ranks with 1 or 2 workers, all modes, both kinds of topology | fields outlive steps, collective calls match, MPI used legally, every rank ends |
| `p2p` | 2 ranks with 2 threads or 2 slots, 4 ranks | phases apart, receives matched, report right, no one stuck |
| `p2p_window` | 2 slots; no repetition (expected violation) | a thread does not send `nrep` messages |

Why the bounds are enough.

- `barrier`: three threads have a first, a middle and a last; a straggler can be
  at most one call behind, so three calls contain every overlap of two calls
  and a return to the initial state. The theorems remove the bound.
- `thread_pool`: two workers are the fewest for which the polls of `sync` are not
  simultaneous; workers share nothing but main. Four calls
  fit two jobs for one worker, a `sync` and a `join`, or a `schedule` after a `join`.
- `sync_loop`: a non-root rank and a second thread in each; `MaxQueries` (3)
  is shared by the two timed loops, so that either can ask again, and the last query of the
  first overlaps the first of the second. The theorems cover any number of queries in each.
- `decomposition`: one, two and three blocks in a dimension (its own neighbour,
  both neighbours the same, all distinct), from ranks, threads and both; sizes with and
  without remainder.
- `halo_exchange`: both neighbours the same block, a ring of three, two threads
  in a rank with as many fields, two ranks of two threads. A thread can
  be one step ahead of its neighbour and two steps show it; the third
  step is the barrier's.
- `halo_cells`: one block in a dimension (its own neighbour), two (both the same) and three;
  blocks of one cell, of different size, of two cells with halos of two; launches of several
  blocks of threads, rounded up, and with fewer threads than cells in a warp
  (`MaxThreads` 8, `MaxThreadsZ` 2, `WarpSize` 2 stand for 512, 64 and 32). Two
  fields, of which one is followed, so that 0 is nobody's value.
- `driver`: two ranks are enough to call out of order; one worker is the case
  `MPI_THREAD_SINGLE` is asked for, two have a worker that makes no collective
  calls. One warm-up step stands for `WarmUps` of them, each of the loops with `--time` asks
  once (`SyncLoop` has them ask again). Deadlock is not checked there because the program ends;
  `EveryRankEnds` says that it does not end too early.
- `p2p`: two threads and two slots are what tags must tell apart; four ranks have
  bystanders at the barriers; two repetitions have a first and a last callback
  (`WarmReps` is 100 in the code). TLC's deadlock check is on in every other run: a finished
  program stutters through `Done` or `Terminated`.

### Fairness

- `Barrier`: weak fairness of every thread's steps (workers are pinned to a core of
  their own), strong fairness of a compare-exchange that can succeed again and
  again: counters change at most N times a phase.
- `ThreadPool`: weak fairness of workers' steps, jobs included, and of main within a
  call; strong fairness of lock acquisition. None for main's choice of another
  call, none for spurious wakeups.
- `SyncLoop`: as for the barrier. `MaxQueries` bounds how long the clock says there is time left.
- `Driver`: one weak fairness for the whole system: it does not stop while any thread can
  take a step that is sure to be possible (a collective call is sure to end only when all ranks have made
  it). As the program is finite no thread can be kept waiting by the others, so
  nothing stronger is needed.
- `HaloCells`: none; it is about safety.
- `HaloExchange`, `PeerToPeer`: none. `NeverStuck` is an invariant: until all are done some step
  other than a buffered send's can be taken. Each step takes a thread or a
  message forward and there are finitely many, so all steps end. `Finish` may
  happen before the thread's own messages have been taken (MPI may buffer);
  `NeverStuck` does not count on that.

### Findings

1. `sync_loop_time`: `m_num_reps` is 0 if `--nrep` is absent and is passed as
   `max_iterations` of the measured loop, which stops after its first batch.
2. `halo_exchange_fields`: the `num_fields` that tags are computed with is
   initialised with the number of *threads* (`mpi_comm/runtime.cpp:40`), so with more
   fields than threads per rank two different messages share a tag; a thread a
   step ahead, which nothing forbids during check and warm-up, is then received by the
   wrong receive. With one thread per rank the messages of a neighbour come in
   order and none is mistaken, as `halo_exchange` shows with three fields.
3. `p2p_window`: `--nrep` is described as the number of messages per thread, but every
   slot of the window sends that many, and one when it is 0.
4. `halo_cells_pack_z`: the right half of `pack_z_kernel` writes `buffer_left`
   (`mpi_comm/kernels.hpp:232`), so with CUDA and `CARTEX_MPI_PACK_Z` the right buffer is never
   filled and the left one is a race.

## 4. Proofs

The first half of `ThreadPoolProofs` proves about `Barrier`, for every finite nonempty `Thread` and
every `Rounds` (the named assumptions of `Barrier`, nothing else):

- `BarrierInvariance`: `BarrierSpec => []BarrierInv`, `BarrierInv == BarrierTypeOK /\ PhaseInv`;
- `BarrierTypeCorrect`, `Reusable`, `ResetsAreSafe`: the invariants the run checks, and `Phases`;
- `BarrierRefinement`: `BarrierSpec => R!Spec`, the barrier implements `Rendezvous`. No run checks it:
  given the shape of the actions it asks of a return just what `NoEarlyReturn` does.

`NoEarlyReturn` is not inductive: it says nothing of the counters. `PhaseInv`
is: either the barrier *counts up* (`m_down = N`, `m_up` is
the number of threads that have arrived, at most one at the reset, nobody beyond),
or it *counts down* (`m_up = 0`, `m_down` is N less the departed, nobody before).
Threads of the previous phase that have not noticed its end may be anywhere in
their spin; `Epoch` counts them with the call they have in fact completed, and
all threads have the same epoch. A phase turns only at a reset, when the
cardinality of the arrived (departed) is N, hence the set is all of
`Thread` (`SubsetCount`): this is where finiteness is used.
One lemma per action shows preservation. For the refinement, a call that starts
is `Enter`, a return is `Leave`, and everything else stutters; `Leave`'s guard
is the `Epoch` conjunct.

The second half proves about `ThreadPool`, for every number of workers and every number of calls
main makes, that `IInv` is invariant, and from it `TypeCorrect`, `WakeupsAreKept`,
`JoinIsComplete`, `SyncIsComplete`, `JobsInOrder`, and `Refinement`: the pool
implements `WorkPool`, whose run property `ImplementsPool` says all of the last three at once. The
invariant says who holds each mutex (`LockInv`), when the pool runs (`FlagInv`), that
jobs accepted are paid for by calls (`CountInv`, what keeps numbers within their
types), that a queue is exactly the accepted jobs not yet taken, in order
(`QueueInv`), that whoever is about to sleep, or has left, has an empty queue
(`SleepInv`), that join leaves exited workers behind it (`JoinInv`), and that `sync` has put a
job of its own behind those it promised and saw queues empty that stay
empty because only main fills them (`SyncInv`). `NoLostWakeup` alone
is not inductive: without `LockInv` main could push between a worker's predicate and its wait.

`SyncLoopProofs` proves, for every number of ranks and threads, all iteration
counts and any clock, `TypeCorrect` and `OwnAnswers` (`ActsOnOwnAnswer`). The hand-over of a
rank is in one of two phases: threads count up in the order of their ids and thread 0 has
published the answer before it is counted (`RankUp`), or all have come and they read and
count down (`RankDown`), and all threads of a rank have the same number of queries
that are over (`Over`), whether or not they have noticed. `OwnAnswers` needs all
of it: an answer is the own one because thread 0 cannot write the next before
the last thread has counted down, and because the root has broadcast exactly as often as it has asked
(`RootInv`). The module also proves `Agree` (`Agreement`): where a thread is in its
loops (`LocalOf`) and the answer to its query decide where it goes from there (`Successor`), and there is
one way through the loops, as long as the answers so far lead, on which all
threads of all ranks are (`OneWay`). A thread that moves goes on along
the way or, if it was in front, makes it longer; the results of an earlier place
begin those of a later one. `OneWay` quantifies over ways of any length, so TLC
cannot evaluate it; it checks `Agreement`.

`GridProofs` proves about every grid of ranks and threads (at least one in each
dimension) that the owner of a block is the one who is asked for it and that a
step and a step back lead home; with division and two-digit numbers as lemmas.
`TagsTellApart`: with no more fields than the base of the tags, messages of
different field, dimension, direction or thread have different tags. `IdsDiffer`:
different blocks have different ids. The library's induction theorems take an operator
and cannot be used; `GridProofs` proves induction over a *set* of numbers instead
(`Induction`, `UpTo`), from the least element that is not in it (`LeastElement`). With it the
sums and products of the recursive functions get their closed forms.

`DecompositionProofs` proves about all decompositions (`DecompositionsAssumption`: positive
sizes), with the invariant that the walk knows its block as its owner does:

- `TypeCorrect`, `NeighborsMutual`, `TagsMatch`: the type, `NeighborsKnowEachOther`, `TagsAgree`;
- `TilesExactly` (`BlocksTile`): a block begins where the blocks before it end, which is
  the index times the quotient plus the lesser of index and remainder; the last ends at the domain's end;
- `LevelsComplete` (`LevelsRoundTrip`): coordinates nested by level and flat
  coordinates determine each other, by products and remainders level by level.

`HaloExchangeProofs` proves `StepsTogether` (`MeasuredTogether`) for all setups and
any number of steps. The property is about the steps of threads in different
ranks and says nothing of barriers; the invariant counts, for each place a
thread can be in, how often it has been at the barrier of its rank and its rank at `MPI_Barrier`
(`CountInv`), and says what being past each of the three implies (`SyncInv`): past the first `b()`, all
threads of the rank have come to it; past `MPI_Barrier`, all ranks have; past the second `b()`, all
threads have come to that, thread 0 included, hence past `MPI_Barrier`.

It proves `TypeCorrect` for all setups, and the rest under
`TagsSuffice`: there are no more fields than threads in a rank, or one thread in a
rank. All setups of the run `halo_exchange` are such; those of `halo_exchange_fields` are
not, and there the conclusion fails (finding 2). With one thread per rank tags do not
tell fields apart, but messages of one pair do not overtake. The inductive invariant
`FlowInv` says that each thread's messages are posted in the order of its program (`SentInv`),
that what is under way is what was sent and has not been got, and nobody has got what was
not sent (`FlightInv`), that posted receives are those of the thread's place (`ReceiveInv`), and what
the halos hold so far (`HaloInv`). From it:

- `ReceivesAreTold` (`TagsTell`): a receive matches no message but its own;
- `HalosAlwaysComplete` (`HalosComplete`): after a step all 26 regions have their cells, edges
  and corners included, which come in two or three hops;
- `AllDelivered` (`NothingLeftOver`): at the end nothing is under way;
- `SomeoneGoesOn`: until all are done the guard of some action holds (`CanGoOn`), because
  nobody waits for a thread that is ahead and the hindmost thread waits for no one.

`MemoryIntact` (`SendsIntact`) again needs nothing of the tags. Its invariant `SendsInv` says that a message under
way is of an earlier exchange of its thread, or of the one the thread waits in and then just what it would
send now, and that only sends of the latter are lent: the wait for all four requests keeps the thread, its
buffers of that dimension and its field where they are.

`HaloCellsProofs` proves about the exchange of single cells, for every grid, every halo no wider
than a block and all nine backends:

- `TypeCorrect`, and `AllMessagesFit` (`MessagesFit`): a message has the size of the buffer or
  box it is received into;
- `HalosRight`: with every backend but `pack_z` (finding 4), after the exchange each cell of
  an array holds what the periodic domain has there (`HalosMatchReference`);
- `CheckIsRight` (`CheckTellsTruth`): `check` accepts an array if and only if it is that one.

The nine backends compute boxes in different ways; `CellsAre` shows they are the same
slabs in the same order. A cell's place in the array is a number with three digits
(`IndexOfCell`, `CellOfIndex`); launches of kernels cover every cell of a slab (`AllCovered`);
neighbours adjoin, or meet around the periodic domain (`Neighbours`), so that the cell a message
brings is the one that belongs where it goes (`MessageCell`). The inductive invariant has
two halves. `ShapeInv` is about sizes and places: buffers have the size of their slabs, posted messages
are of the dimension their sender is in. `ValueInv` is about values: before dimension d all cells whose position
in dimensions d and later is inside the block are right (`KnownCells`, `FieldsRight`), and so is what
has been packed, read and received. `HalosMatchReference` speaks of the end only and is not
inductive; `KnownCells` is what makes the order of the dimensions matter. TLC
checked both halves on the setups of the run `halo_cells` (365293 states) before they were proved.
The proof found a flaw of the model: two guards of the `CASE` in `Length` overlapped, and TLA+ does not say
which then applies. They are disjoint now.

`PeerToPeerProofs` proves about the p2p benchmark, for every even number of ranks, every number of
threads and slots and every `nrep`:

- `TypeCorrect`;
- `TableInOrder` (`RowsInOrder`) and `NoPhaseOverlaps` (`PhasesApart`): what the barriers are for;
- `MessagesMatch` (`MatchedAlike`), where tags tell slots apart: `TagsSuffice` says that no more than a
  thousand threads share a rank (the tag is `t + 1000 i`) or each has one slot;
- `ReportTrue` (`ReportIsRight`), under `TagsSuffice` and `SomethingSent`: `nrep` is not 0
  (with 0 one message per slot is sent and the report says none, finding 3).

Scripts are sequences joined from pieces, so the first part says which operation is the n-th of
each (`LocalityIs`, `ClosingIs`, `WorkerScriptIs`), by induction over the pieces (`Flatten`). `place` is then
where a process is, and tells how often it has been at the barrier of its rank, its rank
at `MPI_Barrier`, in how many phases it has sent and waited, which batch it is at (`CountInv`). `SyncInv` says
what a passed barrier means: nobody is past more of them than anyone who meets there has come to,
and main schedules a batch when the one before is done. Who sends in a phase is past an
`MPI_Barrier` that all ranks have come to, so all threads have come to the thread barrier before it, behind the wait of the phase
before (`Apart`). A row is printed between two barriers that order it (`RowsInv`).
`ChannelInv` is about a slot and the slot of its peer: if both are in the same phase, what is
under way are the messages from the receiver's count to the sender's, in order; if the
sender is ahead, all it has sent in its new phase, and the receiver is done with the old one. A callback
moves either count by one. `SubmittedInv` says that `submitted` is the number of pairs of
a slot and a message it has sent; at the report all slots have the same number, and the sum over the threads is a
product (`SumOfEqual`, by induction over the size of subsets).

`DriverProofs` proves about cartex's `main`, for every number of ranks, every way through it,
every number of threads and repetitions, and any warm-up:

- `TypeCorrect`;
- `FieldsAlive` (`FieldsAliveInSteps`): while any thread of any rank is in a halo step, all have their fields;
- `CallsMatch` (`CollectivesMatch`) and `CallsLegal` (`MpiCallsLegal`).

Programs are again sequences joined from pieces, some of them repeated; `MainParts`, `BenchmarkOps`
and `WorkerOp` say what their n-th operation may be. `at` is how far main of a rank is in its
program, `workAt` how far a worker is in its own, and `GivenTo` how much of it main has
scheduled by then. The inductive invariant has three parts:

- `StateInv`: what is left to every thread, the level MPI was started with, the communicators held and the
  fields there are functions of these places, and a worker has done what a passed `sync` or `join` waits for;
- `CallsInv`: the calls a rank has made on a communicator are a prefix of those of its programs in *one*
  order: main up to the barrier behind `sync`, then worker 0, then main from the barrier behind `join`. In
  that order no two are under way at once, since main schedules `exchange` only behind
  the first barrier and makes the second only when the workers have left. All ranks have the same programs,
  hence `CollectivesMatch`;
- `MeetInv`: no rank is beyond one of these two barriers unless every rank has come to it. A barrier
  ends when all ranks have made as many calls on the communicator, and by `CallsInv` the call with
  that number is the same one everywhere.

A thread in a step is in a rank that is between the barriers, so every rank is past `sync` (fields are
there) and not past the second barrier, behind which fields are destroyed. `FieldsAliveInSteps`
alone says nothing of either.

Assumptions of all proofs are the named `ASSUME`s of the modules, which TLC
evaluates in the runs.

Only model-checked:

- liveness (`EveryCallReturns`, `CallsReturn`, `AcceptedJobsFinish`, `AllFinish`,
  `EveryRankEnds`) and `NeverStuck`, as fairness and `ENABLED` are out of the prover's reach.
  Of the halo exchange the same without `ENABLED` is proved (`SomeoneGoesOn`);
- `HalosMatchReference` of `pack_z`, which does not hold.

## 5. Not modelled

- Memory orders weaker than interleaving: the relaxed compare-exchanges of `sync_loop.cpp:41`
  order nothing formally; on the machines the code targets most read-modify-writes are
  fences, and TLA+ interleaving is what the authors reason with.
- A torn `deque::size()` in `sync`: the poll is an atomic read of each queue.
- GHEX and GCL exchanges: thin callers of libraries that are not in the repository.
  MPI, oomph, Tausch, hwmalloc and hwcart are external: modelled by what the code
  relies on where it calls them.
- `CARTEX_OOMPH_SEND_AND_FORGET`; Tausch with several fields; halos of different
  width on different sides (the options give one width); overflow of `int` in cell values.
- Options, the device map, printing, timers, floating-point statistics (accumulator,
  histogram, with percentiles of no samples for `--nrep 0`), thread pinning, the choice of a device.
- The moves of `hw_topo`: whether the move constructor at `hw_topo.cpp:58` runs at all is up to the
  compiler. A failure of hwcart on one rank only; an MPI that does not start or
  does not provide the thread level (the program terminates).
- That with one worker MPI is asked for `MPI_THREAD_SINGLE` although a thread other than
  main calls it: `Driver` checks that calls never overlap, which is what the level is for in practice.
- Ranks with different numbers of threads in p2p: the extra threads would wait for
  peers that do not exist; nothing in the code checks it. Device memory in p2p.

## 6. Plan

The modules were written from the inside out: barrier, pool, timed loop,
decomposition, halo exchange, p2p; then the cells of the exchange in all
backends, nested grids, the abstract pool, and the driver that composes the
parts. All of them are there, and every safety invariant and refinement that the passing runs
check is proved, except `NeverStuck`, which speaks of `ENABLED`. What could be added is
outside of what is modelled (section 5): weaker memory orders in the barriers, and
`NeverStuck` of `PeerToPeer` restated without `ENABLED`, as `SomeoneGoesOn` does
for the halo exchange.
