# Formal models of Parallel-Programming

TLA+ models of the concurrent and distributed programs of this repository, the
TLC configurations that check them on small instances, and theorems about them
proved with TLAPS. The reference is always the source under `src/`; every module
names the file it translates, and `PROJECT.json` maps every definition to the
lines it stands for.

    tlc -workers 2 -config queue.cfg MCThreadSafeQueue    # a check
    tlapm ThreadSafeQueueProofs.tla                       # a proof

Contents: [inventory](#1-inventory) · [modules](#2-modules-and-their-code) ·
[checks](#3-checks) · [proofs](#4-proofs) · [disagreements](#5-where-code-and-documents-disagree) ·
[not modelled](#6-what-is-not-modelled) · [plan](#7-plan).

## 1. Inventory

The repository is a course's collection of independent programs. They are
grouped here by the state their threads or processes share.

### A framework of queues and the packet-loss simulation
`exercises/pthreads/network_simul_packet_loss`

| Component | State | Operations | Interacts with |
|---|---|---|---|
| `prodcons/Queue.hpp`, `Semaphore.cpp` | a `std::queue`, a mutex, a semaphore of the elements | `enqueue`, `dequeue`, `isEmpty`, `wait`, `signal` | every machine owns a queue; others put into it |
| `prodcons/Producer, Consumer, Dispatcher, Assembler, Thread` | queues they consume and produce, the map from keys to queues | `consumeForever`, `consume`, `produce`, `registerRedirect` | through queues only |
| `simulation/*Test.cpp` | messages sent, received and lost; targets | the `run` of each machine; `start` creates and joins them | producer → dispatcher → consumers and assembler → dispatcher |
| `network/`, `http/`, `webapp/` | listening socket, connections, log | `listenForConnections`, `acceptAllConnections`, `stopListening`, `handleHttpRequest` | `stop()` of another thread is to end the accept loop |

*Hard*: the permit of the semaphore is taken before the mutex; a cycle of two
machines (dispatcher and assembler) with a stop message that goes round it; keys
drawn from half-open ranges and stored in 16 bits; a socket closed by one thread
while another accepts on it.
*Correct means*: no race and no `front()` of an empty queue; each message in one
place, counted once; nothing arrives after a stop; all threads end.

### Producers and consumers
`examples/pthreads/pro_cons_unbound`, `pro_cons_bound`

| Component | State | Operations | Interacts with |
|---|---|---|---|
| `queue.c` | a linked list with head, tail and mutex | `enqueue`, `dequeue`, `is_empty`, `clear` | the simulation's threads |
| `simulation.c`, `producer.c`, `consumer.c` | `next_unit`, `consumed_count`, a semaphore, the queue | `produce`, `consume`, `create_threads`, `join_threads` | main creates, joins, frees |
| `pro_cons_bound.c` | a buffer of fixed size, no synchronisation at all | `produce`, `consume` | the two threads race |

*Hard*: nodes are allocated outside the mutex, results of allocation and dequeue
are ignored, a group of threads may be created in part, memory is freed while
threads may run. *Correct means*: the list stays a list; each unit is consumed
once; nobody waits for a unit that will not come; nobody uses freed memory.

### Dining philosophers (MPI)
`exercises/mpi/dining_philosophers_dist`: a waiter process with the state of the
chopsticks and a queue of requests; philosophers that send REQUEST, wait for
GRANT and send RELEASE. The non-centralized version is an empty file.
*Hard*: sends that return early or late, messages from any source, a ledger that
runs beside the real table. *Correct means*: neighbours never eat together, the
ledger is right, the waiter never waits for a message nobody will send, nobody
starves.

### Heat simulation
`homeworks/heatsim-serial`, `-pthread`, `-omp_mpi/omp`, `-omp_mpi/mpi`: a plate of
temperatures and one simulation loop, serial, with threads that are created anew
for every state, with an OpenMP loop, and with MPI processes that exchange rows.
(`heatsim-optimized` is a report.) Around it each program reads a job, reads plates
and writes plates and a report.
*Hard*: which of two matrices is read, written and returned; private copies that
must be renewed; blocks of rows by integer division; collective operations of
processes that simulate different plates. *Correct means*: every inner cell is
computed once per state from the right neighbours, the border is kept, the state
returned is in balance, and threads change nothing of the result.

### Small programs of threads
`exercises/pthreads`: water molecules (`build_h2o`), `dancing_pairs_6`,
`birthday_pinata`, `building_taks`, `sem_vs_condsafe`, `create_thread_team`,
`recursive_hello`, `grandma_lottery1/2`. `examples/pthreads`: greetings in order by
busy waiting, by one semaphore per thread and by a condition, `position_race`, and
greetings without shared state.
*Hard*: conditions waited for without a predicate, counters whose waiters are
released by others, leftover threads that are joined.

### Small programs of processes and OpenMP
`exercises/mpi`: `ring`, `relay_race_dist`, `ping_pong_perfect/realistic`,
`lucky_number_who`, `hybrid_distr_*`, `hello_task_sep`. `examples/mpi`:
`send_recv_ord_sem`, `lucky_number_reduce`, `hello_world`. `examples/openmp`,
`exercises/openmp`: a merge sort by tasks, loops that print.
*Hard*: everyone sends before receiving, messages from any source in any order,
ranges divided among processes and threads.

## 2. Modules and their code

    FifoQueue <---implements--- ThreadSafeQueue      MCThreadSafeQueue, ThreadSafeQueueProofs
        ^ each queue operation is one step of
    NetworkSimulation                                NetworkSimulationProofs
    LinkedQueue                                      ThreadProgramsProofs (last part)
        ^ each queue operation is one step of
    ProConsUnbound                                   ProConsUnboundProofs
    DiningWaiter                                     MessageProgramsProofs (last part)
    Plate  (EXTENDed by the next three)
    HeatSerial <---implements--- HeatOmp             HeatOmpProofs
    HeatPthread                                      HeatPthreadProofs
    MCHeat   runs HeatOmp, then HeatPthread, on the plates of MCPlate

    PthreadMain   main creates, joins, frees and returns: EXTENDed by
        ThreadTeams, WaterMolecules, DancingPairs, BuildingTasks,
        ProConsBound, HeatJobs, WebServer, MergeSort
    ThreadPrograms  the eight modules above, side by side    ThreadProgramsProofs
    MCThreads       gives it values, and runs LinkedQueue beside it

    MpiProcesses  sends, receives and collective calls: EXTENDed by
        MpiMessages, MpiCollectives, HeatMpi
    ProcessPrograms  the three modules above, side by side   MessageProgramsProofs,
    MCProcesses      gives it values                         ProcessProgramsProofs

`ThreadPrograms` and `ProcessPrograms` run many independent programs in one check: the variable
`program` is chosen in the initial state, says which of them runs, and never changes. What
the programs promise is stated once for all of them, so that one run asks and one theorem
answers it.

In every module that has checks there is a short section of *faulty variants*: operations
with one mistake each, used by no specification, that show that a property notices
such a mistake (`PROJECT.json`, `mutants`).

**ThreadSafeQueue** has one action for each access of `Queue.hpp` to shared state:
`EnqueueLock/Push/Unlock/Signal`, `DequeueWait/Lock/Front/Pop/Unlock`,
`IsEmptyLock/Read/Unlock`. The variables are the `std::queue`, the semaphore's value,
the holder of the mutex, and a program counter and the locals of each thread. A
dequeue takes effect at `front()`. **FifoQueue** is what callers see: enqueue, dequeue
and isEmpty in one step each.

**NetworkSimulation** is the program built with `-DSIMULATION`. Threads are numbered in
the order main starts them: producer −1, dispatcher 0, consumers, assembler. `queue[m]`
is the queue machine `m` consumes, `held[m]` the message in its hands, `state[t]`
where the thread is. The actions are the loops of the four kinds of machine
(`Produce`, `ProduceStop`, `DequeueStop`, `DequeueMessage`, `Redirect`,
`ThrowKeyNotFound`, `PropagateStop`, `PropagateEnd`, `Consume`, `AssembleLose`,
`AssembleForward`) and main's `StartThread` and `JoinThread`. Delays are left out:
every interleaving is allowed. `counted` is a history variable: the numbers of the messages
each machine has counted as received or lost. `Util::random` is a choice in its half-open range; a
target is cut to `TargetSpace` values, 2^16 in the code.

**LinkedQueue** has the heap of nodes (`heap`), `head`, `tail` and the node an enqueuer
has allocated and not yet linked (`newNode`). `Allocate` happens without the mutex; an
allocation that fails changes nothing here and is a stuttering step. What is done between lock
and unlock is one action.

**ProConsUnbound** has main's progress (`mainAt`), the threads that exist, and for each
what it is doing. Main's actions follow `create_consumers_producers`: create one
thread after the other, join what was created when one is refused, go on to the next
group all the same. `refused` is a history variable: the units whose node found no
memory. After `simulation_destroy` threads are not followed any further.

**ProConsBound** has the racing accesses of `produce` and `consume` to the buffer, one
action each: a place is an aligned double, so a read returns the old or the new value.

**PthreadMain** is what the small thread programs share: where main is (`main.at`, the
index and bound of its loop, its error), where each thread is (`at`), what they share
(`shared`, a record with the fields of the program) and what was printed (`output`).
`CreateNext` and `JoinNext` are the two loops of `create_threads`; joining a `pthread_t`
that was never written leads to `"undefined"`, and the program is not followed further.

**ThreadTeams** is ten programs: the greetings in order by busy waiting
(`hello_order_busywait`: the load and the store of `next_thread` are separate), by one
semaphore per thread (`hello_order_semaphor`, `sem_vs_condsafe`) and by separate cells
(`hello_order_cond_safe`); `position_race`, `birthday_pinata`, and the greetings without
an order (`create_thread_team`, `hello_w`, `hello_iw_pri`, `hello_iw_shr`). Every allocation,
initialisation and creation may fail, in the order of the code; `AllocateSemaphores` has the
`sem_init` on an array that was not allocated, which comes before its check for NULL.
**WaterMolecules** has the two counters, the condition (a waiter is woken by a
broadcast or for no reason) and the two semaphores of `build_h2o`; **DancingPairs** the two
counters, the condition and the exit flag of `dancing_pairs_6`, with every sequence of men
and women; **BuildingTasks** the ten tasks of `building_tasks_.c`, the semaphores each waits
for in their order, and the posts of each.

**HeatJobs** is what the serial, pthread and OpenMP simulations do around a plate, each with
its own order of early returns: the job file and its lines, the plate file and its rows, the
array of the numbers of states, the files of results and the report. `shared.held` is the
memory and the files that are open; a plate's result is known by its line. The simulation
of the plate itself is one step here, and HeatSerial, HeatOmp and HeatPthread there.

**WebServer** is `HttpServer::run` from the start of the applications to the destructor,
one client after another. `owner` says whose each descriptor is; the kernel gives the lowest
free number. A request arrives in segments (what one `recv` returns), each a sequence of
lines or parts of lines: `readLine` takes what is left of a segment for a line, and
`parseBody` reads from the connection and not from the stream. A `stop()` of another thread
looks at the number of the listening socket in one step and closes it in another.

**MergeSort** is `omp_mergesort`: a task for each half, the `taskwait`, `std::merge` into a vector
of the task's own and the copy back. Any task may go on at any time, so every size of the team is
covered. Merging and copying back are one step each: `PartsSorted` also says that no task is at
work inside the part of one that merges.

**MpiProcesses** is what the programs rely on of MPI: messages between two processes keep
their order (`mail`), a standard send returns at once or when the message is received
(`waits`), and a collective call returns when those it depends on have entered it
(`entered`) or when all have. **MpiMessages** is the programs of single messages: `ring`,
`relay_race_dist`, `ping_pong_perfect`, `ping_pong_realistic`, `send_recv_ord_sem`,
`hello_task_sep`. **MpiCollectives** is `lucky_number_who`, `lucky_number_reduce` and the
two `hybrid_distr` programs, the division among the OpenMP threads of each process included.
**HeatMpi** is the distributed simulation: `Deals` the lines, `Exchanges` border rows by
`MPI_Sendrecv` (down and up are separate), `Agrees` by `MPI_Allreduce`, and `Gathers`, whose
sends nobody receives. A row is a record of the process, plate and state it is of, so that
a wrong ghost row is seen without any temperature.

**DiningWaiter** has the messages of each philosopher to the waiter in order
(`toWaiter`), the grants on their way (`granted`), the waiter's `chopsticks` and
`requestQueue`. A send is two actions, the message and the return of `MPI_Send`, so
that both a buffering library and one that waits for the receiver are covered.

**Plate** is what the heat simulations share: cells, border, and `Heated(p, c)`, the new
temperature of a cell; the arithmetic on doubles is a parameter. **HeatSerial** does one
round of the outer loop in one step. **HeatOmp** computes one cell per step, for any
division of the rows among a team (`rowOwner`, a superset of `schedule(static)`), with
the implicit barrier as the guard of `EndLoop`; `untouched` is a history variable for
the refinement. **HeatPthread** has a copy of the plate per thread, computed in place
and one cell per step, gathered and compared by main after the join. It is checked
for several numbers of threads (`numThreads`, the function's argument).

## 3. Checks

| Run | What it asks | Bounds and why they are enough |
|---|---|---|
| `queue` | `NeverFrontOfEmpty`, `PermitAccounting`; `ImplementsFifo`; `SomeElementLeaves` | two of each kind of thread, so that a consumer can overtake another between permit and mutex; `MaxLen` 3 elements keeps the queue finite (no enqueue starts beyond it) and shows order among three |
| `netsim` | conservation (each message in one place, counted once), nothing after a stop, both streams in order, termination | four messages: three are needed for an order of two streams; two consumers, the assembler; every draw of targets and of losses |
| `netsim_left_behind` | `AllDispatched`, which is violated | one message through the assembler is enough |
| `dining` | exclusion, exact ledger, no useless wait, no starvation | four philosophers: the smallest table where two can eat at once and a request at the front can block a servable one |
| `unbound` | `UnitsAccounted` (semaphore, units and reservations agree); memory; termination | two producers, two consumers, three units, so that threads repeat their loop; every allocation and every `pthread_create` may fail |
| `unbound_threads` | `FailureIsReported`, which is violated | as above without failing allocations |
| `bound_order` | `ConsumesInOrder`, which is violated | two places, two rounds |
| `heat` | the OpenMP loop shared by threads refines the serial program and returns a plate in balance; with pthreads blocks divide the rows, and each state is one sweep of the last | plate 5×4, so that three inner rows are divided unequally; two initial plates, several states of both parities until balance; OpenMP: every division of the rows between two threads; pthreads: 1 to 4 of them, blocks of equal and unequal size, and more threads than rows; temperatures 0–12 with the scheme's coefficient 1/4 rounded down. The second program starts when the first has returned: they share nothing |
| `heat_results` | `ProducesSerialResults`, which is violated | as `heat` |
| `hybrid_parts` | `PartsOfTheRange`, which is violated | the example of the program's README: two processes, three threads, the range from 3 to 20 |
| `threads` | `TurnsRespected` (who must come after whom does), `GroupsAreWhole` (teams, molecules, dances, reports and responses are complete, hits add up, parts that are sorted keep their elements), `MemoryOutlivesThreads`, `ProgramsEnd` of the thread programs, jobs and web server; `ListIsWhole`, `FirstInFirstOut` of the linked queue | Teams: three threads, so that there is a first, a middle and a last; four hits, with threads of 0, 1 and 3. Water: every four atoms, so a molecule and one left over, or two hydrogens more than needed. Dance: every five dancers, a team and one waiting. Building: its ten tasks. Buffer: two places, three rounds. Jobs: up to two plates, each whole, short or missing, with a line end too few or too many. Web: up to two clients, two addresses, seven requests (whole, in parts, cut within a line, with a body apart or in the same segment, none), and one `stop()` at any moment. Sort: every vector of up to four elements with three values, so that there are tasks of tasks, halves of unequal size, equal elements and an empty vector. List: after the sort of the empty vector, the shortest of the programs, two callers with four nodes (one private node each and two in the list) and two values |
| `processes` | `TurnsTaken`, `ResultsAgree`, `WorkDividedOnce`, `ProgramsEnd` of the MPI programs | ring of four (three are refused), numbers that are powers of two so that a sum tells its parts; relay of two teams and a refused number; games to 0, 1 and 2 points, missed from the fourth service on so that they end; ranges empty, smaller than the processes and with a rest, that begin at 0 and elsewhere; heat with 1 to 3 processes, four rows, fewer lines than processes, as many, more with and without a rest, and up to two states a plate |

`CHECK_DEADLOCK FALSE` stands where the program ends (all but `queue` and `dining`, which
run for ever: there TLC also shows the absence of deadlock).

`ProgramsEnd` says what a program may end in instead of its end. In `threads`: an undefined
join or use of what was not allocated; the atoms of water that are left over, which `main`
joins; a server that waits for a client, or for the rest of a request. In `processes`: the
endless rally of `ping_pong_perfect`; a send nobody receives, in the ring, the ordered greeting
and the heat simulation; and a heat simulation whose job cannot be read by process 0 or whose
processes have different numbers of plates. Everything else ends on every schedule. What these
exceptions stand for is in section 5.

`WorkDividedOnce` says that parts follow one another, are of sizes within one and as long as the range
together. It does not say where they begin; `PartsOfTheRange` does, and `hybrid_parts` refutes it.

`NobodyUsesFreedMemory` of `unbound` is about creations that fail in part too: when the memory is
freed, every thread of a group has ended if all creations succeeded or if its own group is
the incomplete one, which `create_threads` joins. The threads of the other, complete group are then not
joined by the code, and the property says nothing of them.

**Fairness.** A thread that can run eventually runs (weak fairness of each thread's
steps): the operating system's scheduler. In `queue` the mutex is given with strong
fairness, as a mutex that is released again and again is eventually obtained; starting
to enqueue or to ask `isEmpty` is never promised. In `unbound`, `threads` and
`processes` critical sections are single steps, so weak fairness of main and of each thread
or process is enough; spurious wakeups, clients and `stop()` are promised nothing. In `dining` a philosopher's send need not return
before its message is received; without more, `MPI_ANY_SOURCE` may ignore a sender for
ever, so `NoStarvation` is stated under `FairReceiveSpec`, which adds that every message
that can be received again and again is received (strong fairness). No other property of
`dining` needs it.

## 4. Proofs

TLAPS checks these theorems for every value of the constants, from the modules' named
assumptions alone.

| Module | Theorems | Argument |
|---|---|---|
| ThreadSafeQueueProofs | `TypeCorrect`, `RaceFree`, `PermitsCountElements`, `FrontIsDefined`, `Refinement` | `IInv` = types, `HolderInv` (the holder is exactly the thread at a critical statement), `RoomToPush`, `PermitAccounting`. The type of the queue after `pop()` needs a nonempty queue, which needs the accounting, which needs the mutex: none is inductive alone. The refinement maps `front()` to `Dequeue`, `push` to `Enqueue`, the read of `empty()` to `IsEmpty`. |
| NetworkSimulationProofs | `TypeCorrect`, `Drained` (NoMoreMessagesArrive), `DispatcherFindsEveryQueue` (NeverAborts), `Conserved` (Conservation), `OrderKept` (TwoStreamsInOrder), `ProducedAreDispatched` (OnlyForwardedLeftBehind) | `StopInv`: a stop message in a machine's queue is its last element and was put there by the dispatcher's loop, and a machine that ended got it. `KeyInv`: every message on its way to the dispatcher has a registered key. A machine has slots, the message in hand and its queue, and `IsAt` says which message is in which: `FlightInv` and `CountInv` say that each number sent is in exactly one slot or was counted by exactly one machine. `StreamsInv` has for witness the set of the numbers the assembler has forwarded: within that set and outside it, what stands ahead is older. `LeftInv`: behind the producer's stop message there is only what is for consumers. |
| ProConsUnboundProofs | `TypeCorrect`, `Accounted` (UnitsAccounted), `FreedUnused` (NobodyUsesFreedMemory), `EverythingConsumed` (AllUnitsConsumed) | `PlacesInv`: where a thread is tells what it holds. `CountsInv`: the numbers taken and the reservations, counted over the places of the threads. `UnitsInv`: each unit taken and not refused is in exactly one queue place, hand or consumed place. `SemaphoreInv`: units in the queue and refused against permits, signals to come, dequeues under way and dequeues that found nothing. `PhasesInv`: which threads exist and have ended, by the place of main, unless a group could not be created. |
| HeatOmpProofs | `TypeCorrect`, `ReturnsSettledPlate`, `Refinement` | `Progress`: within a loop the matrix read is untouched, the computed cells of the other hold the next state, and `balancePoint` speaks of the computed cells. `WillReturnSettled` with the parity lemma `MatricesTakeTurns` says which matrix is returned. |
| HeatPthreadProofs | `TypeCorrect`, `RowsDivided` (EachRowOnce), `CopiesFollowLoops`, `SweepsOnly` (StatesAreSweeps) | `BlocksDivideRows`: with Euclidean division, the thread of row *i* is (*i*−1) div *q*, or the last one; by monotonicity of products no other has it. `SweepInv`: the copy of a thread has the new temperatures of the cells it has computed, which are the first ones of its rows, and is the plate elsewhere. What main gathers thus solves the equation by which `Sweep` is defined, cell by cell, and `OneSweep` shows by induction on the diagonals of the plate that nothing else does. |
| ThreadProgramsProofs, thread programs | `ProgramsAreInvariant`, `TypesKept` (TypesOK), `TurnsAreRespected` (TurnsRespected), `GroupsAreComplete` (GroupsAreWhole), `MemoryOutlives` (MemoryOutlivesThreads) | `Lives`: unborn are the threads main has not come to in its first loop, done those it has joined in its second, and at rest all of them afterwards. It is proved once for every program that creates threads: main's steps are `Moves`, a thread's are `Stays`. To it each program adds its own, as below. `ProgramsInv` is that one of these holds of the program that runs. |
| ThreadProgramsProofs, LinkedQueue | `TypeCorrect`, `AlwaysWhole` (ListIsWhole), `FirstOutWasFirstIn` (FirstInFirstOut) | The properties follow the pointers by a recursive function; `IInv` has instead a sequence of nodes as witness, each pointing to the next, from head to tail, that lists exactly the nodes in nobody's hands. `NodesOfList` is the one induction: following the pointers lists that sequence. It is on a given set of numbers, by least counterexample. Each operation then says what becomes of the sequence. |
| ProcessProgramsProofs, on top of MessageProgramsProofs | `ProgramsInvariance`, `ProgramsTypes` (TypesOK), `ProgramsTurns` (TurnsTaken), `ProgramsResults` (ResultsAgree), `ProgramsWork` (WorkDividedOnce) | `Runs`: places, mail and collective calls have their types, for any number of processes. To it each program adds what its messages and calls carry, as below; a step of one process leaves the mail of others alone (`Talks`), which is said once. `ProgramsInv` is that one of these holds of the program that runs. |
| MessageProgramsProofs, DiningWaiter | `TypeCorrect`, `NeighboursSafe`, `LedgerIsExact`, `QueueIsBounded`, `NoDeadlock` | `Phases`: what a philosopher does determines its messages and grants. `QueueInv`: requests are of waiting philosophers, one each. `Ledger`: taken chopsticks are those of the philosophers served, disjoint. `WaiterInv`: the waiter stops serving only when the front cannot be served. |

The inductive invariants of `ThreadProgramsProofs`:

* *Teams* (`TeamsWholeInv`). `Turns` says where the one permit to speak is: in `next_thread`, in
  the semaphore of one thread, or with the thread that is speaking; the reports are those of
  the threads before it. `HeardOnce`: a thread has reported exactly when it is past its report,
  and never reports again. `Everyone`: if main has no error no thread was left out. `HitsInv`: there
  is a running total of the hits reported, and what is left is the rest; `RunningTotal` shows, by
  induction on the reports, that `HitsUntil` computes that total.
* *Water* and *Dance*. There is a number of molecules such that two hydrogens and an oxygen were
  counted for each, besides those in the counters, and as many have bonded or have a unit of
  their semaphore; a number of dances such that two men and two women were counted for each.
* *Building*. The units of each semaphore are those its task has posted less those the tasks that
  depend on it have taken.
* *Bounded buffer*. Which product is for which place, by the remainder; what was read of a place
  is at most what is there now.
* *Jobs*. What is held at each place of main, the line whose result each place of the
  array has, and the plates in the report.
* *Web server*. Whose each descriptor is by the places of main and of `stop()`; at most one client
  after a `stop()` that found the listening socket; responses belong to the clients in turn.
* *Merge sort* (`SortedInv`). Two tasks have one part inside the other or nothing in common
  (`Nested`); what is inside a task is inside the halves it has created, and done once it merges
  (`DoneInside`). So no copy back touches what another task at work has to sort (`PartOf`): a
  part nobody has come to is as given, one that is done is sorted, and outside of wider parts that
  are done every value is there as often as it was given. `TakenBounds`, `MergedIsSorted` and
  `MergedCounts` say what `std::merge` returns, by induction on the elements it has taken.

The inductive invariants of the MPI programs. Those of single messages, down to realistic ping-pong, are in
`MessageProgramsProofs`, which `ProcessProgramsProofs` extends:

* *Greetings* (`GreetInv`). Only the last process that greeted has a message on its way, or will send
  one. *Perfect ping-pong*: there is one ball, flying or with the player who serves.
* *Relay race*. Who has run did so after its teammate; the numbers of teams on their way to the referee
  are those of teams that have arrived and are not placed, once each.
* *Ring* (`RingData`, `RingMail`). With the numbers the processes drew as witness, `RingSum` is the sum of
  *j* processes before one; each sum on its way, and each sum held, is the one for the number of sums
  its process has received.
* *Realistic ping-pong* (`RealGoes`). The witness is a history: the score after every service. A player
  has seen one service more or less than the other, its scoreboard is the history at that service, the
  ball on its way is the next one, and what process 0 broadcasts is the history again. So the scoreboards
  agree although nobody compares them.
* *Lucky numbers* (`LuckyData`). How many of the reductions a process has entered, and that the results it
  has are the least, the greatest and the total of what was drawn. The library's fold is over a set, in an
  order nobody knows; `SumsExist` and `TotalIs` show that it is defined and what it gives.
* *Division of a range* (`HybridFits`, `Part`). Where each part begins, in closed form; the next one begins
  where it ends, every number is `InPart` of one worker (from Euclidean division), and so for the parts of
  threads within those of processes.
* *Heat simulation* (`HeatNow`). Its witness is a world: `level`, how many reductions all processes have
  entered; `past` and `done`, the plates that settled before the last of them and with it, and `before`
  and `now`, the state it was about and the one after it. `HeatFits` is what a process at a
  place has: before the reduction it is in it speaks of `past` and `before`, behind it of `done` and `now`.
  `HeatDown` and `HeatUp` say which rows are on their way between neighbours: those that have been sent in
  this state and not received. When the last process enters a reduction (`HeatFinalists`) no row is
  on its way, and the world moves on. `HeatOver` is what is left after an abort. The rows of process 1 for
  process 0 are not spoken of after the first plate: they may be ones nobody received (section 5).

Assumptions worth naming: in ThreadSafeQueue the sets of threads are finite and disjoint,
and `MaxLen` bounds the queue (any bound); in NetworkSimulation there is at least one
consumer (`Util::random` of an empty range is undefined) and `NeverAborts` holds while
every machine's number fits in a target; DiningWaiter has at least two philosophers; a
program of ProConsUnbound has at least one producer, consumer and unit (its argument check); in
LinkedQueue there are finitely many addresses, NULL is none; ThreadPrograms takes any numbers of
threads, atoms, dancers, clients and addresses (`NumbersAssumption`, a buffer with a place and at
least one round), any job files (`JobsAssumption`), requests (`RequestsAssumption`)
and vectors of integers (`VectorsAssumption`) of the forms the modules read; ProcessPrograms
takes any bound on the processes and any numbers of them (`CountsAssumption`), any integers that
are drawn, points, threads and bounds on services and states (`NumbersAssumption`), and ranges that do not
end before they begin (`RangesAssumption`: the code takes those too, but C and TLA+ divide negative
numbers differently, so the model would say something else than the code); a
plate has at least two rows and columns (`rows - 2` is unsigned) and the arithmetic is
closed on temperatures.

`Taken` of `MergeSort`, `HitsUntil` of `ThreadTeams`, `NodeAt` of `LinkedQueue` and `Sweep` of
`HeatPthread` are recursive functions that a number decreases with. The lemma `Induction`, over a given *set* of numbers, is enough for
them; it is proved from `WellFoundedInduction`'s least element and needs no operator as a parameter.

**Only model-checked**: all liveness (`SomeElementLeaves`, `Termination`, `NoStarvation`,
`ProgramsEnd`), which rests on fairness and so on ENABLED, which the prover does not handle. Every safety
invariant, action property and refinement that a passing run checks is a theorem.

## 5. Where code and documents disagree

* `netsim_left_behind`: the dispatcher ends at the stop message of the producer while
  messages are with the assembler; they come back to a queue nobody reads. The comment
  at `DispatcherTest.cpp:13` says it dispatches all messages.
* `unbound_threads`: when no producer and only some of the consumers can be created,
  main joins consumers that wait for ever; `simulation.c:284` promises an error.
* `bound_order`: the consumer reads places nothing was produced for; `README.md:6` of
  the program says products are processed in their order.
* `heat_results`: the pthread simulation updates in place and compares with `>=`, so it
  returns neither the serial program's plate nor its number of states; the `README.md`
  of heatsim-pthread, line 33, says the results are the same.
* `hybrid_parts`: `calculate_start` takes `begin` off the length of the range and does not add
  it: `3 20` gives parts of `[0, 17[`, where line 6 of the program's README has parts of `[3, 20[`.

Seen while modelling, without a run: the serial and OpenMP programs return the state
*before* the last one computed (the comment at line 159 of heatsim-serial's
`heat_transfer_simulation.c` calls it the final one; `ResultSettled` states what is
returned); a unit whose node found no memory is lost and a consumer prints 0 for it; the waiter
serves only the front of its queue, so a philosopher whose chopsticks are free can wait
behind one whose are not, although `readme.md:13` of the program asks for the highest
concurrency. Found with the modules of `threads` and `processes`, whose properties state
what holds nevertheless:

* `pro_cons_bound.c:253`: when only the producer can be created nobody joins it, and main frees the
  buffer it writes to; the comment at line 230 says both threads are awaited.
* `sem_vs_condsafe.c:163` (and the other teams that do so): after a `pthread_create` that fails main joins all
  `thread_count` threads, and so does not come to return the error code line 127 promises.
* `sem_vs_condsafe.c:164` and `hello_order_semaphor.c:159`: main destroys the semaphore of
  thread 0 after joining it, and the last thread posts that semaphore afterwards.
* `hello_order_semaphor.c:91` and `sem_vs_condsafe.c:92` initialise the semaphore of thread 0 before
  they look whether its array was allocated.
* `building_tasks_.c:90`: `sem_obra_gris` starts with a unit, so a task that depends on the grey
  work may start before it has ended; the comment at line 50 says all dependencies are waited for.
  `TurnsRespected` states it for the other dependencies.
* A group of `pro_cons_unbound` that is complete is not joined when the other could not be created
  (`simulation.c:308`), and the memory its threads use is freed.
* `read_job_txt` counts ends of line and stores a value for every five words: a last
  line without its end is stored beyond the array.
* `read_bin_plate` of heatsim-pthread and of the OpenMP version: `continue` after a short row stays
  in the loop over rows, with the plate freed; after a file that cannot be opened the report has
  a number of states nobody has set (line 52 of the latter). The serial version gives up without a
  report and does not free the array of states.
* The MPI ring: in the first round every process sends before it receives; with sends that wait for their
  receiver nobody gets to the result line 14 of its README speaks of.
* heatsim's MPI version: `params_matrix` is sent as bytes with a pointer of process 0 in it;
  process 0 returns when it cannot read the job while the others wait in `MPI_Bcast`
  (`main.c:49`); processes with different numbers of plates wait for ever, as in the README's example, six
  lines on four processes; the last rows are received by nobody, so that process 0 takes them for the
  ghost rows of its next plate (`GhostsInStep` excepts it); the ghost rows above the first and below
  the last row of the plate are never set.
* Web server: a `stop()` before the socket is bound is lost, as the server goes on with the next
  address, and one while `accept()` waits is followed by one more client, where
  `HttpServer.cpp:57` expects an exception at once; a body in the same segment as its header is
  waited for for ever (`HttpRequest.cpp:96`), by all other clients too; a factorization of a
  number beyond `int64_t`, or a response to a client that is gone, ends the process.

## 6. What is not modelled

The reading of arguments (taken as proper or not), logging, random delays, the layout of output,
the contents of pages and headers; the TCP client, which no program uses; measurements
(`false_sharing_array`, the report of heatsim-optimized); programs whose threads only print or
draw a number (`hello`, `recursive_hello`, `grandma_lottery`, the OpenMP greetings); pseudocode;
an empty file. `pthread_create` of heatsim-pthread is taken to succeed within a plate: the code
ignores its result and joins an uninitialised thread when it fails. Allocations of heatsim's MPI
version are taken to succeed, and errors of MPI calls to end the program, as MPI does by default.
The components and reasons are in `PROJECT.json`.

## 7. Plan

The plan is done: every component that shares state is modelled, and every safety property that a
passing run checks is proved. What would come next, if the programs grow:

1. Liveness stays with TLC. Its safety part could be proved apart: for `ProgramsEnd`, that a program in which no
   process or thread can step is at one of the ends that property names (the absence of deadlock, as
   `NoDeadlock` states it for the waiter), with ENABLED of each step written out as a state predicate.
2. An abstract specification of a collective call, which `MpiProcesses` could be shown to implement, once a
   program uses more of MPI than barriers, broadcasts, scatters and reductions over all processes.
