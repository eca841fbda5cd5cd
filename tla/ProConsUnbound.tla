---------------------------- MODULE ProConsUnbound ----------------------------
(***************************************************************************)
(* The producer-consumer simulation with an unbounded buffer               *)
(* (examples/pthreads/pro_cons_unbound): main creates the producers and    *)
(* the consumers, waits for them and frees what they share.  Producers     *)
(* take the numbers of the units to produce, consumers reserve how many    *)
(* they will consume; a semaphore counts what is in the queue.             *)
(*                                                                         *)
(* The queue is the first-in first-out queue LinkedQueue is shown to be; a *)
(* critical section under its mutex, or under one of the two mutexes of    *)
(* the counters, is one action.                                            *)
(***************************************************************************)
EXTENDS Naturals, Sequences, FiniteSets

CONSTANTS UnitCount,        \* unit_count
          ProducerCount,    \* producer_count
          ConsumerCount,    \* consumer_count
          MemoryMayEnd,     \* whether calloc of a node can fail
          ThreadsMayEnd     \* whether pthread_create can fail

ASSUME ArgumentsAssumption == /\ UnitCount \in Nat \ {0}
                              /\ ProducerCount \in Nat \ {0}
                              /\ ConsumerCount \in Nat \ {0}
                              /\ MemoryMayEnd \in BOOLEAN
                              /\ ThreadsMayEnd \in BOOLEAN

(* Threads are numbered in the order main creates them.                    *)
Producers == 1..ProducerCount
Consumers == ProducerCount + 1..ProducerCount + ConsumerCount
Threads == Producers \cup Consumers
Units == 1..UnitCount

VARIABLES mainAt,         \* what the main thread is doing
          created,        \* the threads created so far
          failed,         \* a group of threads could not be created
          pc,             \* pc[t]: what thread t is doing
          unit,           \* unit[t]: my_unit of a producer, value of a consumer
          queue,          \* simulation->queue
          nextUnit,       \* simulation->next_unit
          canConsume,     \* the value of the semaphore
          consumedCount,  \* simulation->consumed_count
          consumed,       \* the values printed as consumed, in their order
          refused         \* the units whose node found no memory, for the properties

vars == <<mainAt, created, failed, pc, unit, queue, nextUnit, canConsume,
          consumedCount, consumed, refused>>
shared == <<queue, nextUnit, canConsume, consumedCount, refused>>

Init == /\ mainAt = "createProducers"
        /\ created = {}
        /\ failed = FALSE
        /\ pc = [t \in Threads |-> "unborn"]
        /\ unit = [t \in Threads |-> 0]
        /\ queue = <<>>
        /\ nextUnit = 0
        /\ canConsume = 0
        /\ consumedCount = 0
        /\ consumed = <<>>
        /\ refused = {}

(* Once the simulation is freed a thread is not followed any further: what *)
(* it would do next is undefined.  When main returns the process ends.     *)
Goto(t, from, to) == /\ mainAt \notin {"destroyed", "exited"}
                     /\ pc[t] = from
                     /\ pc' = [pc EXCEPT ![t] = to]

Ended(group) == \A t \in group \cap created : pc[t] = "done"

-----------------------------------------------------------------------------
(* Faulty variants of the operations below, one mistake each.  No          *)
(* specification uses them: each shows that a property notices it.         *)

(* The number is read before and written after the mutex is held.          *)
ProducerTakeStale(p) ==
  /\ nextUnit < UnitCount
  /\ Goto(p, "running", "producing")
  /\ \E n \in {nextUnit, nextUnit + 1} : unit' = [unit EXCEPT ![p] = n] /\ nextUnit' = n
  /\ UNCHANGED <<mainAt, created, failed, queue, canConsume, consumedCount, consumed, refused>>

(* A consumer may reserve one unit more than will be produced.             *)
ConsumerReserveOneMore(c) ==
  /\ consumedCount <= UnitCount
  /\ Goto(c, "running", "waiting")
  /\ consumedCount' = consumedCount + 1
  /\ UNCHANGED <<mainAt, created, failed, unit, queue, nextUnit, canConsume, consumed, refused>>

(* main waits for the producers only.                                      *)
JoinOnlyProducers ==
  /\ mainAt = "joinConsumers"
  /\ mainAt' = "destroy"
  /\ UNCHANGED <<created, failed, pc, unit, shared, consumed>>

(* The unit is printed and not removed from the queue.                     *)
DequeueKeeps(c) ==
  /\ queue # <<>>
  /\ Goto(c, "dequeuing", "consuming")
  /\ unit' = [unit EXCEPT ![c] = Head(queue)]
  /\ UNCHANGED <<mainAt, created, failed, queue, nextUnit, canConsume, consumedCount, consumed, refused>>

-----------------------------------------------------------------------------
(* A producer: produce()                                                   *)

ProducerTake(p) ==
  /\ nextUnit < UnitCount
  /\ Goto(p, "running", "producing")
  /\ nextUnit' = nextUnit + 1
  /\ unit' = [unit EXCEPT ![p] = nextUnit + 1]
  /\ UNCHANGED <<mainAt, created, failed, queue, canConsume, consumedCount, consumed, refused>>

ProducerEnd(p) ==
  /\ nextUnit >= UnitCount
  /\ Goto(p, "running", "done")
  /\ UNCHANGED <<mainAt, created, failed, unit, shared, consumed>>

ProducerEnqueue(p) ==
  /\ Goto(p, "producing", "signalling")
  /\ queue' = Append(queue, unit[p])
  /\ UNCHANGED <<mainAt, created, failed, unit, nextUnit, canConsume, consumedCount, consumed, refused>>

(* queue_enqueue returns EXIT_FAILURE and nobody looks at it.              *)
ProducerEnqueueFails(p) ==
  /\ MemoryMayEnd
  /\ Goto(p, "producing", "signalling")
  /\ refused' = refused \cup {unit[p]}
  /\ UNCHANGED <<mainAt, created, failed, unit, queue, nextUnit, canConsume, consumedCount, consumed>>

ProducerSignal(p) ==
  /\ Goto(p, "signalling", "running")
  /\ canConsume' = canConsume + 1
  /\ unit' = [unit EXCEPT ![p] = 0]
  /\ UNCHANGED <<mainAt, created, failed, queue, nextUnit, consumedCount, consumed, refused>>

-----------------------------------------------------------------------------
(* A consumer: consume()                                                   *)

ConsumerReserve(c) ==
  /\ consumedCount < UnitCount
  /\ Goto(c, "running", "waiting")
  /\ consumedCount' = consumedCount + 1
  /\ UNCHANGED <<mainAt, created, failed, unit, queue, nextUnit, canConsume, consumed, refused>>

ConsumerEnd(c) ==
  /\ consumedCount >= UnitCount
  /\ Goto(c, "running", "done")
  /\ UNCHANGED <<mainAt, created, failed, unit, shared, consumed>>

ConsumerWait(c) ==
  /\ canConsume > 0
  /\ Goto(c, "waiting", "dequeuing")
  /\ canConsume' = canConsume - 1
  /\ UNCHANGED <<mainAt, created, failed, unit, queue, nextUnit, consumedCount, consumed, refused>>

ConsumerDequeue(c) ==
  /\ queue # <<>>
  /\ Goto(c, "dequeuing", "consuming")
  /\ unit' = [unit EXCEPT ![c] = Head(queue)]
  /\ queue' = Tail(queue)
  /\ UNCHANGED <<mainAt, created, failed, nextUnit, canConsume, consumedCount, consumed, refused>>

(* queue_dequeue returns EXIT_FAILURE, nobody looks at it and value is 0.  *)
ConsumerDequeueNothing(c) ==
  /\ queue = <<>>
  /\ Goto(c, "dequeuing", "consuming")
  /\ UNCHANGED <<mainAt, created, failed, unit, shared, consumed>>

ConsumerConsume(c) ==
  /\ Goto(c, "consuming", "running")
  /\ consumed' = Append(consumed, unit[c])
  /\ unit' = [unit EXCEPT ![c] = 0]
  /\ UNCHANGED <<mainAt, created, failed, shared>>

-----------------------------------------------------------------------------
(* The main thread: create_consumers_producers() and what follows it       *)

MainGoto(from, to) == mainAt = from /\ mainAt' = to

Create(t) ==
  /\ created' = created \cup {t}
  /\ pc' = [pc EXCEPT ![t] = "running"]
  /\ UNCHANGED <<failed, unit, shared, consumed>>

CreateProducer ==
  /\ MainGoto("createProducers", "createProducers")
  /\ \E p \in Producers : created = 1..p - 1 /\ Create(p)

CreateConsumer ==
  /\ MainGoto("createConsumers", "createConsumers")
  /\ \E c \in Consumers : created \cap Consumers = ProducerCount + 1..c - 1 /\ Create(c)

(* A group is complete, or a thread (or the array for the group) is        *)
(* refused: the threads of the group that exist are joined first.          *)
ProducersCreated ==
  /\ Producers \subseteq created
  /\ MainGoto("createProducers", "createConsumers")
  /\ UNCHANGED <<created, failed, pc, unit, shared, consumed>>

ProducersRefused ==
  /\ ThreadsMayEnd /\ ~(Producers \subseteq created)
  /\ MainGoto("createProducers", "undoProducers")
  /\ failed' = TRUE
  /\ UNCHANGED <<created, pc, unit, shared, consumed>>

UndoProducers ==
  /\ Ended(Producers)
  /\ MainGoto("undoProducers", "createConsumers")
  /\ UNCHANGED <<created, failed, pc, unit, shared, consumed>>

(* Consumers that follow producers that failed are not waited for.         *)
ConsumersCreated ==
  /\ Consumers \subseteq created
  /\ MainGoto("createConsumers", IF failed THEN "destroy" ELSE "joinProducers")
  /\ UNCHANGED <<created, failed, pc, unit, shared, consumed>>

ConsumersRefused ==
  /\ ThreadsMayEnd /\ ~(Consumers \subseteq created)
  /\ MainGoto("createConsumers", "undoConsumers")
  /\ failed' = TRUE
  /\ UNCHANGED <<created, pc, unit, shared, consumed>>

UndoConsumers ==
  /\ Ended(Consumers)
  /\ MainGoto("undoConsumers", "destroy")
  /\ UNCHANGED <<created, failed, pc, unit, shared, consumed>>

JoinProducers ==
  /\ Ended(Producers)
  /\ MainGoto("joinProducers", "joinConsumers")
  /\ UNCHANGED <<created, failed, pc, unit, shared, consumed>>

JoinConsumers ==
  /\ Ended(Consumers)
  /\ MainGoto("joinConsumers", "destroy")
  /\ UNCHANGED <<created, failed, pc, unit, shared, consumed>>

(* simulation_destroy() clears the queue and frees the simulation.         *)
Destroy ==
  /\ MainGoto("destroy", "destroyed")
  /\ queue' = <<>>
  /\ UNCHANGED <<created, failed, pc, unit, nextUnit, canConsume, consumedCount, consumed, refused>>

Exit ==
  /\ MainGoto("destroyed", "exited")
  /\ UNCHANGED <<created, failed, pc, unit, shared, consumed>>

-----------------------------------------------------------------------------
ProducerStep(p) == \/ ProducerTake(p) \/ ProducerEnd(p) \/ ProducerEnqueue(p)
                   \/ ProducerEnqueueFails(p) \/ ProducerSignal(p)

ConsumerStep(c) == \/ ConsumerReserve(c) \/ ConsumerEnd(c) \/ ConsumerWait(c)
                   \/ ConsumerDequeue(c) \/ ConsumerDequeueNothing(c)
                   \/ ConsumerConsume(c)

MainStep == \/ CreateProducer \/ ProducersCreated \/ ProducersRefused \/ UndoProducers
            \/ CreateConsumer \/ ConsumersCreated \/ ConsumersRefused \/ UndoConsumers
            \/ JoinProducers \/ JoinConsumers \/ Destroy \/ Exit

Next == \/ \E p \in Producers : ProducerStep(p)
        \/ \E c \in Consumers : ConsumerStep(c)
        \/ MainStep

Spec == Init /\ [][Next]_vars

(* Every thread that can run eventually runs; the mutexes are held for a   *)
(* moment only and the delays of the simulation end.                       *)
FairSpec == /\ Spec
            /\ \A p \in Producers : WF_vars(ProducerStep(p))
            /\ \A c \in Consumers : WF_vars(ConsumerStep(c))
            /\ WF_vars(MainStep)

-----------------------------------------------------------------------------
TypeOK ==
  /\ mainAt \in {"createProducers", "undoProducers", "createConsumers",
                 "undoConsumers", "joinProducers", "joinConsumers",
                 "destroy", "destroyed", "exited"}
  /\ created \subseteq Threads
  /\ failed \in BOOLEAN
  /\ pc \in [Threads -> {"unborn", "running", "producing", "signalling", "waiting",
                         "dequeuing", "consuming", "done"}]
  /\ unit \in [Threads -> 0..UnitCount]
  /\ queue \in Seq(Units)
  /\ nextUnit \in 0..UnitCount
  /\ canConsume \in Nat
  /\ consumedCount \in 0..UnitCount
  /\ consumed \in Seq(0..UnitCount)
  /\ refused \subseteq Units

At(place) == {t \in Threads : pc[t] = place}

(* Dequeues of an empty queue, whose consumers go on with the value 0.     *)
BlankUnits == {i \in DOMAIN consumed : consumed[i] = 0}
BlankConsumers == {t \in At("consuming") : unit[t] = 0}
EmptyDequeues == Cardinality(BlankUnits) + Cardinality(BlankConsumers)

(* The semaphore, the consumers it has let pass and the producers about to *)
(* raise it account for every unit in the queue.  A consumer is let pass   *)
(* to an empty queue at most once for every unit that found no memory.     *)
SemaphoreCountsUnits ==
  mainAt \notin {"destroyed", "exited"} =>
    /\ canConsume + Cardinality(At("dequeuing")) + Cardinality(At("signalling")) + EmptyDequeues
         = Len(queue) + Cardinality(refused)
    /\ EmptyDequeues <= Cardinality(refused)

(* Every unit taken is with its producer, in the queue, with one consumer  *)
(* or consumed, and nowhere twice, unless it found no memory: two          *)
(* producers never take the same number and no unit is consumed twice.     *)
Places == {<<"queue", i>> : i \in DOMAIN queue}
          \cup {<<"consumed", i>> : i \in {j \in DOMAIN consumed : consumed[j] # 0}}
          \cup {<<"thread", t>> : t \in At("producing")
                                        \cup {c \in At("consuming") : unit[c] # 0}}
UnitAt(place) == CASE place[1] = "queue"    -> queue[place[2]]
                   [] place[1] = "consumed" -> consumed[place[2]]
                   [] place[1] = "thread"   -> unit[place[2]]
EachUnitOnce ==
  mainAt \notin {"destroyed", "exited"} =>
    /\ {UnitAt(x) : x \in Places} = 1..nextUnit \ refused
    /\ \A x, y \in Places : UnitAt(x) = UnitAt(y) => x = y

(* No more consumers wait than units are still to come: nobody is left     *)
(* waiting on the semaphore when the producers are done.                   *)
ReservationsAreCovered ==
  nextUnit = UnitCount =>
    Cardinality(At("waiting")) <=
      canConsume + Cardinality(At("producing")) + Cardinality(At("signalling"))

(* Units, their semaphore and the reservations agree at every moment, with *)
(* allocations that fail and threads that could not be created: the three  *)
(* counters are changed in three critical sections and two calls.          *)
UnitsAccounted == SemaphoreCountsUnits /\ EachUnitOnce /\ ReservationsAreCovered

(* The simulation is not freed under a running thread as long as all the   *)
(* threads could be created, and never under one of a group that is not    *)
(* complete: its threads are joined ("la función unirá los hilos ya        *)
(* creados", simulation.c:233).  The other group is not, if it is complete.*)
NobodyUsesFreedMemory ==
  mainAt = "destroyed" =>
    \A group \in {Producers, Consumers} :
      ~failed \/ ~(group \subseteq created) => Ended(group)

(* With all its threads the program ends by itself.                        *)
Termination == <>(mainAt = "exited" \/ failed)

(* When the program ends with all its threads created, every unit has been *)
(* consumed ("todos los consumidores procesan todos los productos",        *)
(* README.md:2) but for those that found no memory: an empty dequeue never *)
(* costs a unit that is in the queue.                                      *)
AllUnitsConsumed ==
  mainAt = "exited" /\ ~failed =>
    {consumed[i] : i \in DOMAIN consumed} \ {0} = Units \ refused

(* "Si los hilos no pueden ser creados, devuelve un error"                 *)
(* (simulation.c:284-285): a group that failed ends the program.  The code *)
(* breaks it: with no producer, the consumers that were created are waited *)
(* for and wait for ever.                                                  *)
FailureIsReported == failed ~> (mainAt = "exited")
=============================================================================
