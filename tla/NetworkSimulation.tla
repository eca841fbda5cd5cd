-------------------------- MODULE NetworkSimulation --------------------------
(***************************************************************************)
(* The packet-loss simulation of exercises/pthreads/                       *)
(* network_simul_packet_loss (the program built with -DSIMULATION).  A     *)
(* producer sends Packages messages to a dispatcher, which forwards each   *)
(* one to the consumer or to the assembler it is addressed to; the         *)
(* assembler loses a message or readdresses it to a consumer and gives it  *)
(* back to the dispatcher.  Every machine is a thread that owns a queue    *)
(* and ends on a stop message; the main thread starts them and joins them. *)
(*                                                                         *)
(* An operation on a queue is one atomic step: ThreadSafeQueue, the        *)
(* translation of the queue class, is proved to implement that.            *)
(***************************************************************************)
EXTENDS Integers, Sequences, FiniteSets

CONSTANTS Packages,       \* packageCount
          ConsumerCount,  \* consumerCount
          LossPercent,    \* package_loss_percent
          TargetSpace     \* values of NetworkMessage::target, 2^16 in the code

ASSUME ArgumentsAssumption == /\ Packages \in Nat
                              /\ ConsumerCount \in Nat \ {0}
                              /\ LossPercent \in Int
                              /\ TargetSpace \in Nat \ {0}

(* Threads are numbered in the order main starts and joins them.  The      *)
(* machines that own a queue are the dispatcher, the consumers and the     *)
(* assembler; the last two are known to the dispatcher by their number.    *)
Producer == -1
Dispatcher == 0
Consumers == 1..ConsumerCount
Assembler == ConsumerCount + 1
Machines == Dispatcher..Assembler
Threads == Producer..Assembler

(* The keys of Dispatcher::toQueues: registerRedirect is called for every  *)
(* consumer and for the assembler.                                         *)
RegisteredKeys == 1..ConsumerCount + 1

Targets == 0..TargetSpace - 1
Message == [target : Targets, source : 0..1, number : Nat]
Stop == [target |-> 0, source |-> 0, number |-> 0]

VARIABLES queue,     \* queue[m]: the consuming queue of machine m
          state,     \* state[t]: where thread t is
          held,      \* held[m]: the last message machine m dequeued
          sent,      \* index of ProducerTest::run, the messages produced so far
          received,  \* received[c]: ConsumerTest::receivedMessages
          lost,      \* AssemblerTest::package_loss_count
          counted,   \* counted[m]: the numbers of the messages that machine m has
                     \* counted as received or lost, for the properties
          nextStop,  \* the iterator of DispatcherTest::run over toQueues
          nextStart, \* the next thread main starts
          nextJoin,  \* the next thread main joins
          aborted    \* the process died of an uncaught exception

vars == <<queue, state, held, sent, received, lost, counted, nextStop,
          nextStart, nextJoin, aborted>>

Init == /\ queue = [m \in Machines |-> <<>>]
        /\ state = [t \in Threads |-> "unstarted"]
        /\ held = [m \in Machines |-> Stop]
        /\ sent = 0
        /\ received = [c \in Consumers |-> 0]
        /\ lost = 0
        /\ counted = [m \in RegisteredKeys |-> {}]
        /\ nextStop = 1
        /\ nextStart = Producer
        /\ nextJoin = Producer
        /\ aborted = FALSE

(* A faulty variant: a queue that grows at the wrong end.                  *)
PutFront(m, msg) == queue' = [queue EXCEPT ![m] = <<msg>> \o @]

Put(m, msg) == queue' = [queue EXCEPT ![m] = Append(@, msg)]

Goto(t, from, to) == /\ ~aborted
                     /\ state[t] = from
                     /\ state' = [state EXCEPT ![t] = to]

-----------------------------------------------------------------------------
(* Faulty variants of the operations below, one mistake each.  No          *)
(* specification uses them: each shows that a property notices it.         *)

(* The targets drawn go one beyond the machines that are registered.       *)
DrawBeyondAssembler == 1..ConsumerCount + 2

(* The assembler may readdress a message to itself.                        *)
DrawAnyMachine == 1..ConsumerCount + 1

(* The loop of the producer runs once too often.                           *)
ProduceOneTooMany ==
  /\ sent <= Packages
  /\ Goto(Producer, "running", "running")
  /\ \E target \in 1..ConsumerCount + 1 :
       Put(Dispatcher, [target |-> target % TargetSpace, source |-> 1, number |-> sent])
  /\ sent' = sent + 1
  /\ UNCHANGED <<held, received, lost, counted, nextStop, nextStart, nextJoin, aborted>>

(* A forwarded message is counted as lost as well.                         *)
AssembleCountsForwarded ==
  /\ LossPercent < 100
  /\ Goto(Assembler, "busy", "running")
  /\ \E target \in 1..ConsumerCount :
       Put(Dispatcher, [held[Assembler] EXCEPT !.target = target % TargetSpace])
  /\ held' = [held EXCEPT ![Assembler] = Stop]
  /\ lost' = lost + 1
  /\ UNCHANGED <<sent, received, counted, nextStop, nextStart, nextJoin, aborted>>

(* Having told everybody to stop, the dispatcher goes back to its loop.    *)
PropagateAndContinue ==
  /\ nextStop = Assembler + 1
  /\ Goto(Dispatcher, "stopping", "running")
  /\ UNCHANGED <<queue, held, sent, received, lost, counted, nextStop, nextStart, nextJoin, aborted>>

(* The last queue of the map is left without a stop message.               *)
PropagateStopButLast ==
  /\ nextStop <= Assembler
  /\ Goto(Dispatcher, "stopping", "stopping")
  /\ IF nextStop < Assembler THEN Put(nextStop, Stop) ELSE UNCHANGED queue
  /\ nextStop' = nextStop + 1
  /\ UNCHANGED <<held, sent, received, lost, counted, nextStart, nextJoin, aborted>>

-----------------------------------------------------------------------------
(* The producer (ProducerTest::run)                                        *)

(* 1 + Util::random(0, consumerCount), whose argument counts the assembler *)
(* as one more consumer (ProducerConsumerTest.cpp:59).                     *)
DrawnTargets == 1..ConsumerCount + 1

Produce ==
  /\ sent < Packages
  /\ Goto(Producer, "running", "running")
  /\ \E target \in DrawnTargets :
       Put(Dispatcher, [target |-> target % TargetSpace, source |-> 1, number |-> sent])
  /\ sent' = sent + 1
  /\ UNCHANGED <<held, received, lost, counted, nextStop, nextStart, nextJoin, aborted>>

ProduceStop ==
  /\ sent = Packages
  /\ Goto(Producer, "running", "done")
  /\ Put(Dispatcher, Stop)
  /\ UNCHANGED <<held, sent, received, lost, counted, nextStop, nextStart, nextJoin, aborted>>

-----------------------------------------------------------------------------
(* The loop of every machine (Consumer::consumeForever)                    *)

Take(m) == queue' = [queue EXCEPT ![m] = Tail(@)]

(* The stop message ends the loop; only the dispatcher has work left then. *)
DequeueStop(m) ==
  /\ queue[m] # <<>> /\ Head(queue[m]) = Stop
  /\ Goto(m, "running", IF m = Dispatcher THEN "stopping" ELSE "done")
  /\ Take(m)
  /\ UNCHANGED <<held, sent, received, lost, counted, nextStop, nextStart, nextJoin, aborted>>

DequeueMessage(m) ==
  /\ queue[m] # <<>> /\ Head(queue[m]) # Stop
  /\ Goto(m, "running", "busy")
  /\ held' = [held EXCEPT ![m] = Head(queue[m])]
  /\ Take(m)
  /\ UNCHANGED <<sent, received, lost, counted, nextStop, nextStart, nextJoin, aborted>>

Release(m) == held' = [held EXCEPT ![m] = Stop]
Counts(m) == counted' = [counted EXCEPT ![m] = @ \cup {held[m].number}]

-----------------------------------------------------------------------------
(* The dispatcher (Dispatcher::consume, DispatcherTest::run)               *)

Redirect ==
  /\ Goto(Dispatcher, "busy", "running")
  /\ Put(held[Dispatcher].target, held[Dispatcher])
  /\ Release(Dispatcher)
  /\ UNCHANGED <<sent, received, lost, counted, nextStop, nextStart, nextJoin, aborted>>

(* The exception leaves the thread's function: std::terminate.             *)
ThrowKeyNotFound ==
  /\ Goto(Dispatcher, "busy", "done")
  /\ aborted' = TRUE
  /\ UNCHANGED <<queue, held, sent, received, lost, counted, nextStop, nextStart, nextJoin>>

Dispatch ==
  IF held[Dispatcher].target \in RegisteredKeys THEN Redirect ELSE ThrowKeyNotFound

PropagateStop ==
  /\ nextStop <= Assembler
  /\ Goto(Dispatcher, "stopping", "stopping")
  /\ Put(nextStop, Stop)
  /\ nextStop' = nextStop + 1
  /\ UNCHANGED <<held, sent, received, lost, counted, nextStart, nextJoin, aborted>>

PropagateEnd ==
  /\ nextStop = Assembler + 1
  /\ Goto(Dispatcher, "stopping", "done")
  /\ UNCHANGED <<queue, held, sent, received, lost, counted, nextStop, nextStart, nextJoin, aborted>>

-----------------------------------------------------------------------------
(* The consumers (ConsumerTest::consume)                                   *)

Consume(c) ==
  /\ Goto(c, "busy", "running")
  /\ received' = [received EXCEPT ![c] = @ + 1]
  /\ Counts(c)
  /\ Release(c)
  /\ UNCHANGED <<queue, sent, lost, nextStop, nextStart, nextJoin, aborted>>

-----------------------------------------------------------------------------
(* The assembler (AssemblerTest::consume)                                  *)

(* Util::random(1, consumer_count + 1)                                     *)
ReassignedTargets == 1..ConsumerCount

AssembleLose ==
  /\ LossPercent > 0
  /\ Goto(Assembler, "busy", "running")
  /\ lost' = lost + 1
  /\ Counts(Assembler)
  /\ Release(Assembler)
  /\ UNCHANGED <<queue, sent, received, nextStop, nextStart, nextJoin, aborted>>

AssembleForward ==
  /\ LossPercent < 100
  /\ Goto(Assembler, "busy", "running")
  /\ \E target \in ReassignedTargets :
       Put(Dispatcher, [held[Assembler] EXCEPT !.target = target % TargetSpace])
  /\ Release(Assembler)
  /\ UNCHANGED <<sent, received, lost, counted, nextStop, nextStart, nextJoin, aborted>>

-----------------------------------------------------------------------------
(* The main thread (ProducerConsumerTest::start)                           *)

StartThread ==
  /\ nextStart <= Assembler
  /\ Goto(nextStart, "unstarted", "running")
  /\ nextStart' = nextStart + 1
  /\ UNCHANGED <<queue, held, sent, received, lost, counted, nextStop, nextJoin, aborted>>

JoinThread ==
  /\ nextStart = Assembler + 1 /\ nextJoin <= Assembler
  /\ Goto(nextJoin, "done", "done")
  /\ nextJoin' = nextJoin + 1
  /\ UNCHANGED <<queue, held, sent, received, lost, counted, nextStop, nextStart, aborted>>

Finished == nextJoin = Assembler + 1

-----------------------------------------------------------------------------
MainStep == StartThread \/ JoinThread
ProducerStep == Produce \/ ProduceStop
Dequeue(m) == DequeueStop(m) \/ DequeueMessage(m)
DispatcherStep == \/ Dequeue(Dispatcher) \/ Dispatch
                  \/ PropagateStop \/ PropagateEnd
ConsumerStep(c) == Dequeue(c) \/ Consume(c)
AssemblerStep == Dequeue(Assembler) \/ AssembleLose \/ AssembleForward

Next == \/ MainStep
        \/ ProducerStep
        \/ DispatcherStep
        \/ \E c \in Consumers : ConsumerStep(c)
        \/ AssemblerStep

Spec == Init /\ [][Next]_vars

(* Every thread that can run eventually runs.                              *)
FairSpec == /\ Spec
            /\ WF_vars(MainStep)
            /\ WF_vars(ProducerStep)
            /\ WF_vars(DispatcherStep)
            /\ \A c \in Consumers : WF_vars(ConsumerStep(c))
            /\ WF_vars(AssemblerStep)

-----------------------------------------------------------------------------
TypeOK ==
  /\ queue \in [Machines -> Seq(Message)]
  /\ state \in [Threads -> {"unstarted", "running", "busy", "stopping", "done"}]
  /\ held \in [Machines -> Message]
  /\ \A m \in Machines : held[m] # Stop => state[m] = "busy" \/ aborted
  /\ sent \in 0..Packages
  /\ received \in [Consumers -> Nat] /\ lost \in Nat
  /\ counted \in [RegisteredKeys -> SUBSET Nat]
  /\ nextStop \in 1..Assembler + 1
  /\ nextStart \in Producer..Assembler + 1
  /\ nextJoin \in Producer..Assembler + 1
  /\ aborted \in BOOLEAN

(* Where a message can be: slot 0 of a machine is the one it holds.        *)
Slots(m) == 0..Len(queue[m])
Slot(m, i) == IF i = 0 THEN held[m] ELSE queue[m][i]
InFlight == UNION {{<<m, i>> : i \in {j \in Slots(m) : Slot(m, j) # Stop}} : m \in Machines}
NumberAt(s) == Slot(s[1], s[2]).number

(* No message disappears, appears or is doubled on its way: every number   *)
(* the producer has sent, and no other, is in one queue or in one          *)
(* machine's hands, or was counted once, by one machine, although the      *)
(* assembler gives messages back to the queue they came from.  What the    *)
(* machines report is how many they counted.                               *)
Conservation ==
  /\ \A s, t \in InFlight : NumberAt(s) = NumberAt(t) => s = t
  /\ \A s \in InFlight, m \in RegisteredKeys : NumberAt(s) \notin counted[m]
  /\ \A k, m \in RegisteredKeys : k # m => counted[k] \cap counted[m] = {}
  /\ {NumberAt(s) : s \in InFlight} \cup UNION {counted[m] : m \in RegisteredKeys} = 0..sent - 1
  /\ received = [c \in Consumers |-> Cardinality(counted[c])]
  /\ lost = Cardinality(counted[Assembler])

(* "If the forever loop finished, no more messages will arrive"            *)
(* (ConsumerTest.cpp:16): a consumer or the assembler that has ended has   *)
(* an empty queue, for ever.                                               *)
NoMoreMessagesArrive ==
  \A m \in Consumers \cup {Assembler} : state[m] = "done" => queue[m] = <<>>

(* While the key of every machine fits in a message's target the           *)
(* dispatcher finds the queue of every message: it never throws.           *)
KeysFit == Assembler < TargetSpace
NeverAborts == KeysFit => ~aborted

(* What the dispatcher leaves behind in its queue is only what the         *)
(* assembler has forwarded: all the producer sent was dispatched.          *)
OnlyForwardedLeftBehind ==
  KeysFit /\ state[Dispatcher] = "done" =>
    \A i \in DOMAIN queue[Dispatcher] : queue[Dispatcher][i].target \in Consumers

(* A queue mixes messages that took the direct way with messages that went *)
(* through the assembler, and each kind stays in the order it was sent: no *)
(* three messages of a queue are in descending order.                      *)
TwoStreamsInOrder ==
  \A m \in Machines : \A i, j, k \in DOMAIN queue[m] :
    LET Number(n) == queue[m][n].number
        IsMessage(n) == queue[m][n] # Stop
    IN  i < j /\ j < k /\ IsMessage(i) /\ IsMessage(j) /\ IsMessage(k)
        => ~ (Number(i) > Number(j) /\ Number(j) > Number(k))

(* Every thread ends and is joined: no machine waits for ever on its       *)
(* queue, whatever the assembler does with the messages.                   *)
Termination == KeysFit => <>Finished

(* "Dispatch all the network messages we receive to their respective       *)
(* queues" (DispatcherTest.cpp:13).  What the code does contradicts it.    *)
AllDispatched == Finished => queue[Dispatcher] = <<>>
=============================================================================
