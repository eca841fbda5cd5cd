----------------------- MODULE NetworkSimulationProofs -----------------------
(***************************************************************************)
(* Proofs about NetworkSimulation for any number of packages and consumers *)
(* and any percentage of loss.                                             *)
(***************************************************************************)
EXTENDS NetworkSimulation, FiniteSetTheorems, SequenceTheorems, TLAPS

(* A target that fits in the field is stored as it is.                     *)
LEMMA StoredTarget ==
  ASSUME NEW t \in Nat
  PROVE  /\ t % TargetSpace \in Targets
         /\ t < TargetSpace => t % TargetSpace = t
  BY ArgumentsAssumption DEF Targets

(* Put appends to one queue and leaves the others alone.                   *)
LEMMA PutEffect ==
  ASSUME queue \in [Machines -> Seq(Message)],
         NEW m \in Machines, NEW msg \in Message, Put(m, msg)
  PROVE  /\ queue' \in [Machines -> Seq(Message)]
         /\ queue'[m] = Append(queue[m], msg)
         /\ \A k \in Machines \ {m} : queue'[k] = queue[k]
  <1>1. queue[m] \in Seq(Message) /\ Append(queue[m], msg) \in Seq(Message)
    BY AppendProperties
  <1>. QED
    BY <1>1 DEF Put

(* Take removes the first message of one queue.                            *)
LEMMA TakeEffect ==
  ASSUME queue \in [Machines -> Seq(Message)],
         NEW m \in Machines, queue[m] # <<>>, Take(m)
  PROVE  /\ Head(queue[m]) \in Message
         /\ queue' \in [Machines -> Seq(Message)]
         /\ queue'[m] = Tail(queue[m])
         /\ \A k \in Machines \ {m} : queue'[k] = queue[k]
  <1>1. queue[m] \in Seq(Message) /\ Head(queue[m]) \in Message /\ Tail(queue[m]) \in Seq(Message)
    BY HeadTailProperties
  <1>. QED
    BY <1>1 DEF Take

(* The numbers that main gives to the threads and the dispatcher to the    *)
(* queues.                                                                 *)
LEMMA Names ==
  /\ Producer \in Threads \ Machines
  /\ Dispatcher \in Machines /\ Assembler \in Machines
  /\ Machines \subseteq Threads
  /\ RegisteredKeys = Consumers \cup {Assembler}
  /\ RegisteredKeys = Machines \ {Dispatcher}
  /\ Stop \in Message
  BY ArgumentsAssumption DEF Producer, Dispatcher, Assembler, Consumers,
       Machines, Threads, RegisteredKeys, Stop, Message, Targets

(* The initial state is well typed.                                        *)
LEMMA InitTypeOK == Init => TypeOK
  <1> SUFFICES ASSUME Init PROVE TypeOK
    OBVIOUS
  <1>1. 1 \in 1..Assembler + 1 /\ Producer \in Producer..Assembler + 1 /\ 0 \in 0..Packages
    BY ArgumentsAssumption DEF Producer, Assembler
  <1>2. << >> \in Seq(Message)
    OBVIOUS
  <1>3. queue \in [Machines -> Seq(Message)]
    BY <1>2 DEF Init
  <1>. QED
    BY <1>1, <1>3, Names DEF Init, TypeOK

(* A step of a thread changes the state of that thread alone.              *)
LEMMA GotoEffect ==
  ASSUME TypeOK, NEW t \in Threads, NEW from, NEW to \in {"running", "busy", "stopping", "done"},
         Goto(t, from, to)
  PROVE  /\ state' \in [Threads -> {"unstarted", "running", "busy", "stopping", "done"}]
         /\ state[t] = from /\ state'[t] = to
         /\ \A k \in Threads \ {t} : state'[k] = state[k]
         /\ ~aborted
  BY DEF Goto, TypeOK

(* A machine that counts a message records its number.                     *)
LEMMA CountsEffect ==
  ASSUME TypeOK, NEW m \in RegisteredKeys, Counts(m)
  PROVE  /\ held[m].number \in Nat
         /\ counted' \in [RegisteredKeys -> SUBSET Nat]
         /\ counted'[m] = counted[m] \cup {held[m].number}
         /\ \A k \in RegisteredKeys \ {m} : counted'[k] = counted[k]
  BY Names DEF Counts, TypeOK, Message

(* Every step preserves the types.                                         *)
LEMMA NextTypeOK == TypeOK /\ [Next]_vars => TypeOK'
  <1> SUFFICES ASSUME TypeOK, [Next]_vars PROVE TypeOK'
    OBVIOUS
  <1>1. ASSUME Produce PROVE TypeOK'
    <2>1. PICK target \in DrawnTargets :
            Put(Dispatcher, [target |-> target % TargetSpace, source |-> 1, number |-> sent])
      BY <1>1 DEF Produce
    <2>2. [target |-> target % TargetSpace, source |-> 1, number |-> sent] \in Message
      BY StoredTarget DEF Message, DrawnTargets, TypeOK
    <2>3. queue' \in [Machines -> Seq(Message)]
      BY <2>1, <2>2, PutEffect, Names DEF TypeOK
    <2>. QED
      BY <1>1, <2>3, GotoEffect, Names, ArgumentsAssumption DEF Produce, TypeOK
  <1>2. ASSUME ProduceStop PROVE TypeOK'
    <2>1. queue' \in [Machines -> Seq(Message)]
      BY <1>2, PutEffect, Names DEF ProduceStop, TypeOK
    <2>. QED
      BY <1>2, <2>1, GotoEffect, Names DEF ProduceStop, TypeOK
  <1>3. ASSUME NEW m \in Machines, DequeueStop(m) PROVE TypeOK'
    <2>1. queue' \in [Machines -> Seq(Message)]
      BY <1>3, TakeEffect DEF DequeueStop, TypeOK
    <2>. QED
      BY <1>3, <2>1, GotoEffect, Names DEF DequeueStop, TypeOK
  <1>4. ASSUME NEW m \in Machines, DequeueMessage(m) PROVE TypeOK'
    <2>1. queue' \in [Machines -> Seq(Message)] /\ Head(queue[m]) \in Message
      BY <1>4, TakeEffect DEF DequeueMessage, TypeOK
    <2>. QED
      BY <1>4, <2>1, GotoEffect, Names DEF DequeueMessage, TypeOK
  <1>5. ASSUME held[Dispatcher].target \in RegisteredKeys, Redirect PROVE TypeOK'
    <2>1. queue' \in [Machines -> Seq(Message)]
      BY <1>5, PutEffect, Names DEF Redirect, TypeOK
    <2>. QED
      BY <1>5, <2>1, GotoEffect, Names DEF Redirect, Release, TypeOK
  <1>6. ASSUME ThrowKeyNotFound PROVE TypeOK'
    BY <1>6, GotoEffect, Names DEF ThrowKeyNotFound, TypeOK
  <1>7. ASSUME PropagateStop PROVE TypeOK'
    <2>1. nextStop \in Machines /\ nextStop + 1 \in 1..Assembler + 1
      BY <1>7, ArgumentsAssumption DEF PropagateStop, TypeOK, Machines, Dispatcher, Assembler
    <2>2. queue' \in [Machines -> Seq(Message)]
      BY <1>7, <2>1, PutEffect, Names DEF PropagateStop, TypeOK
    <2>. QED
      BY <1>7, <2>1, <2>2, GotoEffect, Names DEF PropagateStop, TypeOK
  <1>8. ASSUME PropagateEnd PROVE TypeOK'
    BY <1>8, GotoEffect, Names DEF PropagateEnd, TypeOK
  <1>9. ASSUME NEW c \in Consumers, Consume(c) PROVE TypeOK'
    <2>1. counted' \in [RegisteredKeys -> SUBSET Nat]
      BY <1>9, CountsEffect, Names DEF Consume
    <2>2. c \in Machines /\ received' \in [Consumers -> Nat]
      BY <1>9, Names DEF Consume, TypeOK
    <2>. QED
      BY <1>9, <2>1, <2>2, GotoEffect, Names DEF Consume, Release, TypeOK
  <1>10. ASSUME AssembleLose PROVE TypeOK'
    <2>1. counted' \in [RegisteredKeys -> SUBSET Nat]
      BY <1>10, CountsEffect, Names DEF AssembleLose
    <2>. QED
      BY <1>10, <2>1, GotoEffect, Names DEF AssembleLose, Release, TypeOK
  <1>11. ASSUME AssembleForward PROVE TypeOK'
    <2>1. PICK target \in ReassignedTargets :
            Put(Dispatcher, [held[Assembler] EXCEPT !.target = target % TargetSpace])
      BY <1>11 DEF AssembleForward
    <2>a. held[Assembler] \in Message /\ target \in Nat
      BY Names DEF ReassignedTargets, TypeOK
    <2>2. [held[Assembler] EXCEPT !.target = target % TargetSpace] \in Message
      BY <2>a, StoredTarget DEF Message
    <2>3. queue' \in [Machines -> Seq(Message)]
      BY <2>1, <2>2, PutEffect, Names DEF TypeOK
    <2>. QED
      BY <1>11, <2>3, GotoEffect, Names DEF AssembleForward, Release, TypeOK
  <1>12. ASSUME StartThread PROVE TypeOK'
    <2>1. nextStart \in Threads /\ nextStart + 1 \in Producer..Assembler + 1
      BY <1>12, ArgumentsAssumption DEF StartThread, TypeOK, Threads, Producer, Assembler
    <2>2. /\ state' \in [Threads -> {"unstarted", "running", "busy", "stopping", "done"}]
          /\ \A k \in Threads \ {nextStart} : state'[k] = state[k]
          /\ state[nextStart] = "unstarted" /\ ~aborted
      BY <1>12, <2>1, GotoEffect DEF StartThread
    <2>3. \A m \in Machines : held[m] # Stop => state'[m] = "busy" \/ aborted
      BY <2>2, Names DEF TypeOK
    <2>. QED
      BY <1>12, <2>1, <2>2, <2>3 DEF StartThread, TypeOK
  <1>13. ASSUME JoinThread PROVE TypeOK'
    <2>1. nextJoin \in Threads /\ nextJoin + 1 \in Producer..Assembler + 1
      BY <1>13, ArgumentsAssumption DEF JoinThread, TypeOK, Threads, Producer, Assembler
    <2>. QED
      BY <1>13, <2>1, GotoEffect, Names DEF JoinThread, TypeOK
  <1>14. CASE UNCHANGED vars
    BY <1>14 DEF vars, TypeOK
  <1>. QED
    BY <1>1, <1>2, <1>3, <1>4, <1>5, <1>6, <1>7, <1>8, <1>9, <1>10, <1>11, <1>12, <1>13, <1>14, Names
    DEF Next, MainStep, ProducerStep, DispatcherStep, Dispatch, ConsumerStep, AssemblerStep, Dequeue

(* Every variable keeps its type, whatever the arguments of the program.   *)
THEOREM TypeCorrect == Spec => []TypeOK
  BY InitTypeOK, NextTypeOK, PTL DEF Spec

-----------------------------------------------------------------------------
(* Once the dispatcher has begun to propagate the stop message it does not *)
(* dispatch any more, and a queue that has its stop message gets nothing   *)
(* after it.  nextStop separates the queues that have it from the others.  *)
StopInv ==
  /\ nextStop > 1 => state[Dispatcher] \in {"stopping", "done"}
  /\ \A k \in RegisteredKeys : \A i \in DOMAIN queue[k] :
       queue[k][i] = Stop => k < nextStop /\ i = Len(queue[k])
  /\ \A k \in RegisteredKeys :
       state[k] = "done" => k < nextStop /\ queue[k] = <<>>

(* Nothing is put in the queue of a machine that has ended, because only   *)
(* the dispatcher puts there.                                              *)
LEMMA UntouchedQueues ==
  ASSUME TypeOK, StopInv,
         state' \in [Threads -> {"unstarted", "running", "busy", "stopping", "done"}],
         nextStop' = nextStop,
         nextStop > 1 => state'[Dispatcher] \in {"stopping", "done"},
         \A k \in RegisteredKeys : queue'[k] = queue[k],
         \A k \in RegisteredKeys : state'[k] = "done" => state[k] = "done"
  PROVE  StopInv'
  BY DEF StopInv

(* A message that is not the stop message may be put in a queue that has   *)
(* not got its stop message.                                               *)
LEMMA DispatchStopInv ==
  ASSUME TypeOK, StopInv, Redirect, held[Dispatcher].target \in RegisteredKeys
  PROVE  StopInv'
  <1> DEFINE key == held[Dispatcher].target
             msg == held[Dispatcher]
  <1>1. key \in RegisteredKeys /\ key \in Machines /\ msg \in Message /\ msg # Stop
    BY Names DEF TypeOK, RegisteredKeys, Stop
  <1>2. /\ queue' \in [Machines -> Seq(Message)]
        /\ queue'[key] = Append(queue[key], msg)
        /\ \A k \in Machines \ {key} : queue'[k] = queue[k]
    BY <1>1, PutEffect DEF Redirect, TypeOK
  <1>3. /\ state[Dispatcher] = "busy" /\ nextStop' = nextStop
        /\ state'[Dispatcher] = "running"
        /\ \A k \in RegisteredKeys : state'[k] = state[k]
    BY GotoEffect, Names DEF Redirect
  <1>4. nextStop = 1
    BY <1>3 DEF StopInv, TypeOK
  <1>5. \A k \in RegisteredKeys : ~ (k < nextStop)
    BY <1>4, ArgumentsAssumption DEF RegisteredKeys
  <1>6. \A k \in RegisteredKeys : \A i \in DOMAIN queue'[k] : queue'[k][i] # Stop
    <2> TAKE k \in RegisteredKeys
    <2> TAKE i \in DOMAIN queue'[k]
    <2>1. CASE k # key
      BY <2>1, <1>2, <1>5, Names DEF StopInv
    <2>2. CASE k = key
      <3>1. queue[key] \in Seq(Message)
        BY <1>1 DEF TypeOK
      <3>2. i \in 1..Len(queue[key]) + 1
        BY <2>2, <1>2, <3>1, AppendProperties
      <3>3. CASE i \in 1..Len(queue[key])
        <4>1. i \in DOMAIN queue[key]
          BY <3>3, <3>1, LenProperties
        <4>2. queue'[k][i] = queue[key][i]
          BY <2>2, <1>2, <3>1, <3>3, AppendProperties
        <4>. QED
          BY <4>1, <4>2, <1>1, <1>5 DEF StopInv
      <3>4. CASE i = Len(queue[key]) + 1
        BY <2>2, <3>4, <1>1, <1>2, <3>1, AppendProperties
      <3>. QED
        BY <3>1, <3>2, <3>3, <3>4, LenProperties
    <2>. QED
      BY <2>1, <2>2
  <1>7. \A k \in RegisteredKeys : state'[k] # "done"
    BY <1>3, <1>5 DEF StopInv
  <1>. QED
    BY <1>3, <1>4, <1>6, <1>7 DEF StopInv

(* The stop message goes to the end of the next queue.                     *)
LEMMA PropagateStopInv ==
  ASSUME TypeOK, StopInv, PropagateStop
  PROVE  StopInv'
  <1>a. nextStop \in RegisteredKeys /\ nextStop' = nextStop + 1 /\ nextStop \in Nat
    BY ArgumentsAssumption DEF PropagateStop, TypeOK, RegisteredKeys, Assembler
  <1>1. nextStop \in RegisteredKeys /\ nextStop \in Machines /\ nextStop' = nextStop + 1 /\ nextStop \in Nat
    BY <1>a, Names
  <1>2. /\ queue' \in [Machines -> Seq(Message)]
        /\ queue'[nextStop] = Append(queue[nextStop], Stop)
        /\ \A k \in Machines \ {nextStop} : queue'[k] = queue[k]
    BY <1>1, Names, PutEffect DEF PropagateStop, TypeOK
  <1>3. /\ state'[Dispatcher] = "stopping"
        /\ \A k \in RegisteredKeys : state'[k] = state[k]
    BY GotoEffect, Names DEF PropagateStop
  <1>4. ASSUME NEW k \in RegisteredKeys, NEW i \in DOMAIN queue'[k], queue'[k][i] = Stop
        PROVE  k < nextStop' /\ i = Len(queue'[k])
    <2>1. CASE k # nextStop
      <3>1. queue'[k] = queue[k] /\ k \in Nat
        BY <2>1, <1>2, Names DEF RegisteredKeys
      <3>a. i \in DOMAIN queue[k] /\ queue[k][i] = Stop
        BY <3>1, <1>4
      <3>2. k < nextStop /\ i = Len(queue[k])
        BY <3>a DEF StopInv
      <3>. QED
        BY <3>1, <3>2, <1>1
    <2>2. CASE k = nextStop
      <3>1. queue[k] \in Seq(Message) /\ k \in Nat
        BY <1>1, <2>2 DEF TypeOK
      <3>2. i \in 1..Len(queue[k]) + 1 /\ Len(queue'[k]) = Len(queue[k]) + 1
        BY <2>2, <1>2, <3>1, AppendProperties
      <3>3. i \notin 1..Len(queue[k])
        <4>1. SUFFICES ASSUME i \in 1..Len(queue[k]) PROVE FALSE
          OBVIOUS
        <4>2. i \in DOMAIN queue[k]
          BY <4>1, <3>1, LenProperties
        <4>3. queue'[k][i] = queue[k][i]
          BY <4>1, <2>2, <1>2, <3>1, AppendProperties
        <4>4. queue[k][i] = Stop
          BY <4>3, <1>4
        <4>5. k < nextStop
          BY <4>2, <4>4 DEF StopInv
        <4>. QED
          BY <4>5, <2>2, <1>1
      <3>. QED
        BY <3>1, <3>2, <3>3, <2>2, <1>1, LenProperties
    <2>. QED
      BY <2>1, <2>2
  <1>5. ASSUME NEW k \in RegisteredKeys, state'[k] = "done"
        PROVE  k < nextStop' /\ queue'[k] = <<>>
    <2>1. k < nextStop /\ queue[k] = <<>> /\ k \in Nat
      BY <1>3, <1>5 DEF StopInv, RegisteredKeys
    <2>. QED
      BY <2>1, <1>1, <1>2, Names
  <1>. QED
    BY <1>3, <1>4, <1>5 DEF StopInv

(* Dequeuing shortens a queue; a machine that takes its stop message takes *)
(* the last element.                                                       *)
LEMMA DequeueStopInv ==
  ASSUME TypeOK, StopInv, NEW m \in Machines, Dequeue(m)
  PROVE  StopInv'
  <1>1. /\ queue[m] # <<>> /\ queue[m] \in Seq(Message) /\ Take(m)
        /\ nextStop' = nextStop /\ nextStop \in Nat /\ state[m] = "running"
    BY GotoEffect, Names DEF Dequeue, DequeueStop, DequeueMessage, TypeOK
  <1>2. /\ queue' \in [Machines -> Seq(Message)]
        /\ queue'[m] = Tail(queue[m])
        /\ \A k \in Machines \ {m} : queue'[k] = queue[k]
    BY <1>1, TakeEffect DEF TypeOK
  <1>3. /\ \A k \in Threads \ {m} : state'[k] = state[k]
        /\ state'[m] = IF Head(queue[m]) = Stop
                       THEN IF m = Dispatcher THEN "stopping" ELSE "done"
                       ELSE "busy"
    BY GotoEffect, Names DEF Dequeue, DequeueStop, DequeueMessage
  <1>4. nextStop > 1 => state'[Dispatcher] \in {"stopping", "done"}
    BY <1>1, <1>3, Names DEF StopInv
  <1>5. CASE m = Dispatcher
    <2>1. \A k \in RegisteredKeys : queue'[k] = queue[k] /\ state'[k] = state[k]
      BY <1>2, <1>3, <1>5, Names
    <2>. QED
      BY <2>1, <1>1, <1>4 DEF StopInv
  <1>6. CASE m \in RegisteredKeys
    <2>1. Len(queue'[m]) = Len(queue[m]) - 1 /\ Len(queue[m]) \in Nat \ {0}
      BY <1>1, <1>2, HeadTailProperties, EmptySeq, LenProperties
    <2>2. ASSUME NEW i \in DOMAIN queue'[m]
          PROVE  i + 1 \in DOMAIN queue[m] /\ queue'[m][i] = queue[m][i + 1] /\ i \in Nat
      BY <2>1, <1>1, <1>2, HeadTailProperties, LenProperties
    <2>3. ASSUME NEW k \in RegisteredKeys, NEW i \in DOMAIN queue'[k], queue'[k][i] = Stop
          PROVE  k < nextStop /\ i = Len(queue'[k])
      <3>1. CASE k # m
        BY <3>1, <1>2, <2>3, Names DEF StopInv
      <3>2. CASE k = m
        BY <3>2, <2>1, <2>2, <2>3 DEF StopInv
      <3>. QED
        BY <3>1, <3>2
    <2>4. ASSUME NEW k \in RegisteredKeys, state'[k] = "done"
          PROVE  k < nextStop /\ queue'[k] = <<>>
      <3>1. CASE k # m
        BY <3>1, <1>2, <1>3, <2>4, Names DEF StopInv
      <3>2. CASE k = m
        <4>1. 1 \in DOMAIN queue[m] /\ queue[m][1] = Stop
          BY <3>2, <1>1, <1>3, <2>1, <2>4, HeadTailProperties, LenProperties
        <4>2. k < nextStop /\ 1 = Len(queue[m])
          BY <4>1, <3>2 DEF StopInv
        <4>. QED
          BY <4>2, <3>2, <1>2, <2>1, EmptySeq
      <3>. QED
        BY <3>1, <3>2
    <2>. QED
      BY <1>1, <1>4, <2>3, <2>4 DEF StopInv
  <1>. QED
    BY <1>5, <1>6, Names

(* The stop messages keep their place.                                     *)
LEMMA NextStopInv == TypeOK /\ StopInv /\ [Next]_vars => StopInv'
  <1> SUFFICES ASSUME TypeOK, StopInv, [Next]_vars PROVE StopInv'
    OBVIOUS
  <1>1. CASE UNCHANGED vars
    BY <1>1 DEF vars, StopInv
  <1>2. ASSUME ProducerStep \/ AssembleForward PROVE StopInv'
    <2>1. \A k \in RegisteredKeys : queue'[k] = queue[k]
      BY <1>2, Names DEF ProducerStep, Produce, ProduceStop, AssembleForward, Put, TypeOK
    <2>2. /\ state' \in [Threads -> {"unstarted", "running", "busy", "stopping", "done"}]
          /\ \A k \in Machines : state'[k] = state[k] \/ (state'[k] = "running" /\ k = Assembler)
          /\ nextStop' = nextStop
      BY <1>2, GotoEffect, Names DEF ProducerStep, Produce, ProduceStop, AssembleForward
    <2>3. state'[Dispatcher] = state[Dispatcher]
      BY <2>2, Names
    <2>. QED
      BY <2>1, <2>2, <2>3, Names, UntouchedQueues DEF StopInv
  <1>3. ASSUME NEW m \in Machines, Dequeue(m) PROVE StopInv'
    BY <1>3, DequeueStopInv
  <1>4. ASSUME ThrowKeyNotFound \/ PropagateEnd PROVE StopInv'
    <2>1. queue' = queue /\ nextStop' = nextStop /\ state'[Dispatcher] = "done"
      BY <1>4, GotoEffect, Names DEF ThrowKeyNotFound, PropagateEnd
    <2>2. \A k \in RegisteredKeys : state'[k] = state[k]
      BY <1>4, GotoEffect, Names DEF ThrowKeyNotFound, PropagateEnd
    <2>. QED
      BY <2>1, <2>2 DEF StopInv
  <1>5. ASSUME MainStep PROVE StopInv'
    <2>1. queue' = queue /\ nextStop' = nextStop
      BY <1>5 DEF MainStep, StartThread, JoinThread
    <2>2. \A k \in Threads : \/ state'[k] = state[k]
                             \/ state[k] = "unstarted" /\ state'[k] = "running"
      BY <1>5 DEF MainStep, StartThread, JoinThread, Goto, TypeOK
    <2>. QED
      BY <2>1, <2>2, Names DEF StopInv
  <1>6. ASSUME NEW c \in Consumers, Consume(c) PROVE StopInv'
    <2>1. queue' = queue /\ nextStop' = nextStop
      BY <1>6 DEF Consume
    <2>2. \A k \in Threads : state'[k] = state[k] \/ (state'[k] = "running" /\ k = c)
      BY <1>6, GotoEffect, Names DEF Consume
    <2>. QED
      BY <2>1, <2>2, Names DEF StopInv
  <1>7. ASSUME AssembleLose PROVE StopInv'
    <2>1. queue' = queue /\ nextStop' = nextStop
      BY <1>7 DEF AssembleLose
    <2>2. \A k \in Threads : state'[k] = state[k] \/ (state'[k] = "running" /\ k = Assembler)
      BY <1>7, GotoEffect, Names DEF AssembleLose
    <2>. QED
      BY <2>1, <2>2, Names DEF StopInv
  <1>. QED
    BY <1>1, <1>2, <1>3, <1>4, <1>5, <1>6, <1>7, DispatchStopInv, PropagateStopInv, Names
    DEF Next, DispatcherStep, Dispatch, ConsumerStep, AssemblerStep

(* No message arrives at a consumer, or at the assembler, that has ended   *)
(* its loop.                                                               *)
THEOREM Drained == Spec => []NoMoreMessagesArrive
  <1>1. Init => StopInv
    BY Names DEF Init, StopInv
  <1>2. StopInv => NoMoreMessagesArrive
    BY Names DEF StopInv, NoMoreMessagesArrive
  <1>. QED
    BY <1>1, <1>2, NextStopInv, TypeCorrect, PTL DEF Spec

-----------------------------------------------------------------------------
(* What the dispatcher has to deal with is the stop message or a message   *)
(* for a registered machine.                                               *)
Routable(msg) == msg = Stop \/ msg.target \in RegisteredKeys

KeyInv == /\ ~aborted
          /\ \A i \in DOMAIN queue[Dispatcher] : Routable(queue[Dispatcher][i])
          /\ state[Dispatcher] = "busy" => held[Dispatcher].target \in RegisteredKeys

(* Putting a routable message in the dispatcher's queue keeps it routable. *)
LEMMA PutRoutable ==
  ASSUME TypeOK, KeyInv, NEW msg \in Message, Routable(msg), Put(Dispatcher, msg)
  PROVE  \A i \in DOMAIN queue'[Dispatcher] : Routable(queue'[Dispatcher][i])
  <1>1. /\ queue[Dispatcher] \in Seq(Message)
        /\ queue'[Dispatcher] = Append(queue[Dispatcher], msg)
    BY PutEffect, Names DEF TypeOK
  <1> TAKE i \in DOMAIN queue'[Dispatcher]
  <1>2. i \in 1..Len(queue[Dispatcher]) + 1
    BY <1>1, AppendProperties
  <1>3. CASE i \in 1..Len(queue[Dispatcher])
    <2>1. queue'[Dispatcher][i] = queue[Dispatcher][i] /\ i \in DOMAIN queue[Dispatcher]
      BY <1>1, <1>3, AppendProperties, LenProperties
    <2>. QED
      BY <2>1 DEF KeyInv
  <1>4. CASE i = Len(queue[Dispatcher]) + 1
    BY <1>1, <1>4, AppendProperties
  <1>. QED
    BY <1>1, <1>2, <1>3, <1>4, LenProperties

(* Every step keeps the dispatcher's messages routable.                    *)
LEMMA NextKeyInv ==
  ASSUME KeysFit, TypeOK, KeyInv, [Next]_vars
  PROVE  KeyInv'
  <1>f. \A t \in RegisteredKeys : t % TargetSpace = t
    BY StoredTarget, ArgumentsAssumption DEF KeysFit, RegisteredKeys, Assembler
  <1>1. CASE UNCHANGED vars
    BY <1>1 DEF vars, KeyInv
  <1>2. ASSUME Produce PROVE KeyInv'
    <2>1. PICK target \in DrawnTargets :
            Put(Dispatcher, [target |-> target % TargetSpace, source |-> 1, number |-> sent])
      BY <1>2 DEF Produce
    <2>2. /\ [target |-> target % TargetSpace, source |-> 1, number |-> sent] \in Message
          /\ target % TargetSpace \in RegisteredKeys
      BY <1>f, StoredTarget DEF Message, DrawnTargets, RegisteredKeys, TypeOK
    <2>3. Routable([target |-> target % TargetSpace, source |-> 1, number |-> sent])
      BY <2>2 DEF Routable
    <2>4. \A i \in DOMAIN queue'[Dispatcher] : Routable(queue'[Dispatcher][i])
      BY <2>1, <2>2, <2>3, PutRoutable
    <2>. QED
      BY <1>2, <2>4, GotoEffect, Names DEF Produce, KeyInv
  <1>3. ASSUME ProduceStop PROVE KeyInv'
    <2>1. \A i \in DOMAIN queue'[Dispatcher] : Routable(queue'[Dispatcher][i])
      BY <1>3, PutRoutable, Names DEF ProduceStop, Routable
    <2>. QED
      BY <1>3, <2>1, GotoEffect, Names DEF ProduceStop, KeyInv
  <1>4. ASSUME AssembleForward PROVE KeyInv'
    <2>1. PICK target \in ReassignedTargets :
            Put(Dispatcher, [held[Assembler] EXCEPT !.target = target % TargetSpace])
      BY <1>4 DEF AssembleForward
    <2>2. held[Assembler] \in Message /\ target \in Nat /\ target \in RegisteredKeys
      BY Names, ArgumentsAssumption DEF ReassignedTargets, RegisteredKeys, TypeOK
    <2>3. /\ [held[Assembler] EXCEPT !.target = target % TargetSpace] \in Message
          /\ Routable([held[Assembler] EXCEPT !.target = target % TargetSpace])
      BY <1>f, <2>2, StoredTarget DEF Message, Routable
    <2>4. \A i \in DOMAIN queue'[Dispatcher] : Routable(queue'[Dispatcher][i])
      BY <2>1, <2>3, PutRoutable
    <2>. QED
      BY <1>4, <2>4, GotoEffect, Names DEF AssembleForward, Release, KeyInv, TypeOK
  <1>5. ASSUME Dequeue(Dispatcher) PROVE KeyInv'
    <2>1. /\ queue[Dispatcher] # <<>> /\ queue[Dispatcher] \in Seq(Message)
          /\ queue'[Dispatcher] = Tail(queue[Dispatcher])
      BY <1>5, TakeEffect, Names DEF Dequeue, DequeueStop, DequeueMessage, TypeOK
    <2>2. \A i \in DOMAIN queue'[Dispatcher] :
            i + 1 \in DOMAIN queue[Dispatcher] /\ queue'[Dispatcher][i] = queue[Dispatcher][i + 1]
      BY <2>1, HeadTailProperties, LenProperties, EmptySeq
    <2>3. Head(queue[Dispatcher]) = queue[Dispatcher][1] /\ 1 \in DOMAIN queue[Dispatcher]
      BY <2>1, HeadTailProperties, LenProperties, EmptySeq
    <2>4. CASE DequeueStop(Dispatcher)
      BY <2>2, <2>4, GotoEffect, Names DEF DequeueStop, KeyInv
    <2>5. CASE DequeueMessage(Dispatcher)
      <3>1. held'[Dispatcher].target \in RegisteredKeys
        BY <2>3, <2>5, Names DEF DequeueMessage, KeyInv, Routable, TypeOK
      <3>. QED
        BY <2>2, <2>5, <3>1, GotoEffect, Names DEF DequeueMessage, KeyInv
    <2>. QED
      BY <1>5, <2>4, <2>5 DEF Dequeue
  <1>6. ASSUME (Redirect /\ held[Dispatcher].target \in RegisteredKeys) \/ PropagateStop PROVE KeyInv'
    <2>1. queue'[Dispatcher] = queue[Dispatcher]
      BY <1>6, Names DEF Redirect, PropagateStop, Put, TypeOK, RegisteredKeys, Dispatcher
    <2>2. state'[Dispatcher] # "busy" /\ ~aborted'
      BY <1>6, GotoEffect, Names DEF Redirect, PropagateStop
    <2>. QED
      BY <2>1, <2>2 DEF KeyInv
  <1>7. ASSUME Dispatch PROVE held[Dispatcher].target \in RegisteredKeys /\ Redirect
    BY <1>7 DEF Dispatch, Redirect, ThrowKeyNotFound, Goto, KeyInv
  <1>8. ASSUME PropagateEnd PROVE KeyInv'
    BY <1>8, GotoEffect, Names DEF PropagateEnd, KeyInv
  <1>9. ASSUME NEW m \in RegisteredKeys, Dequeue(m) PROVE KeyInv'
    <2>1. queue'[Dispatcher] = queue[Dispatcher] /\ state'[Dispatcher] = state[Dispatcher]
      BY <1>9, TakeEffect, GotoEffect, Names DEF Dequeue, DequeueStop, DequeueMessage, TypeOK
    <2>2. held'[Dispatcher] = held[Dispatcher] /\ aborted' = aborted
      BY <1>9, Names DEF Dequeue, DequeueStop, DequeueMessage, TypeOK
    <2>. QED
      BY <2>1, <2>2 DEF KeyInv
  <1>10. ASSUME NEW c \in Consumers, Consume(c) PROVE KeyInv'
    BY <1>10, GotoEffect, Names DEF Consume, Release, KeyInv, TypeOK
  <1>11. ASSUME AssembleLose PROVE KeyInv'
    BY <1>11, GotoEffect, Names DEF AssembleLose, Release, KeyInv, TypeOK
  <1>12. ASSUME MainStep PROVE KeyInv'
    <2>1. queue' = queue /\ held' = held /\ aborted' = aborted
      BY <1>12 DEF MainStep, StartThread, JoinThread
    <2>2. state'[Dispatcher] = "busy" => state[Dispatcher] = "busy"
      BY <1>12, Names DEF MainStep, StartThread, JoinThread, Goto, TypeOK
    <2>. QED
      BY <2>1, <2>2 DEF KeyInv
  <1>. QED
    BY <1>1, <1>2, <1>3, <1>4, <1>5, <1>6, <1>7, <1>8, <1>9, <1>10, <1>11, <1>12, Names
    DEF Next, ProducerStep, DispatcherStep, Dispatch, ConsumerStep, AssemblerStep

(* While the keys fit in 16 bits the dispatcher finds a queue for every    *)
(* message.                                                                *)
THEOREM DispatcherFindsEveryQueue == Spec => []NeverAborts
  <1>1. CASE KeysFit
    <2>1. Init => KeyInv
      BY Names DEF Init, KeyInv
    <2>2. TypeOK /\ KeyInv /\ [Next]_vars => KeyInv'
      BY <1>1, NextKeyInv
    <2>3. KeyInv => NeverAborts
      BY DEF KeyInv, NeverAborts
    <2>. QED
      BY <2>1, <2>2, <2>3, TypeCorrect, PTL DEF Spec
  <1>2. CASE ~KeysFit
    <2>1. NeverAborts
      BY <1>2 DEF NeverAborts
    <2>. QED
      BY <2>1, PTL
  <1>. QED
    BY <1>1, <1>2

-----------------------------------------------------------------------------
(* Message msg is in slot i of machine m.                                  *)
IsAt(m, i, msg) == i \in Slots(m) /\ Slot(m, i) = msg /\ msg # Stop

(* What is on its way is what the producer sent, numbers kept: each number *)
(* in one place, or counted by one machine.                                *)
FlightInv ==
  /\ \A m \in Machines, i \in Nat, msg \in Message :
       IsAt(m, i, msg) => msg.source = 1 /\ msg.number < sent
  /\ \A k, m \in Machines, i, j \in Nat, a, b \in Message :
       IsAt(k, i, a) /\ IsAt(m, j, b) /\ a.number = b.number => k = m /\ i = j
  /\ \A m \in Machines, i \in Nat, msg \in Message, k \in RegisteredKeys :
       IsAt(m, i, msg) => msg.number \notin counted[k]

CountInv ==
  /\ \A m \in RegisteredKeys : \A n \in counted[m] : n < sent
  /\ \A k, m \in RegisteredKeys : k # m => counted[k] \cap counted[m] = {}
  /\ \A n \in 0..sent - 1 :
       \/ \E m \in Machines, i \in Nat, msg \in Message : IsAt(m, i, msg) /\ msg.number = n
       \/ \E m \in RegisteredKeys : n \in counted[m]
  /\ \A c \in Consumers : received[c] = Cardinality(counted[c])
  /\ lost = Cardinality(counted[Assembler])

(* What a message stands behind in the queue it is in.                     *)
LEMMA SlotFacts ==
  ASSUME TypeOK, NEW m \in Machines
  PROVE  /\ queue[m] \in Seq(Message) /\ Len(queue[m]) \in Nat
         /\ \A i \in Nat : i \in Slots(m) <=> i <= Len(queue[m])
         /\ \A i \in Slots(m) : i \in Nat /\ Slot(m, i) \in Message
         /\ Slot(m, 0) = held[m]
         /\ \A i \in Nat : i # 0 => Slot(m, i) = queue[m][i]
  <1>1. queue[m] \in Seq(Message) /\ Len(queue[m]) \in Nat /\ held[m] \in Message
    BY LenProperties DEF TypeOK
  <1>2. \A i \in Nat : i \in Slots(m) <=> i <= Len(queue[m])
    BY <1>1 DEF Slots
  <1>3. \A i \in Slots(m) : i \in Nat /\ Slot(m, i) \in Message
    BY <1>1, ElementOfSeq DEF Slots, Slot
  <1>. QED
    BY <1>1, <1>2, <1>3 DEF Slot

(* The machines in a set give away what they hold.                         *)
Releases(S) == \A k \in Machines : held'[k] = IF k \in S THEN Stop ELSE held[k]

(* A message that is put is in the last slot, and what the machines in     *)
(* released held is nowhere else.                                          *)
LEMMA PutMoves ==
  ASSUME TypeOK, NEW m \in Machines, NEW msg \in Message, Put(m, msg),
         NEW released, Releases(released)
  PROVE  \A k \in Machines, i \in Nat, a \in Message :
           IsAt(k, i, a)' <=> \/ IsAt(k, i, a) /\ ~(i = 0 /\ k \in released)
                              \/ k = m /\ i = Len(queue[m]) + 1 /\ a = msg /\ msg # Stop
  <1> TAKE k \in Machines, i \in Nat, a \in Message
  <1>1. /\ queue'[m] = Append(queue[m], msg)
        /\ k # m => queue'[k] = queue[k]
        /\ queue[k] \in Seq(Message) /\ queue[m] \in Seq(Message)
    BY PutEffect DEF TypeOK
  <1>2. CASE i = 0
    BY <1>1, <1>2, LenProperties, AppendProperties DEF IsAt, Slots, Slot, Releases
  <1>3. CASE i # 0 /\ k # m
    BY <1>1, <1>3 DEF IsAt, Slots, Slot
  <1>4. CASE i # 0 /\ k = m
    <2>1. /\ Len(queue[m]) \in Nat /\ Len(queue'[m]) = Len(queue[m]) + 1
          /\ queue'[m][Len(queue[m]) + 1] = msg
          /\ i \in 1..Len(queue[m]) => queue'[m][i] = queue[m][i]
      BY <1>1, LenProperties, AppendProperties
    <2>. QED
      BY <1>4, <2>1 DEF IsAt, Slots, Slot
  <1>. QED
    BY <1>2, <1>3, <1>4

(* The head of a queue comes into the machine's hands, if it is not the    *)
(* stop message, and the others move up.                                   *)
LEMMA TakeMoves ==
  ASSUME TypeOK, NEW m \in Machines, Dequeue(m)
  PROVE  \A k \in Machines, i \in Nat, a \in Message :
           IsAt(k, i, a)' <=> IF k = m THEN IsAt(m, i + 1, a) ELSE IsAt(k, i, a)
  <1> TAKE k \in Machines, i \in Nat, a \in Message
  <1>1. /\ queue[m] # <<>> /\ queue[m] \in Seq(Message) /\ Take(m)
        /\ held[m] = Stop /\ Stop \in Message
    BY GotoEffect, Names DEF Dequeue, DequeueStop, DequeueMessage, TypeOK
  <1>2. /\ queue'[m] = Tail(queue[m])
        /\ k # m => queue'[k] = queue[k]
    BY <1>1, TakeEffect DEF TypeOK
  <1>3. /\ held'[m] = Head(queue[m])
        /\ k # m => held'[k] = held[k]
    BY <1>1, Names DEF Dequeue, DequeueStop, DequeueMessage, TypeOK
  <1>4. CASE k # m
    BY <1>2, <1>3, <1>4 DEF IsAt, Slots, Slot
  <1>5. CASE k = m
    <2>1. /\ Len(queue[m]) \in Nat \ {0} /\ Len(queue'[m]) = Len(queue[m]) - 1
          /\ Head(queue[m]) = queue[m][1]
          /\ i \in 1..Len(queue'[m]) => queue'[m][i] = queue[m][i + 1]
      BY <1>1, <1>2, EmptySeq, HeadTailProperties
    <2>2. CASE i = 0
      BY <1>3, <1>5, <2>1, <2>2 DEF IsAt, Slots, Slot
    <2>3. CASE i # 0
      BY <1>5, <2>1, <2>3 DEF IsAt, Slots, Slot
    <2>. QED
      BY <2>2, <2>3
  <1>. QED
    BY <1>4, <1>5

(* A message that is counted is in nobody's hands.                         *)
LEMMA ReleaseMoves ==
  ASSUME TypeOK, NEW m \in Machines, queue' = queue, Release(m)
  PROVE  \A k \in Machines, i \in Nat, a \in Message :
           IsAt(k, i, a)' <=> IsAt(k, i, a) /\ ~(k = m /\ i = 0)
  BY Names DEF IsAt, Slots, Slot, Release, TypeOK

(* What a message carries.                                                 *)
LEMMA MessageFields ==
  /\ \A a \in Message : a.number \in Nat /\ a.source \in 0..1 /\ a.target \in Targets
  /\ Stop \in Message /\ Stop.source = 0 /\ Stop.target = 0
  BY Names DEF Message, Stop

(* Nothing that is on its way moves.                                       *)
LEMMA StillFlight ==
  ASSUME FlightInv, CountInv, UNCHANGED <<sent, received, lost, counted>>,
         \A k \in Machines, i \in Nat, a \in Message : IsAt(k, i, a)' <=> IsAt(k, i, a)
  PROVE  FlightInv' /\ CountInv'
  <1>1. FlightInv'
    BY DEF FlightInv
  <1>2. CountInv'
    BY DEF CountInv
  <1>. QED
    BY <1>1, <1>2

(* A queue moves up by one.                                                *)
LEMMA DequeueFlight ==
  ASSUME TypeOK, FlightInv, CountInv, NEW m \in Machines, Dequeue(m)
  PROVE  FlightInv' /\ CountInv'
  <1>1. UNCHANGED <<sent, received, lost, counted>>
    BY DEF Dequeue, DequeueStop, DequeueMessage
  <1>2. \A k \in Machines, i \in Nat, a \in Message :
           IsAt(k, i, a)' <=> IF k = m THEN IsAt(m, i + 1, a) ELSE IsAt(k, i, a)
    BY TakeMoves
  <1>3. FlightInv'
    <2>1. ASSUME NEW k \in Machines, NEW i \in Nat, NEW a \in Message, IsAt(k, i, a)'
          PROVE  /\ a.source = 1 /\ a.number < sent'
                 /\ \A l \in RegisteredKeys : a.number \notin counted'[l]
      BY <1>1, <1>2, <2>1 DEF FlightInv
    <2>2. ASSUME NEW k \in Machines, NEW l \in Machines, NEW i \in Nat, NEW j \in Nat,
                 NEW a \in Message, NEW b \in Message,
                 IsAt(k, i, a)', IsAt(l, j, b)', a.number = b.number
          PROVE  k = l /\ i = j
      BY <1>2, <2>2 DEF FlightInv
    <2>. QED
      BY <2>1, <2>2 DEF FlightInv
  <1>4. ASSUME NEW k \in Machines, NEW i \in Nat, NEW a \in Message, IsAt(k, i, a)
        PROVE  \E j \in Nat : IsAt(k, j, a)'
    <2>1. CASE k # m
      BY <2>1, <1>2, <1>4
    <2>2. CASE k = m
      <3>1. held[m] = Stop
        BY GotoEffect, Names DEF Dequeue, DequeueStop, DequeueMessage, TypeOK
      <3>2. i # 0
        BY <1>4, <2>2, <3>1 DEF IsAt, Slot
      <3>3. i - 1 \in Nat /\ (i - 1) + 1 = i
        BY <3>2
      <3>. QED
        BY <3>3, <2>2, <1>2, <1>4
    <2>. QED
      BY <2>1, <2>2
  <1>5. CountInv'
    <2>1. ASSUME NEW n \in 0..sent' - 1
          PROVE  \/ \E k \in Machines, i \in Nat, a \in Message : IsAt(k, i, a)' /\ a.number = n
                 \/ \E k \in RegisteredKeys : n \in counted'[k]
      BY <1>1, <1>4, <2>1 DEF CountInv
    <2>. QED
      BY <1>1, <2>1 DEF CountInv
  <1>. QED
    BY <1>3, <1>5

(* A machine passes on what it holds, perhaps with another target.         *)
LEMMA PassFlight ==
  ASSUME TypeOK, FlightInv, CountInv, UNCHANGED <<sent, received, lost, counted>>,
         NEW h \in Machines, held[h] # Stop, Release(h),
         NEW m \in Machines, NEW msg \in Message, Put(m, msg),
         msg.number = held[h].number, msg.source = held[h].source
  PROVE  FlightInv' /\ CountInv'
  <1>1. IsAt(h, 0, held[h]) /\ held[h] \in Message
    BY SlotFacts DEF IsAt, TypeOK
  <1>2. msg.source = 1 /\ msg # Stop
    BY <1>1, MessageFields DEF FlightInv
  <1>a. Releases({h})
    BY DEF Release, TypeOK, Releases
  <1>4. PICK last \in Nat : last = Len(queue[m]) + 1
    BY SlotFacts
  <1>3. \A k \in Machines, i \in Nat, a \in Message :
           IsAt(k, i, a)' <=> \/ IsAt(k, i, a) /\ ~(i = 0 /\ k = h)
                              \/ k = m /\ i = last /\ a = msg
    BY <1>2, <1>4, <1>a, PutMoves
  <1>5. FlightInv'
    <2>1. ASSUME NEW k \in Machines, NEW i \in Nat, NEW a \in Message, IsAt(k, i, a)'
          PROVE  /\ a.source = 1 /\ a.number < sent'
                 /\ \A l \in RegisteredKeys : a.number \notin counted'[l]
      BY <1>1, <1>2, <1>3, <2>1 DEF FlightInv
    <2>2. ASSUME NEW k \in Machines, NEW l \in Machines, NEW i \in Nat, NEW j \in Nat,
                 NEW a \in Message, NEW b \in Message,
                 IsAt(k, i, a)', IsAt(l, j, b)', a.number = b.number
          PROVE  k = l /\ i = j
      BY <1>1, <1>3, <2>2 DEF FlightInv
    <2>. QED
      BY <2>1, <2>2 DEF FlightInv
  <1>6. ASSUME NEW k \in Machines, NEW i \in Nat, NEW a \in Message, IsAt(k, i, a)
        PROVE  \E l \in Machines, j \in Nat, b \in Message : IsAt(l, j, b)' /\ b.number = a.number
    <2>1. CASE i = 0 /\ k = h
      <3>1. a = held[h]
        BY <1>6, <2>1 DEF IsAt, Slot
      <3>2. IsAt(m, last, msg)'
        BY <1>3, <1>4
      <3>. QED
        BY <3>1, <3>2, <1>4
    <2>2. CASE ~(i = 0 /\ k = h)
      BY <1>3, <1>6, <2>2
    <2>. QED
      BY <2>1, <2>2
  <1>7. CountInv'
    <2>1. ASSUME NEW n \in 0..sent' - 1
          PROVE  \/ \E k \in Machines, i \in Nat, a \in Message : IsAt(k, i, a)' /\ a.number = n
                 \/ \E k \in RegisteredKeys : n \in counted'[k]
      BY <1>6, <2>1 DEF CountInv
    <2>. QED
      BY <2>1 DEF CountInv
  <1>. QED
    BY <1>5, <1>7

(* The producer puts the next number in the dispatcher's queue.            *)
LEMMA ProduceFlight ==
  ASSUME TypeOK, FlightInv, CountInv, Produce
  PROVE  FlightInv' /\ CountInv'
  <1>1. PICK target \in DrawnTargets :
          Put(Dispatcher, [target |-> target % TargetSpace, source |-> 1, number |-> sent])
    BY DEF Produce
  <1>2. PICK msg \in Message : /\ msg.number = sent /\ msg.source = 1 /\ msg # Stop
                               /\ Put(Dispatcher, msg)
    BY <1>1, StoredTarget, MessageFields DEF Message, DrawnTargets, TypeOK
  <1>3. /\ sent' = sent + 1 /\ sent \in Nat
        /\ UNCHANGED <<held, received, lost, counted>>
    BY DEF Produce, TypeOK
  <1>a. Put(Dispatcher, msg) /\ Releases({})
    BY <1>2, <1>3 DEF Releases
  <1>5. PICK last \in Nat : last = Len(queue[Dispatcher]) + 1
    BY SlotFacts, Names
  <1>4. \A k \in Machines, i \in Nat, a \in Message :
           IsAt(k, i, a)' <=> \/ IsAt(k, i, a)
                              \/ k = Dispatcher /\ i = last /\ a = msg
    BY <1>2, <1>5, <1>a, PutMoves, Names
  <1>6. FlightInv'
    <2>1. ASSUME NEW k \in Machines, NEW i \in Nat, NEW a \in Message, IsAt(k, i, a)'
          PROVE  /\ a.source = 1 /\ a.number < sent'
                 /\ \A l \in RegisteredKeys : a.number \notin counted'[l]
      <3>1. CASE IsAt(k, i, a)
        BY <1>3, <3>1, MessageFields DEF FlightInv
      <3>2. CASE a = msg
        BY <1>2, <1>3, <3>2 DEF CountInv
      <3>. QED
        BY <1>4, <2>1, <3>1, <3>2
    <2>2. ASSUME NEW k \in Machines, NEW l \in Machines, NEW i \in Nat, NEW j \in Nat,
                 NEW a \in Message, NEW b \in Message,
                 IsAt(k, i, a)', IsAt(l, j, b)', a.number = b.number
          PROVE  k = l /\ i = j
      <3>1. ASSUME NEW n \in Machines, NEW o \in Nat, NEW x \in Message, IsAt(n, o, x)
            PROVE  x.number # sent
        BY <1>3, <3>1, MessageFields DEF FlightInv
      <3>. QED
        BY <1>2, <1>4, <2>2, <3>1 DEF FlightInv
    <2>. QED
      BY <2>1, <2>2 DEF FlightInv
  <1>7. CountInv'
    <2>1. ASSUME NEW n \in 0..sent' - 1
          PROVE  \/ \E k \in Machines, i \in Nat, a \in Message : IsAt(k, i, a)' /\ a.number = n
                 \/ \E k \in RegisteredKeys : n \in counted'[k]
      <3>1. CASE n = sent
        <4>1. IsAt(Dispatcher, last, msg)'
          BY <1>2, <1>4, <1>5, Names
        <4>. QED
          BY <3>1, <4>1, <1>2, <1>5, Names
      <3>2. CASE n \in 0..sent - 1
        BY <1>3, <1>4, <3>2 DEF CountInv
      <3>. QED
        BY <1>3, <3>1, <3>2
    <2>2. ASSUME NEW k \in RegisteredKeys, NEW n \in counted'[k]
          PROVE  n < sent'
      BY <1>3, <2>2 DEF CountInv, TypeOK
    <2>. QED
      BY <1>3, <2>1, <2>2 DEF CountInv
  <1>. QED
    BY <1>6, <1>7

(* A consumer or the assembler counts what it holds.                       *)
LEMMA CountFlight ==
  ASSUME TypeOK, FlightInv, CountInv,
         NEW m \in RegisteredKeys, held[m] # Stop, Release(m), Counts(m),
         UNCHANGED <<queue, sent>>,
         \A c \in Consumers : received'[c] = IF c = m THEN received[c] + 1 ELSE received[c],
         lost' = IF m = Assembler THEN lost + 1 ELSE lost
  PROVE  FlightInv' /\ CountInv'
  <1>1. m \in Machines /\ held[m] \in Message /\ IsAt(m, 0, held[m])
    BY Names, SlotFacts DEF IsAt, TypeOK
  <1>2. /\ counted'[m] = counted[m] \cup {held[m].number}
        /\ \A k \in RegisteredKeys \ {m} : counted'[k] = counted[k]
    BY CountsEffect
  <1>3. PICK n \in Nat : n = held[m].number
    BY <1>1, MessageFields
  <1>4. n < sent /\ \A k \in RegisteredKeys : n \notin counted[k]
    BY <1>1, <1>3 DEF FlightInv
  <1>5. \A k \in Machines, i \in Nat, a \in Message :
          IsAt(k, i, a)' <=> IsAt(k, i, a) /\ ~(k = m /\ i = 0)
    BY <1>1, ReleaseMoves
  <1>6. FlightInv'
    <2>1. ASSUME NEW k \in Machines, NEW i \in Nat, NEW a \in Message, IsAt(k, i, a)'
          PROVE  /\ a.source = 1 /\ a.number < sent'
                 /\ \A l \in RegisteredKeys : a.number \notin counted'[l]
      <3>1. IsAt(k, i, a) /\ ~(k = m /\ i = 0)
        BY <1>5, <2>1
      <3>2. a.number # n
        BY <3>1, <1>1, <1>3 DEF FlightInv
      <3>. QED
        BY <3>1, <3>2, <1>2, <1>3 DEF FlightInv
    <2>2. ASSUME NEW k \in Machines, NEW l \in Machines, NEW i \in Nat, NEW j \in Nat,
                 NEW a \in Message, NEW b \in Message,
                 IsAt(k, i, a)', IsAt(l, j, b)', a.number = b.number
          PROVE  k = l /\ i = j
      BY <1>5, <2>2 DEF FlightInv
    <2>. QED
      BY <2>1, <2>2 DEF FlightInv
  <1>7. ASSUME NEW o \in 0..sent' - 1
        PROVE  \/ \E k \in Machines, i \in Nat, a \in Message : IsAt(k, i, a)' /\ a.number = o
               \/ \E k \in RegisteredKeys : o \in counted'[k]
    <2>1. CASE o = n
      BY <2>1, <1>2, <1>3
    <2>2. CASE o # n
      <3>1. CASE \E k \in RegisteredKeys : o \in counted[k]
        BY <3>1, <1>2
      <3>2. CASE \E k \in Machines, i \in Nat, a \in Message : IsAt(k, i, a) /\ a.number = o
        <4>1. PICK k \in Machines, i \in Nat, a \in Message : IsAt(k, i, a) /\ a.number = o
          BY <3>2
        <4>2. ~(k = m /\ i = 0)
          BY <4>1, <2>2, <1>3 DEF IsAt, Slot
        <4>. QED
          BY <4>1, <4>2, <1>5
      <3>. QED
        BY <3>1, <3>2, <1>7 DEF CountInv
    <2>. QED
      BY <2>1, <2>2
  <1>8. Cardinality(counted'[m]) = Cardinality(counted[m]) + 1
    <2>1. counted[m] \subseteq 0..sent - 1
      BY DEF CountInv, TypeOK
    <2>2. IsFiniteSet(counted[m])
      <3>1. IsFiniteSet(0..sent - 1)
        BY FS_Interval DEF TypeOK
      <3>. QED
        BY <2>1, <3>1, FS_Subset
    <2>3. counted'[m] = counted[m] \cup {held[m].number}
      BY <1>2
    <2>4. held[m].number \notin counted[m]
      BY <1>3, <1>4
    <2>5. Cardinality(counted[m] \cup {held[m].number}) = Cardinality(counted[m]) + 1
      BY <2>2, <2>4, FS_AddElement
    <2>. QED
      BY <2>3, <2>5
  <1>9. ASSUME NEW c \in Consumers PROVE received'[c] = Cardinality(counted'[c])
    <2>1. received[c] = Cardinality(counted[c]) /\ c \in RegisteredKeys
      BY Names DEF CountInv
    <2>2. CASE c = m
      BY <2>1, <2>2, <1>8
    <2>3. CASE c # m
      BY <2>1, <2>3, <1>2
    <2>. QED
      BY <2>2, <2>3
  <1>10. lost' = Cardinality(counted'[Assembler])
    BY <1>2, <1>8, Names DEF CountInv
  <1>11. /\ \A k \in RegisteredKeys : \A o \in counted'[k] : o < sent'
         /\ \A k, l \in RegisteredKeys : k # l => counted'[k] \cap counted'[l] = {}
    BY <1>2, <1>3, <1>4 DEF CountInv
  <1>. QED
    BY <1>6, <1>7, <1>9, <1>10, <1>11 DEF CountInv

(* A machine that is busy holds a message.                                 *)
BusyInv == \A m \in Machines : state[m] = "busy" => held[m] # Stop

LEMMA NextBusyInv == TypeOK /\ BusyInv /\ [Next]_vars => BusyInv'
  <1> SUFFICES ASSUME TypeOK, BusyInv, [Next]_vars PROVE BusyInv'
    OBVIOUS
  <1>1. CASE UNCHANGED vars
    BY <1>1 DEF vars, BusyInv
  <1>2. ASSUME NEW t \in Threads, NEW to \in {"running", "stopping", "done"}, NEW from,
               Goto(t, from, to),
               \A k \in Machines \ {t} : held'[k] = held[k]
        PROVE  BusyInv'
    BY <1>2, GotoEffect, Names DEF BusyInv
  <1>3. ASSUME NEW m \in Machines, DequeueMessage(m) PROVE BusyInv'
    <2>1. state'[m] = "busy" /\ \A k \in Machines \ {m} : state'[k] = state[k]
      BY <1>3, GotoEffect, Names DEF DequeueMessage
    <2>2. held'[m] # Stop /\ \A k \in Machines \ {m} : held'[k] = held[k]
      BY <1>3 DEF DequeueMessage, TypeOK
    <2>. QED
      BY <2>1, <2>2 DEF BusyInv
  <1>4. ASSUME NEW m \in Machines, DequeueStop(m) PROVE BusyInv'
    BY <1>2, <1>4, Names DEF DequeueStop
  <1>5. CASE ProducerStep
    BY <1>2, <1>5, Names DEF ProducerStep, Produce, ProduceStop
  <1>6. CASE Redirect \/ ThrowKeyNotFound \/ PropagateStop \/ PropagateEnd
    BY <1>2, <1>6, Names DEF Redirect, ThrowKeyNotFound, PropagateStop, PropagateEnd, Release, TypeOK
  <1>7. ASSUME NEW c \in Consumers, Consume(c) PROVE BusyInv'
    BY <1>2, <1>7, Names DEF Consume, Release, TypeOK
  <1>8. CASE AssembleLose \/ AssembleForward
    BY <1>2, <1>8, Names DEF AssembleLose, AssembleForward, Release, TypeOK
  <1>9. CASE StartThread
    <2>1. nextStart \in Threads
      BY <1>9 DEF StartThread, TypeOK, Threads
    <2>. QED
      BY <1>2, <1>9, <2>1 DEF StartThread
  <1>10. CASE JoinThread
    <2>1. nextJoin \in Threads
      BY <1>10 DEF JoinThread, TypeOK, Threads
    <2>. QED
      BY <1>2, <1>10, <2>1 DEF JoinThread
  <1>. QED
    BY <1>1, <1>3, <1>4, <1>5, <1>6, <1>7, <1>8, <1>9, <1>10, Names
    DEF Next, MainStep, DispatcherStep, Dispatch, ConsumerStep, AssemblerStep, Dequeue

(* A message that gets another target is otherwise the same.               *)
LEMMA Readdressed ==
  ASSUME NEW a \in Message, NEW t \in Targets
  PROVE  /\ [a EXCEPT !.target = t] \in Message
         /\ [a EXCEPT !.target = t].target = t
         /\ [a EXCEPT !.target = t].number = a.number
         /\ [a EXCEPT !.target = t].source = a.source
  BY DEF Message

(* Every step keeps the flight.                                            *)
LEMMA NextFlight ==
  TypeOK /\ BusyInv /\ FlightInv /\ CountInv /\ [Next]_vars => FlightInv' /\ CountInv'
  <1> SUFFICES ASSUME TypeOK, BusyInv, FlightInv, CountInv, [Next]_vars
               PROVE  FlightInv' /\ CountInv'
    OBVIOUS
  <1>1. ASSUME UNCHANGED <<queue, held, sent, received, lost, counted>>
        PROVE  FlightInv' /\ CountInv'
    <2>1. \A k \in Machines, i \in Nat, a \in Message : IsAt(k, i, a)' <=> IsAt(k, i, a)
      BY <1>1 DEF IsAt, Slots, Slot
    <2>. QED
      BY <1>1, <2>1, StillFlight
  <1>2. ASSUME NEW m \in Machines, Put(m, Stop), UNCHANGED <<held, sent, received, lost, counted>>
        PROVE  FlightInv' /\ CountInv'
    <2>1. Releases({})
      BY <1>2 DEF Releases
    <2>2. \A k \in Machines, i \in Nat, a \in Message : IsAt(k, i, a)' <=> IsAt(k, i, a)
      BY <1>2, <2>1, PutMoves, Names
    <2>. QED
      BY <1>2, <2>2, StillFlight
  <1>3. CASE Redirect /\ held[Dispatcher].target \in RegisteredKeys
    <2>1. held[Dispatcher] # Stop /\ held[Dispatcher] \in Message
      BY <1>3, GotoEffect, Names DEF Redirect, BusyInv, TypeOK
    <2>. QED
      BY <1>3, <2>1, PassFlight, Names DEF Redirect
  <1>4. CASE AssembleForward
    <2>1. held[Assembler] # Stop /\ held[Assembler] \in Message
      BY <1>4, GotoEffect, Names DEF AssembleForward, BusyInv, TypeOK
    <2>2. PICK target \in ReassignedTargets :
            Put(Dispatcher, [held[Assembler] EXCEPT !.target = target % TargetSpace])
      BY <1>4 DEF AssembleForward
    <2>3. PICK msg \in Message : /\ msg = [held[Assembler] EXCEPT !.target = target % TargetSpace]
                                 /\ msg.number = held[Assembler].number
                                 /\ msg.source = held[Assembler].source
      <3>1. target % TargetSpace \in Targets
        BY StoredTarget DEF ReassignedTargets
      <3>. QED
        BY <2>1, <3>1, Readdressed
    <2>. QED
      BY <1>4, <2>1, <2>2, <2>3, PassFlight, Names DEF AssembleForward
  <1>5. ASSUME NEW c \in Consumers, Consume(c) PROVE FlightInv' /\ CountInv'
    <2>1. held[c] # Stop
      BY <1>5, GotoEffect, Names DEF Consume, BusyInv
    <2>2. /\ \A k \in Consumers : received'[k] = IF k = c THEN received[k] + 1 ELSE received[k]
          /\ lost' = IF c = Assembler THEN lost + 1 ELSE lost
      BY <1>5, ArgumentsAssumption DEF Consume, TypeOK, Consumers, Assembler
    <2>. QED
      BY <1>5, <2>1, <2>2, CountFlight, Names DEF Consume
  <1>6. CASE AssembleLose
    <2>1. held[Assembler] # Stop
      BY <1>6, GotoEffect, Names DEF AssembleLose, BusyInv
    <2>2. /\ \A k \in Consumers : received'[k] = IF k = Assembler THEN received[k] + 1 ELSE received[k]
          /\ lost' = IF Assembler = Assembler THEN lost + 1 ELSE lost
      BY <1>6, ArgumentsAssumption DEF AssembleLose, TypeOK, Consumers, Assembler
    <2>. QED
      BY <1>6, <2>1, <2>2, CountFlight, Names DEF AssembleLose
  <1>7. CASE ProduceStop
    BY <1>2, <1>7, Names DEF ProduceStop
  <1>8. CASE PropagateStop
    <2>1. nextStop \in Machines
      BY <1>8, ArgumentsAssumption DEF PropagateStop, TypeOK, Machines, Dispatcher, Assembler
    <2>. QED
      BY <1>2, <1>8, <2>1 DEF PropagateStop
  <1>9. CASE MainStep \/ ThrowKeyNotFound \/ PropagateEnd \/ UNCHANGED vars
    BY <1>1, <1>9 DEF MainStep, StartThread, JoinThread, ThrowKeyNotFound, PropagateEnd, vars
  <1>. QED
    BY <1>3, <1>4, <1>5, <1>6, <1>7, <1>8, <1>9, ProduceFlight, DequeueFlight, Names
    DEF Next, ProducerStep, DispatcherStep, Dispatch, ConsumerStep, AssemblerStep

(* At first nothing is on its way.                                         *)
LEMMA InitFlight ==
  ASSUME Init
  PROVE  /\ BusyInv /\ FlightInv /\ CountInv
         /\ \A m \in Machines, i \in Nat, a \in Message : ~IsAt(m, i, a)
  <1>1. \A m \in Machines, i \in Nat, a \in Message : ~IsAt(m, i, a)
    BY EmptySeq DEF Init, IsAt, Slots, Slot
  <1>2. BusyInv
    BY Names DEF Init, BusyInv
  <1>3. FlightInv /\ CountInv
    BY <1>1, FS_EmptySet, Names DEF Init, FlightInv, CountInv
  <1>. QED
    BY <1>1, <1>2, <1>3

(* Every message the producer sent is in one place or counted once.        *)
THEOREM Conserved == Spec => []Conservation
  <1>1. TypeOK /\ FlightInv /\ CountInv => Conservation
    <2> SUFFICES ASSUME TypeOK, FlightInv, CountInv PROVE Conservation
      OBVIOUS
    <2>1. ASSUME NEW s \in InFlight
          PROVE  \E m \in Machines, i \in Nat, a \in Message :
                   s = <<m, i>> /\ IsAt(m, i, a) /\ NumberAt(s) = a.number
      BY <2>1, SlotFacts DEF InFlight, IsAt, NumberAt
    <2>2. ASSUME NEW m \in Machines, NEW i \in Nat, NEW a \in Message, IsAt(m, i, a)
          PROVE  <<m, i>> \in InFlight /\ NumberAt(<<m, i>>) = a.number
      BY <2>2 DEF InFlight, IsAt, NumberAt
    <2>3. \A s, t \in InFlight : NumberAt(s) = NumberAt(t) => s = t
      BY <2>1 DEF FlightInv
    <2>4. \A s \in InFlight, m \in RegisteredKeys : NumberAt(s) \notin counted[m]
      BY <2>1 DEF FlightInv
    <2>5. {NumberAt(s) : s \in InFlight} \cup UNION {counted[m] : m \in RegisteredKeys} \subseteq 0..sent - 1
      <3>1. ASSUME NEW s \in InFlight PROVE NumberAt(s) \in 0..sent - 1
        BY <2>1, MessageFields DEF FlightInv, TypeOK
      <3>2. ASSUME NEW m \in RegisteredKeys, NEW n \in counted[m] PROVE n \in 0..sent - 1
        BY DEF CountInv, TypeOK
      <3>. QED
        BY <3>1, <3>2
    <2>6. 0..sent - 1 \subseteq {NumberAt(s) : s \in InFlight} \cup UNION {counted[m] : m \in RegisteredKeys}
      <3> SUFFICES ASSUME NEW n \in 0..sent - 1
                   PROVE  n \in {NumberAt(s) : s \in InFlight} \cup UNION {counted[m] : m \in RegisteredKeys}
        OBVIOUS
      <3>1. CASE \E m \in Machines, i \in Nat, a \in Message : IsAt(m, i, a) /\ a.number = n
        BY <3>1, <2>2
      <3>2. CASE \E m \in RegisteredKeys : n \in counted[m]
        BY <3>2
      <3>. QED
        BY <3>1, <3>2 DEF CountInv
    <2>7. received = [c \in Consumers |-> Cardinality(counted[c])]
      BY DEF CountInv, TypeOK
    <2>. QED
      BY <2>3, <2>4, <2>5, <2>6, <2>7 DEF Conservation, CountInv
  <1>. QED
    BY <1>1, InitFlight, NextBusyInv, NextFlight, TypeCorrect, PTL DEF Spec

-----------------------------------------------------------------------------
(* F are the numbers of the messages the assembler has forwarded.  A       *)
(* message is older than those of its kind that stand behind it in its     *)
(* queue or are still with the dispatcher; a forwarded one is older than   *)
(* what the assembler has and than what comes to the dispatcher from the   *)
(* producer, and it does not go to the assembler again.                    *)
SameKind(a, b, F) == a.number \in F <=> b.number \in F
InOrder(F) ==
  /\ \A n \in F : n < sent
  /\ \A k, m \in Machines, i, j \in Nat, a, b \in Message :
       IsAt(k, i, a) /\ IsAt(m, j, b) =>
         /\ k = m /\ i < j /\ SameKind(a, b, F) => a.number < b.number
         /\ k # Dispatcher /\ m = Dispatcher /\ SameKind(a, b, F) => a.number < b.number
         /\ a.number \in F /\ m = Assembler => a.number < b.number
         /\ a.number \in F /\ m = Dispatcher /\ b.number \notin F => a.number < b.number
  /\ \A i \in Nat, a \in Message :
       IsAt(Dispatcher, i, a) /\ a.number \in F => a.target # Assembler
StreamsInv == \E F \in SUBSET Nat : InOrder(F)

(* The messages that were there keep their order when none arrives and the *)
(* order of slots is kept.                                                 *)
LEMMA DequeueInOrder ==
  ASSUME TypeOK, StreamsInv, NEW m \in Machines, Dequeue(m)
  PROVE  StreamsInv'
  <1>1. PICK F \in SUBSET Nat : InOrder(F)
    BY DEF StreamsInv
  <1>2. sent' = sent
    BY DEF Dequeue, DequeueStop, DequeueMessage
  <1>3. \A k \in Machines, i \in Nat, a \in Message :
           IsAt(k, i, a)' <=> IF k = m THEN IsAt(m, i + 1, a) ELSE IsAt(k, i, a)
    BY TakeMoves
  <1>4. ASSUME NEW k \in Machines, NEW i \in Nat, NEW a \in Message, IsAt(k, i, a)'
        PROVE  \E o \in Nat : IsAt(k, o, a) /\ o = IF k = m THEN i + 1 ELSE i
    BY <1>3, <1>4
  <1>5. ASSUME NEW k \in Machines, NEW l \in Machines, NEW i \in Nat, NEW j \in Nat,
               NEW a \in Message, NEW b \in Message, IsAt(k, i, a)', IsAt(l, j, b)'
        PROVE  /\ k = l /\ i < j /\ SameKind(a, b, F) => a.number < b.number
               /\ k # Dispatcher /\ l = Dispatcher /\ SameKind(a, b, F) => a.number < b.number
               /\ a.number \in F /\ l = Assembler => a.number < b.number
               /\ a.number \in F /\ l = Dispatcher /\ b.number \notin F => a.number < b.number
    <2>1. PICK o \in Nat : IsAt(k, o, a) /\ o = IF k = m THEN i + 1 ELSE i
      BY <1>4, <1>5
    <2>2. PICK p \in Nat : IsAt(l, p, b) /\ p = IF l = m THEN j + 1 ELSE j
      BY <1>4, <1>5
    <2>3. k = l /\ i < j => o < p
      BY <2>1, <2>2
    <2>. QED
      BY <1>1, <2>1, <2>2, <2>3 DEF InOrder
  <1>6. ASSUME NEW i \in Nat, NEW a \in Message, IsAt(Dispatcher, i, a)', a.number \in F
        PROVE  a.target # Assembler
    BY <1>1, <1>4, <1>6, Names DEF InOrder
  <1>7. InOrder(F)'
    BY <1>1, <1>2, <1>5, <1>6 DEF InOrder
  <1>. QED
    BY <1>7 DEF StreamsInv

(* A message that is gone disturbs no order.                               *)
LEMMA FewerInOrder ==
  ASSUME StreamsInv, sent' = sent,
         \A k \in Machines, i \in Nat, a \in Message : IsAt(k, i, a)' => IsAt(k, i, a)
  PROVE  StreamsInv'
  <1>1. PICK F \in SUBSET Nat : InOrder(F)
    BY DEF StreamsInv
  <1>2. InOrder(F)'
    <2>1. \A k, m \in Machines, i, j \in Nat, a, b \in Message :
            IsAt(k, i, a)' /\ IsAt(m, j, b)' =>
              /\ k = m /\ i < j /\ SameKind(a, b, F) => a.number < b.number
              /\ k # Dispatcher /\ m = Dispatcher /\ SameKind(a, b, F) => a.number < b.number
              /\ a.number \in F /\ m = Assembler => a.number < b.number
              /\ a.number \in F /\ m = Dispatcher /\ b.number \notin F => a.number < b.number
      BY <1>1 DEF InOrder
    <2>2. \A i \in Nat, a \in Message :
            IsAt(Dispatcher, i, a)' /\ a.number \in F => a.target # Assembler
      BY <1>1, Names DEF InOrder
    <2>. QED
      BY <1>1, <2>1, <2>2 DEF InOrder
  <1>. QED
    BY <1>2 DEF StreamsInv

(* The dispatcher passes a message on: it is younger than what the queue   *)
(* has of its kind and older than what stays with the dispatcher.          *)
LEMMA RedirectInOrder ==
  ASSUME TypeOK, BusyInv, StreamsInv, Redirect, held[Dispatcher].target \in RegisteredKeys
  PROVE  StreamsInv'
  <1>1. PICK F \in SUBSET Nat : InOrder(F)
    BY DEF StreamsInv
  <1>2. PICK msg \in Message : msg = held[Dispatcher] /\ msg # Stop /\ IsAt(Dispatcher, 0, msg)
    BY SlotFacts, GotoEffect, Names DEF Redirect, BusyInv, TypeOK, IsAt
  <1>3. PICK key \in Machines : key = msg.target /\ key # Dispatcher
    BY <1>2, Names
  <1>4. PICK last \in Nat : last = Len(queue[key]) + 1 /\ \A i \in Nat, a \in Message : IsAt(key, i, a) => i < last
    BY SlotFacts DEF IsAt
  <1>5. \A k \in Machines, i \in Nat, a \in Message :
          IsAt(k, i, a)' <=> \/ IsAt(k, i, a) /\ ~(i = 0 /\ k = Dispatcher)
                             \/ k = key /\ i = last /\ a = msg
    <2>1. Releases({Dispatcher})
      BY DEF Redirect, Release, TypeOK, Releases
    <2>2. Put(key, msg)
      BY <1>2, <1>3 DEF Redirect
    <2>. QED
      BY <1>2, <1>4, <2>1, <2>2, PutMoves
  <1>6. msg.number \in F => key # Assembler
    BY <1>1, <1>2, <1>3 DEF InOrder
  <1>7. ASSUME NEW k \in Machines, NEW i \in Nat, NEW a \in Message,
               IsAt(k, i, a), ~(i = 0 /\ k = Dispatcher)
        PROVE  /\ k # Dispatcher /\ SameKind(a, msg, F) => a.number < msg.number
               /\ k = Dispatcher /\ SameKind(a, msg, F) => msg.number < a.number
               /\ msg.number \in F /\ k = Assembler => msg.number < a.number
               /\ msg.number \in F /\ k = Dispatcher /\ a.number \notin F => msg.number < a.number
               /\ a.number \in F /\ msg.number \notin F => a.number < msg.number
    BY <1>1, <1>2, <1>7, Names DEF InOrder, SameKind
  <1>8. ASSUME NEW k \in Machines, NEW l \in Machines, NEW i \in Nat, NEW j \in Nat,
               NEW a \in Message, NEW b \in Message, IsAt(k, i, a)', IsAt(l, j, b)'
        PROVE  /\ k = l /\ i < j /\ SameKind(a, b, F) => a.number < b.number
               /\ k # Dispatcher /\ l = Dispatcher /\ SameKind(a, b, F) => a.number < b.number
               /\ a.number \in F /\ l = Assembler => a.number < b.number
               /\ a.number \in F /\ l = Dispatcher /\ b.number \notin F => a.number < b.number
    <2>1. CASE k = key /\ i = last /\ a = msg /\ l = key /\ j = last /\ b = msg
      BY <1>3, <1>6, <2>1
    <2>2. CASE k = key /\ i = last /\ a = msg /\ IsAt(l, j, b) /\ ~(j = 0 /\ l = Dispatcher)
      <3>1. ~(k = l /\ i < j)
        BY <1>4, <2>2
      <3>. QED
        BY <1>3, <1>7, <2>2, <3>1 DEF SameKind
    <2>3. CASE IsAt(k, i, a) /\ ~(i = 0 /\ k = Dispatcher) /\ l = key /\ j = last /\ b = msg
      BY <1>3, <1>6, <1>7, <2>3
    <2>4. CASE IsAt(k, i, a) /\ IsAt(l, j, b)
      BY <1>1, <2>4 DEF InOrder
    <2>. QED
      BY <1>5, <1>8, <2>1, <2>2, <2>3, <2>4
  <1>9. \A i \in Nat, a \in Message :
          IsAt(Dispatcher, i, a)' /\ a.number \in F => a.target # Assembler
    BY <1>1, <1>3, <1>5, Names DEF InOrder
  <1>10. InOrder(F)'
    BY <1>1, <1>8, <1>9 DEF InOrder, Redirect
  <1>. QED
    BY <1>10 DEF StreamsInv

(* A number that is drawn again is not the assembler's.                    *)
LEMMA NotToAssembler ==
  ASSUME NEW t \in ReassignedTargets
  PROVE  t % TargetSpace \in Targets /\ t % TargetSpace # Assembler
  <1>1. t \in Nat /\ t < Assembler
    BY ArgumentsAssumption DEF ReassignedTargets, Assembler
  <1>2. t % TargetSpace \in Targets /\ (t < TargetSpace => t % TargetSpace = t)
    BY <1>1, StoredTarget
  <1>3. t % TargetSpace \in Nat /\ t % TargetSpace < TargetSpace
    BY <1>2, ArgumentsAssumption DEF Targets
  <1>. QED
    BY <1>1, <1>2, <1>3, ArgumentsAssumption DEF Assembler

(* What the assembler forwards is the youngest of the forwarded messages   *)
(* and older than what the producer's way still has.                       *)
LEMMA ForwardInOrder ==
  ASSUME TypeOK, BusyInv, FlightInv, StreamsInv, AssembleForward
  PROVE  StreamsInv'
  <1>1. PICK F \in SUBSET Nat : InOrder(F)
    BY DEF StreamsInv
  <1>2. PICK old \in Message : old = held[Assembler] /\ old # Stop /\ IsAt(Assembler, 0, old)
    BY SlotFacts, GotoEffect, Names DEF AssembleForward, BusyInv, TypeOK, IsAt
  <1>3. PICK msg \in Message : /\ msg.number = old.number /\ msg.target # Assembler
                               /\ msg # Stop /\ Put(Dispatcher, msg)
    <2>1. PICK target \in ReassignedTargets :
            Put(Dispatcher, [held[Assembler] EXCEPT !.target = target % TargetSpace])
      BY DEF AssembleForward
    <2>2. target % TargetSpace \in Targets /\ target % TargetSpace # Assembler
      BY NotToAssembler
    <2>3. old.source = 1
      BY <1>2, Names DEF FlightInv
    <2>4. PICK msg \in Message : /\ msg = [old EXCEPT !.target = target % TargetSpace]
                                 /\ msg.target = target % TargetSpace
                                 /\ msg.number = old.number /\ msg.source = old.source
      BY <2>2, Readdressed
    <2>5. msg # Stop
      <3>1. msg.source = old.source
        BY <2>4
      <3>2. Stop.source = 0
        BY MessageFields
      <3>. QED
        BY <2>3, <3>1, <3>2
    <2>6. Put(Dispatcher, msg)
      BY <1>2, <2>1, <2>4
    <2>7. msg.number = old.number /\ msg.target # Assembler
      BY <2>2, <2>4
    <2>. QED
      BY <2>5, <2>6, <2>7
  <1>4. PICK last \in Nat : /\ last = Len(queue[Dispatcher]) + 1
                            /\ \A i \in Nat, a \in Message : IsAt(Dispatcher, i, a) => i < last
    BY SlotFacts, Names DEF IsAt
  <1>5. \A k \in Machines, i \in Nat, a \in Message :
          IsAt(k, i, a)' <=> \/ IsAt(k, i, a) /\ ~(i = 0 /\ k = Assembler)
                             \/ k = Dispatcher /\ i = last /\ a = msg
    <2>1. Releases({Assembler})
      BY DEF AssembleForward, Release, TypeOK, Releases
    <2>. QED
      BY <1>3, <1>4, <2>1, PutMoves, Names
  <1>6. PICK n \in Nat : n = msg.number /\ n \notin F /\ n < sent
    BY <1>1, <1>2, <1>3, MessageFields, Names DEF InOrder, FlightInv
  <1>7. PICK G \in SUBSET Nat : G = F \cup {n}
    OBVIOUS
  <1>8. ASSUME NEW k \in Machines, NEW i \in Nat, NEW a \in Message,
               IsAt(k, i, a), ~(i = 0 /\ k = Assembler)
        PROVE  /\ a.number # n /\ (a.number \in G <=> a.number \in F)
               /\ a.number \in F => a.number < n
               /\ k = Assembler => n < a.number
               /\ k = Dispatcher /\ a.number \notin F => n < a.number
    <2>1. a.number # n /\ (a.number \in G <=> a.number \in F)
      BY <1>2, <1>3, <1>6, <1>7, <1>8, Names DEF FlightInv
    <2>2. a.number \in F => a.number < n
      BY <1>1, <1>2, <1>3, <1>6, <1>8, Names DEF InOrder
    <2>3. k = Assembler => a.number \notin F
      BY <1>1, <1>8, MessageFields DEF InOrder
    <2>4. k = Assembler => n < a.number
      BY <1>1, <1>2, <1>3, <1>6, <1>8, <2>3, Names DEF InOrder, SameKind
    <2>5. k = Dispatcher /\ a.number \notin F => n < a.number
      <3>1. Assembler # Dispatcher
        BY ArgumentsAssumption DEF Assembler, Dispatcher
      <3>. QED
        BY <1>1, <1>2, <1>3, <1>6, <1>8, <3>1, Names DEF InOrder, SameKind
    <2>. QED
      BY <2>1, <2>2, <2>4, <2>5
  <1>9. ASSUME NEW k \in Machines, NEW l \in Machines, NEW i \in Nat, NEW j \in Nat,
               NEW a \in Message, NEW b \in Message, IsAt(k, i, a)', IsAt(l, j, b)'
        PROVE  /\ k = l /\ i < j /\ SameKind(a, b, G) => a.number < b.number
               /\ k # Dispatcher /\ l = Dispatcher /\ SameKind(a, b, G) => a.number < b.number
               /\ a.number \in G /\ l = Assembler => a.number < b.number
               /\ a.number \in G /\ l = Dispatcher /\ b.number \notin G => a.number < b.number
    <2>0. Assembler # Dispatcher /\ n \in G
      BY <1>7, ArgumentsAssumption DEF Assembler, Dispatcher
    <2>1. CASE k = Dispatcher /\ i = last /\ a = msg /\ l = Dispatcher /\ j = last /\ b = msg
      BY <1>6, <2>0, <2>1
    <2>2. CASE /\ k = Dispatcher /\ i = last /\ a = msg
               /\ IsAt(l, j, b) /\ ~(j = 0 /\ l = Assembler)
      <3>1. ~(k = l /\ i < j)
        BY <1>4, <2>2
      <3>. QED
        BY <1>6, <1>8, <2>2, <3>1
    <2>3. CASE /\ IsAt(k, i, a) /\ ~(i = 0 /\ k = Assembler)
               /\ l = Dispatcher /\ j = last /\ b = msg
      BY <1>6, <1>8, <2>0, <2>3 DEF SameKind
    <2>4. CASE /\ IsAt(k, i, a) /\ ~(i = 0 /\ k = Assembler)
               /\ IsAt(l, j, b) /\ ~(j = 0 /\ l = Assembler)
      <3>1. (a.number \in G <=> a.number \in F) /\ (b.number \in G <=> b.number \in F)
        BY <1>8, <2>4
      <3>. QED
        BY <1>1, <2>4, <3>1 DEF InOrder, SameKind
    <2>. QED
      BY <1>5, <1>9, <2>1, <2>2, <2>3, <2>4
  <1>10. \A i \in Nat, a \in Message :
          IsAt(Dispatcher, i, a)' /\ a.number \in G => a.target # Assembler
    <2>1. Assembler # Dispatcher
      BY ArgumentsAssumption DEF Assembler, Dispatcher
    <2>. QED
      BY <1>1, <1>3, <1>5, <1>8, <2>1, Names DEF InOrder
  <1>11. InOrder(G)'
    <2>1. \A o \in G : o < sent'
      BY <1>1, <1>6, <1>7 DEF InOrder, AssembleForward
    <2>. QED
      BY <1>9, <1>10, <2>1 DEF InOrder
  <1>. QED
    BY <1>11 DEF StreamsInv

(* The producer's message is the youngest of all.                          *)
LEMMA ProduceInOrder ==
  ASSUME TypeOK, FlightInv, StreamsInv, Produce
  PROVE  StreamsInv'
  <1>1. PICK F \in SUBSET Nat : InOrder(F)
    BY DEF StreamsInv
  <1>2. PICK msg \in Message : msg.number = sent /\ msg # Stop /\ Put(Dispatcher, msg)
    <2>1. PICK target \in DrawnTargets :
            Put(Dispatcher, [target |-> target % TargetSpace, source |-> 1, number |-> sent])
      BY DEF Produce
    <2>. QED
      BY <2>1, StoredTarget, MessageFields DEF Message, DrawnTargets, TypeOK
  <1>3. PICK last \in Nat : /\ last = Len(queue[Dispatcher]) + 1
                            /\ \A i \in Nat, a \in Message : IsAt(Dispatcher, i, a) => i < last
    BY SlotFacts, Names DEF IsAt
  <1>4. sent' = sent + 1 /\ sent \in Nat /\ held' = held
    BY DEF Produce, TypeOK
  <1>5. \A k \in Machines, i \in Nat, a \in Message :
          IsAt(k, i, a)' <=> IsAt(k, i, a) \/ (k = Dispatcher /\ i = last /\ a = msg)
    <2>1. Releases({})
      BY <1>4 DEF Releases
    <2>. QED
      BY <1>2, <1>3, <2>1, PutMoves, Names
  <1>6. msg.number \notin F
    BY <1>1, <1>2, <1>4 DEF InOrder
  <1>7. \A k \in Machines, i \in Nat, a \in Message : IsAt(k, i, a) => a.number < msg.number
    BY <1>2 DEF FlightInv
  <1>8. ASSUME NEW k \in Machines, NEW l \in Machines, NEW i \in Nat, NEW j \in Nat,
               NEW a \in Message, NEW b \in Message, IsAt(k, i, a)', IsAt(l, j, b)'
        PROVE  /\ k = l /\ i < j /\ SameKind(a, b, F) => a.number < b.number
               /\ k # Dispatcher /\ l = Dispatcher /\ SameKind(a, b, F) => a.number < b.number
               /\ a.number \in F /\ l = Assembler => a.number < b.number
               /\ a.number \in F /\ l = Dispatcher /\ b.number \notin F => a.number < b.number
    <2>1. CASE IsAt(k, i, a) /\ IsAt(l, j, b)
      BY <1>1, <2>1 DEF InOrder
    <2>2. CASE IsAt(k, i, a) /\ l = Dispatcher /\ j = last /\ b = msg
      <3>1. Assembler # Dispatcher
        BY ArgumentsAssumption DEF Assembler, Dispatcher
      <3>. QED
        BY <1>7, <2>2, <3>1
    <2>3. CASE k = Dispatcher /\ i = last /\ a = msg
      <3>1. ~(k = l /\ i < j)
        BY <1>3, <1>5, <1>8, <2>3
      <3>. QED
        BY <1>6, <2>3, <3>1
    <2>. QED
      BY <1>5, <1>8, <2>1, <2>2, <2>3
  <1>9. \A i \in Nat, a \in Message :
          IsAt(Dispatcher, i, a)' /\ a.number \in F => a.target # Assembler
    BY <1>1, <1>5, <1>6, Names DEF InOrder
  <1>10. InOrder(F)'
    <2>1. \A o \in F : o < sent'
      BY <1>1, <1>4 DEF InOrder
    <2>. QED
      BY <1>8, <1>9, <2>1 DEF InOrder
  <1>. QED
    BY <1>10 DEF StreamsInv

(* Every step keeps the order of the two streams.                          *)
LEMMA NextStreams == TypeOK /\ BusyInv /\ FlightInv /\ StreamsInv /\ [Next]_vars => StreamsInv'
  <1> SUFFICES ASSUME TypeOK, BusyInv, FlightInv, StreamsInv, [Next]_vars PROVE StreamsInv'
    OBVIOUS
  <1>1. ASSUME UNCHANGED <<queue, held, sent>> PROVE StreamsInv'
    <2>1. \A k \in Machines, i \in Nat, a \in Message : IsAt(k, i, a)' => IsAt(k, i, a)
      BY <1>1 DEF IsAt, Slots, Slot
    <2>. QED
      BY <1>1, <2>1, FewerInOrder
  <1>2. ASSUME NEW m \in Machines, Put(m, Stop), UNCHANGED <<held, sent>> PROVE StreamsInv'
    <2>1. Releases({})
      BY <1>2 DEF Releases
    <2>2. \A k \in Machines, i \in Nat, a \in Message : IsAt(k, i, a)' => IsAt(k, i, a)
      BY <1>2, <2>1, PutMoves, Names
    <2>. QED
      BY <1>2, <2>2, FewerInOrder
  <1>3. ASSUME NEW m \in Machines, queue' = queue, Release(m), sent' = sent PROVE StreamsInv'
    <2>1. \A k \in Machines, i \in Nat, a \in Message : IsAt(k, i, a)' => IsAt(k, i, a)
      BY <1>3, ReleaseMoves
    <2>. QED
      BY <1>3, <2>1, FewerInOrder
  <1>4. ASSUME NEW c \in Consumers, Consume(c) PROVE StreamsInv'
    BY <1>3, <1>4, Names DEF Consume
  <1>5. CASE AssembleLose
    BY <1>3, <1>5, Names DEF AssembleLose
  <1>6. CASE ProduceStop
    BY <1>2, <1>6, Names DEF ProduceStop
  <1>7. CASE PropagateStop
    <2>1. nextStop \in Machines
      BY <1>7, ArgumentsAssumption DEF PropagateStop, TypeOK, Machines, Dispatcher, Assembler
    <2>. QED
      BY <1>2, <1>7, <2>1 DEF PropagateStop
  <1>8. CASE MainStep \/ ThrowKeyNotFound \/ PropagateEnd \/ UNCHANGED vars
    BY <1>1, <1>8 DEF MainStep, StartThread, JoinThread, ThrowKeyNotFound, PropagateEnd, vars
  <1>. QED
    BY <1>4, <1>5, <1>6, <1>7, <1>8, ProduceInOrder, DequeueInOrder, RedirectInOrder, ForwardInOrder, Names
    DEF Next, ProducerStep, DispatcherStep, Dispatch, ConsumerStep, AssemblerStep

(* A queue mixes the direct and the forwarded messages, each kind in the   *)
(* order it was sent.                                                      *)
THEOREM OrderKept == Spec => []TwoStreamsInOrder
  <1>1. Init => StreamsInv
    <2> SUFFICES ASSUME Init PROVE StreamsInv
      OBVIOUS
    <2>1. InOrder({})
      BY InitFlight, Names DEF InOrder
    <2>. QED
      BY <2>1 DEF StreamsInv
  <1>2. TypeOK /\ StreamsInv => TwoStreamsInOrder
    <2> SUFFICES ASSUME TypeOK, StreamsInv, NEW m \in Machines,
                        NEW i \in DOMAIN queue[m], NEW j \in DOMAIN queue[m], NEW k \in DOMAIN queue[m],
                        i < j, j < k,
                        queue[m][i] # Stop, queue[m][j] # Stop, queue[m][k] # Stop,
                        queue[m][i].number > queue[m][j].number,
                        queue[m][j].number > queue[m][k].number
                 PROVE  FALSE
      BY DEF TwoStreamsInOrder
    <2>1. PICK F \in SUBSET Nat : InOrder(F)
      BY DEF StreamsInv
    <2>2. ASSUME NEW n \in DOMAIN queue[m], queue[m][n] # Stop
          PROVE  n \in Nat /\ queue[m][n] \in Message /\ IsAt(m, n, queue[m][n])
      BY <2>2, SlotFacts, LenProperties DEF IsAt
    <2>3. PICK a \in Message : a = queue[m][i] /\ IsAt(m, i, a)
      BY <2>2
    <2>4. PICK b \in Message : b = queue[m][j] /\ IsAt(m, j, b)
      BY <2>2
    <2>5. PICK c \in Message : c = queue[m][k] /\ IsAt(m, k, c)
      BY <2>2
    <2>6. i \in Nat /\ j \in Nat /\ k \in Nat /\ i < k
      BY <2>2
    <2>7. a.number \in Nat /\ b.number \in Nat /\ c.number \in Nat
      BY MessageFields
    <2>8. ~SameKind(a, b, F) /\ ~SameKind(b, c, F) /\ ~SameKind(a, c, F)
      BY <2>1, <2>3, <2>4, <2>5, <2>6, <2>7 DEF InOrder
    <2>. QED
      BY <2>8 DEF SameKind
  <1>. QED
    BY <1>1, <1>2, InitFlight, NextBusyInv, NextFlight, NextStreams, TypeCorrect, PTL DEF Spec

-----------------------------------------------------------------------------
(* Behind the producer's stop message, and in the dispatcher's queue once  *)
(* it took that message, there is only what the assembler forwards.        *)
Behind(i) == \A j \in DOMAIN queue[Dispatcher] : i < j => queue[Dispatcher][j].target \in Consumers
LeftInv ==
  /\ \A i \in DOMAIN queue[Dispatcher] :
       queue[Dispatcher][i] = Stop => state[Producer] = "done" /\ Behind(i)
  /\ state[Dispatcher] \in {"stopping", "done"} => state[Producer] = "done" /\ Behind(0)

(* What comes to the dispatcher after the producer's stop message is for a *)
(* consumer.                                                               *)
LEMMA PutLeft ==
  ASSUME TypeOK, LeftInv, NEW msg \in Message, Put(Dispatcher, msg),
         state[Producer] = "done" => state'[Producer] = "done" /\ msg.target \in Consumers,
         msg = Stop => state'[Producer] = "done",
         state'[Dispatcher] = state[Dispatcher]
  PROVE  LeftInv'
  <1>1. PICK len \in Nat : len = Len(queue[Dispatcher])
    BY SlotFacts, Names
  <1>2. /\ DOMAIN queue[Dispatcher] = 1..len
        /\ DOMAIN queue'[Dispatcher] = 1..len + 1
        /\ \A j \in 1..len : queue'[Dispatcher][j] = queue[Dispatcher][j]
        /\ queue'[Dispatcher][len + 1] = msg
    <2>1. queue[Dispatcher] \in Seq(Message) /\ queue'[Dispatcher] = Append(queue[Dispatcher], msg)
      BY PutEffect, Names DEF TypeOK
    <2>. QED
      BY <1>1, <2>1, AppendProperties, LenProperties
  <1>3. ASSUME NEW i \in Nat, Behind(i), state[Producer] = "done" PROVE Behind(i)'
    BY <1>2, <1>3 DEF Behind
  <1>4. ASSUME NEW i \in DOMAIN queue'[Dispatcher], queue'[Dispatcher][i] = Stop
        PROVE  state'[Producer] = "done" /\ Behind(i)'
    <2>1. CASE i \in 1..len
      <3>1. state[Producer] = "done" /\ Behind(i)
        BY <1>2, <1>4, <2>1 DEF LeftInv
      <3>. QED
        BY <1>3, <2>1, <3>1
    <2>2. CASE i = len + 1
      BY <1>2, <1>4, <2>2 DEF Behind
    <2>. QED
      BY <1>2, <2>1, <2>2
  <1>5. state'[Dispatcher] \in {"stopping", "done"} => state'[Producer] = "done" /\ Behind(0)'
    BY <1>3 DEF LeftInv
  <1>. QED
    BY <1>4, <1>5 DEF LeftInv

(* Taking the stop message leaves what is behind it.                       *)
LEMMA DequeueLeft ==
  ASSUME TypeOK, LeftInv, Dequeue(Dispatcher)
  PROVE  LeftInv'
  <1>1. PICK len \in Nat : len = Len(queue[Dispatcher])
    BY SlotFacts, Names
  <1>2. /\ len # 0 /\ Head(queue[Dispatcher]) = queue[Dispatcher][1]
        /\ DOMAIN queue[Dispatcher] = 1..len
        /\ DOMAIN queue'[Dispatcher] = 1..len - 1
        /\ \A j \in 1..len - 1 : queue'[Dispatcher][j] = queue[Dispatcher][j + 1]
    <2>1. /\ queue[Dispatcher] # <<>> /\ queue[Dispatcher] \in Seq(Message)
          /\ queue'[Dispatcher] = Tail(queue[Dispatcher])
      BY TakeEffect, Names DEF Dequeue, DequeueStop, DequeueMessage, TypeOK
    <2>. QED
      BY <1>1, <2>1, HeadTailProperties, LenProperties, EmptySeq
  <1>3. /\ state'[Producer] = state[Producer] /\ state[Dispatcher] = "running"
        /\ state'[Dispatcher] = IF queue[Dispatcher][1] = Stop THEN "stopping" ELSE "busy"
    BY <1>2, GotoEffect, Names DEF Dequeue, DequeueStop, DequeueMessage
  <1>4. ASSUME NEW i \in Nat, Behind(i + 1) PROVE Behind(i)'
    <2>1. ASSUME NEW j \in 1..len - 1, i < j PROVE queue'[Dispatcher][j].target \in Consumers
      <3>1. j + 1 \in 1..len /\ i + 1 < j + 1
        BY <2>1
      <3>. QED
        BY <1>2, <1>4, <3>1 DEF Behind
    <2>. QED
      BY <1>2, <2>1 DEF Behind
  <1>5. ASSUME NEW i \in DOMAIN queue'[Dispatcher], queue'[Dispatcher][i] = Stop
        PROVE  state'[Producer] = "done" /\ Behind(i)'
    <2>1. i \in Nat /\ i + 1 \in DOMAIN queue[Dispatcher] /\ queue[Dispatcher][i + 1] = Stop
      BY <1>2, <1>5
    <2>2. state[Producer] = "done" /\ Behind(i + 1)
      BY <2>1 DEF LeftInv
    <2>. QED
      BY <1>3, <1>4, <2>1, <2>2
  <1>6. state'[Dispatcher] \in {"stopping", "done"} => state'[Producer] = "done" /\ Behind(0)'
    <2> SUFFICES ASSUME queue[Dispatcher][1] = Stop PROVE state'[Producer] = "done" /\ Behind(0)'
      BY <1>3
    <2>1. 1 \in DOMAIN queue[Dispatcher]
      BY <1>2
    <2>2. state[Producer] = "done" /\ Behind(0 + 1)
      BY <2>1 DEF LeftInv
    <2>. QED
      BY <1>3, <1>4, <2>2
  <1>. QED
    BY <1>5, <1>6 DEF LeftInv

(* Every step keeps it, while the dispatcher finds every queue.            *)
LEMMA NextLeft ==
  ASSUME KeysFit, TypeOK, KeyInv, LeftInv, [Next]_vars
  PROVE  LeftInv'
  <1>1. ASSUME queue'[Dispatcher] = queue[Dispatcher],
               state[Producer] = "done" => state'[Producer] = "done",
               state'[Dispatcher] \in {"stopping", "done"} => state[Dispatcher] \in {"stopping", "done"}
        PROVE  LeftInv'
    <2>1. \A i : Behind(i) => Behind(i)'
      BY <1>1 DEF Behind
    <2>. QED
      BY <1>1, <2>1 DEF LeftInv
  <1>2. CASE Produce
    <2>1. PICK target \in DrawnTargets :
            Put(Dispatcher, [target |-> target % TargetSpace, source |-> 1, number |-> sent])
      BY <1>2 DEF Produce
    <2>2. PICK msg \in Message : msg.source = 1 /\ msg # Stop /\ Put(Dispatcher, msg)
      BY <2>1, StoredTarget, MessageFields DEF Message, DrawnTargets, TypeOK
    <2>3. state[Producer] # "done" /\ state'[Dispatcher] = state[Dispatcher]
      BY <1>2, GotoEffect, Names DEF Produce
    <2>. QED
      BY <2>2, <2>3, PutLeft
  <1>3. CASE ProduceStop
    <2>1. state[Producer] = "running" /\ state'[Producer] = "done" /\ state'[Dispatcher] = state[Dispatcher]
      BY <1>3, GotoEffect, Names DEF ProduceStop
    <2>. QED
      BY <1>3, <2>1, PutLeft, Names DEF ProduceStop
  <1>4. CASE AssembleForward
    <2>1. PICK target \in ReassignedTargets :
            Put(Dispatcher, [held[Assembler] EXCEPT !.target = target % TargetSpace])
      BY <1>4 DEF AssembleForward
    <2>2. held[Assembler] \in Message /\ target % TargetSpace \in Targets
      BY StoredTarget, Names DEF ReassignedTargets, TypeOK
    <2>3. target % TargetSpace \in Consumers
      <3>1. target \in Nat /\ target < TargetSpace
        BY ArgumentsAssumption DEF KeysFit, ReassignedTargets, Assembler
      <3>. QED
        BY <3>1, StoredTarget DEF ReassignedTargets, Consumers
    <2>4. PICK msg \in Message : /\ msg = [held[Assembler] EXCEPT !.target = target % TargetSpace]
                                 /\ msg.target = target % TargetSpace
      BY <2>2, Readdressed
    <2>5. Put(Dispatcher, msg)
      BY <2>1, <2>4
    <2>6. msg.target \in Consumers
      BY <2>3, <2>4
    <2>7. msg # Stop
      BY <2>6, MessageFields DEF Consumers
    <2>8. state'[Producer] = state[Producer] /\ state'[Dispatcher] = state[Dispatcher]
      BY <1>4, GotoEffect, Names, ArgumentsAssumption DEF AssembleForward, Assembler, Dispatcher, Producer
    <2>. QED
      BY <2>5, <2>6, <2>7, <2>8, PutLeft
  <1>5. CASE Dispatch
    <2>1. held[Dispatcher].target \in RegisteredKeys /\ Redirect
      BY <1>5 DEF Dispatch, Redirect, ThrowKeyNotFound, Goto, KeyInv
    <2>2. queue'[Dispatcher] = queue[Dispatcher]
      BY <2>1, PutEffect, Names DEF Redirect, TypeOK
    <2>. QED
      BY <1>1, <2>1, <2>2, GotoEffect, Names DEF Redirect
  <1>6. CASE PropagateStop
    <2>1. nextStop \in RegisteredKeys
      BY <1>6, ArgumentsAssumption DEF PropagateStop, TypeOK, RegisteredKeys, Assembler
    <2>2. queue'[Dispatcher] = queue[Dispatcher]
      BY <1>6, <2>1, PutEffect, Names DEF PropagateStop, TypeOK
    <2>. QED
      BY <1>1, <1>6, <2>2, GotoEffect, Names DEF PropagateStop
  <1>7. CASE PropagateEnd
    BY <1>1, <1>7, GotoEffect, Names DEF PropagateEnd
  <1>8. ASSUME NEW m \in RegisteredKeys, Dequeue(m) PROVE LeftInv'
    <2>1. queue'[Dispatcher] = queue[Dispatcher]
      BY <1>8, TakeEffect, Names DEF Dequeue, DequeueStop, DequeueMessage, TypeOK
    <2>. QED
      BY <1>1, <1>8, <2>1, GotoEffect, Names DEF Dequeue, DequeueStop, DequeueMessage
  <1>9. ASSUME NEW c \in Consumers, Consume(c) PROVE LeftInv'
    BY <1>1, <1>9, GotoEffect, Names DEF Consume
  <1>10. CASE AssembleLose
    BY <1>1, <1>10, GotoEffect, Names DEF AssembleLose
  <1>11. CASE MainStep
    <2>1. queue' = queue
      BY <1>11 DEF MainStep, StartThread, JoinThread
    <2>2. \A k \in Threads : \/ state'[k] = state[k]
                             \/ state[k] = "unstarted" /\ state'[k] = "running"
      BY <1>11 DEF MainStep, StartThread, JoinThread, Goto, TypeOK
    <2>. QED
      BY <1>1, <2>1, <2>2, Names
  <1>12. CASE UNCHANGED vars
    BY <1>1, <1>12 DEF vars
  <1>. QED
    BY <1>2, <1>3, <1>4, <1>5, <1>6, <1>7, <1>8, <1>9, <1>10, <1>11, <1>12, DequeueLeft, Names
    DEF Next, ProducerStep, DispatcherStep, ConsumerStep, AssemblerStep

(* All the producer sent is dispatched before the dispatcher ends.         *)
THEOREM ProducedAreDispatched == Spec => []OnlyForwardedLeftBehind
  <1>1. CASE KeysFit
    <2>1. Init => KeyInv /\ LeftInv
      BY Names DEF Init, KeyInv, LeftInv
    <2>2. TypeOK /\ KeyInv /\ LeftInv /\ [Next]_vars => KeyInv' /\ LeftInv'
      BY <1>1, NextKeyInv, NextLeft
    <2>3. TypeOK /\ LeftInv => OnlyForwardedLeftBehind
      <3> SUFFICES ASSUME TypeOK, LeftInv, state[Dispatcher] = "done",
                          NEW i \in DOMAIN queue[Dispatcher]
                   PROVE  queue[Dispatcher][i].target \in Consumers
        BY DEF OnlyForwardedLeftBehind
      <3>1. i \in Nat /\ 0 < i
        BY SlotFacts, LenProperties, Names
      <3>. QED
        BY <3>1 DEF LeftInv, Behind
    <2>. QED
      BY <2>1, <2>2, <2>3, TypeCorrect, PTL DEF Spec
  <1>2. CASE ~KeysFit
    <2>1. OnlyForwardedLeftBehind
      BY <1>2 DEF OnlyForwardedLeftBehind
    <2>. QED
      BY <2>1, PTL
  <1>. QED
    BY <1>1, <1>2
=============================================================================
