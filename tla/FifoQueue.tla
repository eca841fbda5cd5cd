------------------------------ MODULE FifoQueue ------------------------------
(***************************************************************************)
(* What the queue of the producer-consumer framework promises to its       *)
(* callers: an unbounded first-in first-out queue whose operations are     *)
(* atomic, where dequeue blocks while the queue is empty and isEmpty       *)
(* answers for one moment of its call.  ThreadSafeQueue, the translation   *)
(* of prodcons/Queue.hpp, is shown to implement it; NetworkSimulation is   *)
(* written on top of it.                                                   *)
(***************************************************************************)
EXTENDS Naturals, Sequences

CONSTANTS Producers,  \* threads that enqueue
          Consumers,  \* threads that dequeue
          Observers,  \* threads that call isEmpty
          Data,       \* the elements
          NoData      \* no dequeue of this consumer has returned yet

VARIABLES queue,      \* the elements, oldest first
          taken,      \* taken[c]: what the last dequeue of c removed
          seenEmpty   \* seenEmpty[o]: the last answer isEmpty gave to o

vars == <<queue, taken, seenEmpty>>

Init == /\ queue = <<>>
        /\ taken = [c \in Consumers |-> NoData]
        /\ seenEmpty = [o \in Observers |-> TRUE]

Enqueue(d) == /\ queue' = Append(queue, d)
              /\ UNCHANGED <<taken, seenEmpty>>

Dequeue(c) == /\ queue # <<>>
              /\ taken' = [taken EXCEPT ![c] = Head(queue)]
              /\ queue' = Tail(queue)
              /\ UNCHANGED seenEmpty

IsEmpty(o) == /\ seenEmpty' = [seenEmpty EXCEPT ![o] = (queue = <<>>)]
              /\ UNCHANGED <<queue, taken>>

Next == \/ \E d \in Data : Enqueue(d)
        \/ \E c \in Consumers : Dequeue(c)
        \/ \E o \in Observers : IsEmpty(o)

Spec == Init /\ [][Next]_vars

(* Elements do not stay in the queue for ever while consumers keep calling *)
(* dequeue.                                                                *)
FairSpec == Spec /\ WF_vars(\E c \in Consumers : Dequeue(c))
=============================================================================
