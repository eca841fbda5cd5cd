--------------------------- MODULE ThreadSafeQueue ---------------------------
(***************************************************************************)
(* prodcons/Queue.hpp with prodcons/Semaphore.cpp, statement by statement: *)
(* a std::queue, the mutex that protects it and the semaphore canConsume   *)
(* that counts its elements.  Any number of threads call enqueue, dequeue  *)
(* and isEmpty at the same time.  One action is one access to the state    *)
(* the threads share.                                                      *)
(***************************************************************************)
EXTENDS Naturals, Sequences, FiniteSets

CONSTANTS Producers,  \* threads that call enqueue
          Consumers,  \* threads that call dequeue
          Observers,  \* threads that call isEmpty
          Data,       \* the elements
          NoData,     \* no element: nothing to enqueue, nothing dequeued yet
          NoThread,   \* the holder of a free mutex
          MaxLen      \* bound of the checking: no enqueue starts beyond it

Threads == Producers \cup Consumers \cup Observers

ASSUME ThreadsAssumption ==
  /\ IsFiniteSet(Producers) /\ IsFiniteSet(Consumers)
  /\ Producers \cap Consumers = {}
  /\ Observers \cap (Producers \cup Consumers) = {}
  /\ NoThread \notin Threads
  /\ NoData \notin Data
ASSUME MaxLenAssumption == MaxLen \in Nat \ {0}

VARIABLES items,      \* std::queue<DataType> queue
          permits,    \* the value of the semaphore canConsume
          holder,     \* the thread that has locked the mutex
          pc,         \* the next statement of each thread
          arg,        \* arg[p]: the element enqueue was called with
          result,     \* result[c]: the local variable result of dequeue
          seenEmpty   \* seenEmpty[o]: the local variable empty of isEmpty

vars == <<items, permits, holder, pc, arg, result, seenEmpty>>

Init == /\ items = <<>>
        /\ permits = 0
        /\ holder = NoThread
        /\ pc = [t \in Threads |-> "idle"]
        /\ arg = [p \in Producers |-> NoData]
        /\ result = [c \in Consumers |-> NoData]
        /\ seenEmpty = [o \in Observers |-> TRUE]

Goto(t, from, to) == /\ pc[t] = from
                     /\ pc' = [pc EXCEPT ![t] = to]

(* std::mutex: lock() waits until nobody holds it.                         *)
Lock(t) == /\ holder = NoThread
           /\ holder' = t

Unlock(t) == holder' = NoThread

-----------------------------------------------------------------------------
(* Faulty variants of the statements below.  No specification uses them:   *)
(* each shows that a property notices that mistake.                        *)

(* The new element goes to the wrong end.                                  *)
EnqueuePushFront(p) ==
  /\ Goto(p, "push", "enqueueUnlock")
  /\ items' = <<arg[p]>> \o items
  /\ UNCHANGED <<permits, holder, arg, result, seenEmpty>>

(* The new element is pushed twice.                                        *)
EnqueuePushTwice(p) ==
  /\ Goto(p, "push", "enqueueUnlock")
  /\ items' = items \o <<arg[p], arg[p]>>
  /\ UNCHANGED <<permits, holder, arg, result, seenEmpty>>

(* enqueue returns without canConsume.signal().                            *)
EnqueueWithoutSignal(p) ==
  /\ Goto(p, "signal", "idle")
  /\ arg' = [arg EXCEPT ![p] = NoData]
  /\ UNCHANGED <<items, permits, holder, result, seenEmpty>>

(* sem_wait returns early and its result is not looked at.                 *)
DequeueWaitInterrupted(c) ==
  /\ Goto(c, "idle", "lock")
  /\ permits' = IF permits > 0 THEN permits - 1 ELSE permits
  /\ UNCHANGED <<items, holder, arg, result, seenEmpty>>

-----------------------------------------------------------------------------
(* enqueue(data)                                                           *)

EnqueueLock(p) ==
  /\ Len(items) < MaxLen
  /\ Goto(p, "idle", "push")
  /\ Lock(p)
  /\ \E d \in Data : arg' = [arg EXCEPT ![p] = d]
  /\ UNCHANGED <<items, permits, result, seenEmpty>>

EnqueuePush(p) ==
  /\ Goto(p, "push", "enqueueUnlock")
  /\ items' = Append(items, arg[p])
  /\ UNCHANGED <<permits, holder, arg, result, seenEmpty>>

EnqueueUnlock(p) ==
  /\ Goto(p, "enqueueUnlock", "signal")
  /\ Unlock(p)
  /\ UNCHANGED <<items, permits, arg, result, seenEmpty>>

EnqueueSignal(p) ==
  /\ Goto(p, "signal", "idle")
  /\ permits' = permits + 1
  /\ arg' = [arg EXCEPT ![p] = NoData]
  /\ UNCHANGED <<items, holder, result, seenEmpty>>

-----------------------------------------------------------------------------
(* dequeue()                                                               *)

DequeueWait(c) ==
  /\ permits > 0
  /\ Goto(c, "idle", "lock")
  /\ permits' = permits - 1
  /\ UNCHANGED <<items, holder, arg, result, seenEmpty>>

DequeueLock(c) ==
  /\ Goto(c, "lock", "front")
  /\ Lock(c)
  /\ UNCHANGED <<items, permits, arg, result, seenEmpty>>

(* front() and pop() of an empty std::queue are undefined; the invariant   *)
(* NeverFrontOfEmpty shows that these actions never meet one.              *)
DequeueFront(c) ==
  /\ Goto(c, "front", "pop")
  /\ result' = [result EXCEPT ![c] = Head(items)]
  /\ UNCHANGED <<items, permits, holder, arg, seenEmpty>>

DequeuePop(c) ==
  /\ Goto(c, "pop", "dequeueUnlock")
  /\ items' = Tail(items)
  /\ UNCHANGED <<permits, holder, arg, result, seenEmpty>>

DequeueUnlock(c) ==
  /\ Goto(c, "dequeueUnlock", "idle")
  /\ Unlock(c)
  /\ UNCHANGED <<items, permits, arg, result, seenEmpty>>

-----------------------------------------------------------------------------
(* isEmpty()                                                               *)

IsEmptyLock(o) ==
  /\ Goto(o, "idle", "empty")
  /\ Lock(o)
  /\ UNCHANGED <<items, permits, arg, result, seenEmpty>>

IsEmptyRead(o) ==
  /\ Goto(o, "empty", "isEmptyUnlock")
  /\ seenEmpty' = [seenEmpty EXCEPT ![o] = (items = <<>>)]
  /\ UNCHANGED <<items, permits, holder, arg, result>>

IsEmptyUnlock(o) ==
  /\ Goto(o, "isEmptyUnlock", "idle")
  /\ Unlock(o)
  /\ UNCHANGED <<items, permits, arg, result, seenEmpty>>

-----------------------------------------------------------------------------
ProducerStep(p) == \/ EnqueueLock(p) \/ EnqueuePush(p)
                   \/ EnqueueUnlock(p) \/ EnqueueSignal(p)

ConsumerStep(c) == \/ DequeueWait(c) \/ DequeueLock(c) \/ DequeueFront(c)
                   \/ DequeuePop(c) \/ DequeueUnlock(c)

ObserverStep(o) == IsEmptyLock(o) \/ IsEmptyRead(o) \/ IsEmptyUnlock(o)

Next == \/ \E p \in Producers : ProducerStep(p)
        \/ \E c \in Consumers : ConsumerStep(c)
        \/ \E o \in Observers : ObserverStep(o)

Spec == Init /\ [][Next]_vars

(* Fairness: a thread that can run eventually runs, and a thread that      *)
(* waits for a mutex that is released again and again eventually gets it.  *)
(* Neither enqueuing nor asking isEmpty is ever promised to happen, so     *)
(* only what a thread has already begun is fair.                           *)
FairSpec ==
  /\ Spec
  /\ \A p \in Producers :
        WF_vars(EnqueuePush(p) \/ EnqueueUnlock(p) \/ EnqueueSignal(p))
  /\ \A c \in Consumers : /\ WF_vars(ConsumerStep(c))
                          /\ SF_vars(DequeueLock(c))
  /\ \A o \in Observers : WF_vars(IsEmptyRead(o) \/ IsEmptyUnlock(o))

-----------------------------------------------------------------------------
ProducerAt == {"idle", "push", "enqueueUnlock", "signal"}
ConsumerAt == {"idle", "lock", "front", "pop", "dequeueUnlock"}
ObserverAt == {"idle", "empty", "isEmptyUnlock"}

(* Statements executed with the mutex held.                                *)
Critical == {"push", "enqueueUnlock", "front", "pop", "dequeueUnlock",
             "empty", "isEmptyUnlock"}

TypeOK == /\ items \in Seq(Data) /\ Len(items) <= MaxLen
          /\ permits \in Nat
          /\ holder \in Threads \cup {NoThread}
          /\ pc \in [Threads -> ProducerAt \cup ConsumerAt \cup ObserverAt]
          /\ \A p \in Producers : pc[p] \in ProducerAt
          /\ \A c \in Consumers : pc[c] \in ConsumerAt
          /\ \A o \in Observers : pc[o] \in ObserverAt
          /\ arg \in [Producers -> Data \cup {NoData}]
          /\ \A p \in Producers : pc[p] = "push" => arg[p] \in Data
          /\ result \in [Consumers -> Data \cup {NoData}]
          /\ seenEmpty \in [Observers -> BOOLEAN]

(* Two threads are never at statements that use the std::queue at the same *)
(* time: the class has no data race (Queue.hpp:25).                        *)
MutualExclusion ==
  \A s, t \in Threads : pc[s] \in Critical /\ pc[t] \in Critical => s = t

(* Elements that are in the queue, and whose enqueue has not yet signalled *)
(* them, and elements a consumer has a permit for, but has not yet popped. *)
Unannounced == {p \in Producers : pc[p] \in {"enqueueUnlock", "signal"}}
Claimed == {c \in Consumers : pc[c] \in {"lock", "front", "pop"}}

(* The semaphore counts the elements nobody has claimed: every element is  *)
(* covered by a permit, by a consumer about to pop it or by a producer     *)
(* about to signal it, and no permit is given twice.                       *)
PermitAccounting ==
  permits + Cardinality(Claimed) + Cardinality(Unannounced) = Len(items)

(* front() and pop() are never called on an empty std::queue, which would  *)
(* be undefined behaviour: dequeue does not check, it relies on the        *)
(* semaphore alone, which is decremented before the mutex is taken.        *)
NeverFrontOfEmpty ==
  \A c \in Consumers : pc[c] \in {"front", "pop"} => items # <<>>

-----------------------------------------------------------------------------
(* The elements a caller can still get: dequeue takes effect when front()  *)
(* is copied, before pop() removes the element.                            *)
Remaining == IF \E c \in Consumers : pc[c] = "pop" THEN Tail(items) ELSE items

Fifo == INSTANCE FifoQueue WITH queue <- Remaining, taken <- result

(* Every behaviour of the class is one of an atomic first-in first-out     *)
(* queue, whatever the threads interleave.                                 *)
ImplementsFifo == Fifo!Spec

(* With fair threads no element stays in the queue for ever while          *)
(* consumers keep calling dequeue: enqueue never forgets to wake one.      *)
SomeElementLeaves == (Remaining # <<>>) ~> (\E c \in Consumers : pc[c] = "pop")
=============================================================================
