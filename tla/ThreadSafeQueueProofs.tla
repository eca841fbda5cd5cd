------------------------ MODULE ThreadSafeQueueProofs ------------------------
(***************************************************************************)
(* Proofs about ThreadSafeQueue for any sets of threads and elements: the  *)
(* semaphore accounts for every element, so that front() and pop() never   *)
(* meet an empty queue, and the class implements FifoQueue.                *)
(***************************************************************************)
EXTENDS ThreadSafeQueue, FiniteSetTheorems, SequenceTheorems, TLAPS

(* A thread is inside a critical section exactly when it holds the mutex.  *)
HolderInv == \A t \in Threads : pc[t] \in Critical <=> holder = t

(* The bound of the checking holds until the element is in.                *)
RoomToPush == \A p \in Producers : pc[p] = "push" => Len(items) < MaxLen

(* The inductive invariant: the type of items after pop() needs a nonempty *)
(* queue, which needs the accounting, which needs the mutex.               *)
IInv == TypeOK /\ HolderInv /\ RoomToPush /\ PermitAccounting

-----------------------------------------------------------------------------
(* The threads whose element is in flight form finite sets.                *)
LEMMA InFlightFinite == /\ IsFiniteSet(Claimed) /\ Cardinality(Claimed) \in Nat
                        /\ IsFiniteSet(Unannounced) /\ Cardinality(Unannounced) \in Nat
  BY ThreadsAssumption, FS_Subset, FS_CardinalityType DEF Claimed, Unannounced

(* A thread that is about to pop finds at least one element.               *)
LEMMA ClaimedMeansNonempty ==
  ASSUME TypeOK, PermitAccounting, NEW c \in Claimed
  PROVE  items # <<>>
  <1>1. Cardinality(Claimed) # 0
    BY InFlightFinite, FS_EmptySet
  <1>2. Len(items) # 0
    BY <1>1, InFlightFinite DEF TypeOK, PermitAccounting
  <1>. QED
    BY <1>2, EmptySeq DEF TypeOK

(* The mutex gives mutual exclusion.                                       *)
LEMMA HolderExcludes == HolderInv => MutualExclusion
  BY DEF HolderInv, MutualExclusion

(* The invariant holds initially: nobody runs and the queue is empty.      *)
LEMMA InitIInv == Init => IInv
  <1> SUFFICES ASSUME Init PROVE IInv
    OBVIOUS
  <1>1. TypeOK
    BY ThreadsAssumption, MaxLenAssumption DEF Init, TypeOK, ProducerAt, ConsumerAt, ObserverAt, Threads
  <1>2. HolderInv /\ RoomToPush
    BY ThreadsAssumption DEF Init, HolderInv, RoomToPush, Critical, Threads
  <1>3. Claimed = {} /\ Unannounced = {}
    BY DEF Init, Claimed, Unannounced, Threads
  <1>4. PermitAccounting
    BY <1>3, FS_EmptySet DEF Init, PermitAccounting
  <1>. QED
    BY <1>1, <1>2, <1>4 DEF IInv

-----------------------------------------------------------------------------
(* enqueue preserves the invariant.                                        *)
LEMMA ProducerIInv ==
  ASSUME IInv, NEW p \in Producers, ProducerStep(p)
  PROVE  IInv'
  <1> USE DEF IInv, Goto, Lock, Unlock
  <1>p. p \in Threads /\ p \notin Consumers /\ p \notin Observers
    BY ThreadsAssumption DEF Threads
  <1>1. CASE EnqueueLock(p)
    <2>1. TypeOK'
      BY <1>1, <1>p DEF EnqueueLock, TypeOK, ProducerAt, ConsumerAt, ObserverAt, Threads
    <2>2. HolderInv' /\ RoomToPush'
      BY <1>1, <1>p, ThreadsAssumption DEF EnqueueLock, TypeOK, HolderInv, RoomToPush, Critical, Threads
    <2>3. Claimed' = Claimed /\ Unannounced' = Unannounced
      BY <1>1, <1>p DEF EnqueueLock, TypeOK, Claimed, Unannounced, Threads
    <2>. QED
      BY <1>1, <2>1, <2>2, <2>3 DEF EnqueueLock, PermitAccounting
  <1>2. CASE EnqueuePush(p)
    <2>1. TypeOK'
      BY <1>2, <1>p, AppendProperties, LenProperties, MaxLenAssumption
      DEF EnqueuePush, TypeOK, RoomToPush, ProducerAt, ConsumerAt, ObserverAt, Threads
    <2>2. HolderInv' /\ RoomToPush'
      BY <1>2, <1>p, ThreadsAssumption DEF EnqueuePush, TypeOK, HolderInv, RoomToPush, Critical, Threads
    <2>3. Claimed' = Claimed /\ Unannounced' = Unannounced \cup {p} /\ p \notin Unannounced
      BY <1>2, <1>p DEF EnqueuePush, TypeOK, Claimed, Unannounced, Threads
    <2>4. Cardinality(Unannounced') = Cardinality(Unannounced) + 1
      BY <2>3, InFlightFinite, FS_AddElement
    <2>5. Len(items') = Len(items) + 1
      BY <1>2, AppendProperties DEF EnqueuePush, TypeOK
    <2>. QED
      BY <1>2, <2>1, <2>2, <2>3, <2>4, <2>5, InFlightFinite DEF EnqueuePush, TypeOK, PermitAccounting
  <1>3. CASE EnqueueUnlock(p)
    <2>1. TypeOK'
      BY <1>3, <1>p DEF EnqueueUnlock, TypeOK, ProducerAt, ConsumerAt, ObserverAt, Threads
    <2>2. HolderInv' /\ RoomToPush'
      BY <1>3, <1>p, ThreadsAssumption DEF EnqueueUnlock, TypeOK, HolderInv, RoomToPush, Critical, Threads
    <2>3. Claimed' = Claimed /\ Unannounced' = Unannounced
      BY <1>3, <1>p DEF EnqueueUnlock, TypeOK, Claimed, Unannounced, Threads
    <2>. QED
      BY <1>3, <2>1, <2>2, <2>3 DEF EnqueueUnlock, PermitAccounting
  <1>4. CASE EnqueueSignal(p)
    <2>1. TypeOK'
      BY <1>4, <1>p DEF EnqueueSignal, TypeOK, ProducerAt, ConsumerAt, ObserverAt, Threads
    <2>2. HolderInv' /\ RoomToPush'
      BY <1>4, <1>p, ThreadsAssumption DEF EnqueueSignal, TypeOK, HolderInv, RoomToPush, Critical, Threads
    <2>3. Claimed' = Claimed /\ Unannounced' = Unannounced \ {p} /\ p \in Unannounced
      BY <1>4, <1>p DEF EnqueueSignal, TypeOK, Claimed, Unannounced, Threads
    <2>4. Cardinality(Unannounced') = Cardinality(Unannounced) - 1
      BY <2>3, InFlightFinite, FS_RemoveElement
    <2>. QED
      BY <1>4, <2>1, <2>2, <2>3, <2>4, InFlightFinite DEF EnqueueSignal, TypeOK, PermitAccounting
  <1>. QED
    BY <1>1, <1>2, <1>3, <1>4 DEF ProducerStep

(* dequeue preserves the invariant.                                        *)
LEMMA ConsumerIInv ==
  ASSUME IInv, NEW c \in Consumers, ConsumerStep(c)
  PROVE  IInv'
  <1> USE DEF IInv, Goto, Lock, Unlock
  <1>c. c \in Threads /\ c \notin Producers /\ c \notin Observers
    BY ThreadsAssumption DEF Threads
  <1>1. CASE DequeueWait(c)
    <2>1. TypeOK'
      BY <1>1, <1>c DEF DequeueWait, TypeOK, ProducerAt, ConsumerAt, ObserverAt, Threads
    <2>2. HolderInv' /\ RoomToPush'
      BY <1>1, <1>c, ThreadsAssumption DEF DequeueWait, TypeOK, HolderInv, RoomToPush, Critical, Threads
    <2>3. Unannounced' = Unannounced /\ Claimed' = Claimed \cup {c} /\ c \notin Claimed
      BY <1>1, <1>c DEF DequeueWait, TypeOK, Claimed, Unannounced, Threads
    <2>4. Cardinality(Claimed') = Cardinality(Claimed) + 1
      BY <2>3, InFlightFinite, FS_AddElement
    <2>. QED
      BY <1>1, <2>1, <2>2, <2>3, <2>4, InFlightFinite DEF DequeueWait, TypeOK, PermitAccounting
  <1>2. CASE DequeueLock(c)
    <2>1. TypeOK'
      BY <1>2, <1>c DEF DequeueLock, TypeOK, ProducerAt, ConsumerAt, ObserverAt, Threads
    <2>2. HolderInv' /\ RoomToPush'
      BY <1>2, <1>c, ThreadsAssumption DEF DequeueLock, TypeOK, HolderInv, RoomToPush, Critical, Threads
    <2>3. Claimed' = Claimed /\ Unannounced' = Unannounced
      BY <1>2, <1>c DEF DequeueLock, TypeOK, Claimed, Unannounced, Threads
    <2>. QED
      BY <1>2, <2>1, <2>2, <2>3 DEF DequeueLock, PermitAccounting
  <1>3. CASE DequeueFront(c)
    <2>0. items # <<>>
      BY <1>3, ClaimedMeansNonempty DEF DequeueFront, Claimed
    <2>1. TypeOK'
      BY <1>3, <1>c, <2>0, HeadTailProperties DEF DequeueFront, TypeOK, ProducerAt, ConsumerAt, ObserverAt, Threads
    <2>2. HolderInv' /\ RoomToPush'
      BY <1>3, <1>c, ThreadsAssumption DEF DequeueFront, TypeOK, HolderInv, RoomToPush, Critical, Threads
    <2>3. Claimed' = Claimed /\ Unannounced' = Unannounced
      BY <1>3, <1>c DEF DequeueFront, TypeOK, Claimed, Unannounced, Threads
    <2>. QED
      BY <1>3, <2>1, <2>2, <2>3 DEF DequeueFront, PermitAccounting
  <1>4. CASE DequeuePop(c)
    <2>0. items # <<>>
      BY <1>4, ClaimedMeansNonempty DEF DequeuePop, Claimed
    <2>1. items' \in Seq(Data) /\ Len(items') = Len(items) - 1
      BY <1>4, <2>0, HeadTailProperties DEF DequeuePop, TypeOK
    <2>2. TypeOK'
      BY <1>4, <1>c, <2>1, MaxLenAssumption, LenProperties DEF DequeuePop, TypeOK, ProducerAt, ConsumerAt, ObserverAt, Threads
    <2>3. HolderInv' /\ RoomToPush'
      BY <1>4, <1>c, <2>1, ThreadsAssumption, MaxLenAssumption, LenProperties DEF DequeuePop, TypeOK, HolderInv, RoomToPush, Critical, Threads
    <2>4. Unannounced' = Unannounced /\ Claimed' = Claimed \ {c} /\ c \in Claimed
      BY <1>4, <1>c DEF DequeuePop, TypeOK, Claimed, Unannounced, Threads
    <2>5. Cardinality(Claimed') = Cardinality(Claimed) - 1
      BY <2>4, InFlightFinite, FS_RemoveElement
    <2>6. permits' = permits /\ permits \in Nat /\ Len(items) \in Nat
      BY <1>4, LenProperties DEF DequeuePop, TypeOK
    <2>7. PermitAccounting'
      BY <2>1, <2>4, <2>5, <2>6, InFlightFinite DEF PermitAccounting
    <2>. QED
      BY <2>2, <2>3, <2>7
  <1>5. CASE DequeueUnlock(c)
    <2>1. TypeOK'
      BY <1>5, <1>c DEF DequeueUnlock, TypeOK, ProducerAt, ConsumerAt, ObserverAt, Threads
    <2>2. HolderInv' /\ RoomToPush'
      BY <1>5, <1>c, ThreadsAssumption DEF DequeueUnlock, TypeOK, HolderInv, RoomToPush, Critical, Threads
    <2>3. Claimed' = Claimed /\ Unannounced' = Unannounced
      BY <1>5, <1>c DEF DequeueUnlock, TypeOK, Claimed, Unannounced, Threads
    <2>. QED
      BY <1>5, <2>1, <2>2, <2>3 DEF DequeueUnlock, PermitAccounting
  <1>. QED
    BY <1>1, <1>2, <1>3, <1>4, <1>5 DEF ConsumerStep

(* isEmpty preserves the invariant.                                        *)
LEMMA ObserverIInv ==
  ASSUME IInv, NEW o \in Observers, ObserverStep(o)
  PROVE  IInv'
  <1> USE DEF IInv, Goto, Lock, Unlock
  <1>o. o \in Threads /\ o \notin Producers /\ o \notin Consumers
    BY ThreadsAssumption DEF Threads
  <1>s. ObserverStep(o) => /\ UNCHANGED <<items, permits, arg, result>>
                           /\ pc' \in [Threads -> ProducerAt \cup ConsumerAt \cup ObserverAt]
                           /\ \A t \in Threads \ {o} : pc'[t] = pc[t]
                           /\ pc'[o] \in ObserverAt
    BY <1>o DEF ObserverStep, IsEmptyLock, IsEmptyRead, IsEmptyUnlock, TypeOK, ObserverAt
  <1>1. TypeOK'
    <2>1. holder' \in Threads \cup {NoThread} /\ seenEmpty' \in [Observers -> BOOLEAN]
      BY <1>o DEF ObserverStep, IsEmptyLock, IsEmptyRead, IsEmptyUnlock, TypeOK
    <2>. QED
      BY <1>o, <1>s, <2>1 DEF TypeOK, Threads
  <1>2. HolderInv'
    BY <1>o, ThreadsAssumption DEF ObserverStep, IsEmptyLock, IsEmptyRead, IsEmptyUnlock, TypeOK, HolderInv, Critical, Threads
  <1>3. RoomToPush' /\ Claimed' = Claimed /\ Unannounced' = Unannounced
    BY <1>o, <1>s DEF RoomToPush, Claimed, Unannounced, Threads
  <1>. QED
    BY <1>s, <1>1, <1>2, <1>3 DEF PermitAccounting

(* The invariant holds in every reachable state.                           *)
THEOREM Invariance == Spec => []IInv
  <1>1. IInv /\ [Next]_vars => IInv'
    <2> SUFFICES ASSUME IInv, [Next]_vars PROVE IInv'
      OBVIOUS
    <2>1. CASE UNCHANGED vars
      BY <2>1 DEF vars, IInv, TypeOK, HolderInv, RoomToPush, PermitAccounting, Claimed, Unannounced
    <2>. QED
      BY <2>1, ProducerIInv, ConsumerIInv, ObserverIInv DEF Next
  <1>. QED
    BY <1>1, InitIInv, PTL DEF Spec

(* Every variable keeps its type; in particular the queue is a sequence of *)
(* elements even after pop().                                              *)
THEOREM TypeCorrect == Spec => []TypeOK
  BY Invariance, PTL DEF IInv

(* No two threads touch the std::queue at the same time.                   *)
THEOREM RaceFree == Spec => []MutualExclusion
  <1>1. IInv => MutualExclusion
    BY HolderExcludes DEF IInv
  <1>. QED
    BY <1>1, Invariance, PTL

(* The semaphore's value is the number of elements nobody has claimed.     *)
THEOREM PermitsCountElements == Spec => []PermitAccounting
  BY Invariance, PTL DEF IInv

(* dequeue never calls front() or pop() on an empty std::queue.            *)
THEOREM FrontIsDefined == Spec => []NeverFrontOfEmpty
  <1>1. IInv => NeverFrontOfEmpty
    BY ClaimedMeansNonempty DEF IInv, NeverFrontOfEmpty, Claimed
  <1>. QED
    BY <1>1, Invariance, PTL

-----------------------------------------------------------------------------
(* Nobody else is between front() and pop() while t is at a critical       *)
(* statement, so the refinement mapping is items itself.                   *)
LEMMA RemainingInside ==
  ASSUME HolderInv, NEW t \in Threads, pc[t] \in Critical, pc[t] # "pop"
  PROVE  Remaining = items
  BY DEF HolderInv, Remaining, Critical, Threads

(* An enqueue takes effect in push(), the other statements are invisible.  *)
LEMMA ProducerRefines ==
  ASSUME IInv, NEW p \in Producers, ProducerStep(p)
  PROVE  [Fifo!Next]_Fifo!vars
  <1> USE DEF IInv, Goto, Lock, Unlock
  <1>p. p \in Threads /\ p \notin Consumers
    BY ThreadsAssumption DEF Threads
  <1>1. CASE EnqueueLock(p) \/ EnqueueUnlock(p) \/ EnqueueSignal(p)
    <2>1. UNCHANGED <<items, result, seenEmpty>>
      BY <1>1 DEF EnqueueLock, EnqueueUnlock, EnqueueSignal
    <2>2. \A c \in Consumers : pc'[c] = pc[c]
      BY <1>1, <1>p DEF EnqueueLock, EnqueueUnlock, EnqueueSignal, TypeOK, Threads
    <2>. QED
      BY <2>1, <2>2 DEF Remaining, Fifo!vars
  <1>2. CASE EnqueuePush(p)
    <2>1. pc[p] = "push" /\ arg[p] \in Data /\ items' = Append(items, arg[p])
      BY <1>2 DEF EnqueuePush, TypeOK
    <2>2. Remaining = items
      BY <2>1, <1>p, RemainingInside DEF Critical
    <2>3. \A c \in Consumers : pc'[c] = pc[c] /\ pc[c] # "pop"
      BY <1>2, <2>1, <1>p DEF EnqueuePush, TypeOK, HolderInv, Critical, Threads
    <2>4. Remaining' = items'
      BY <2>3 DEF Remaining
    <2>5. Fifo!Enqueue(arg[p])
      BY <1>2, <2>1, <2>2, <2>4 DEF EnqueuePush, Fifo!Enqueue
    <2>. QED
      BY <2>1, <2>5 DEF Fifo!Next
  <1>. QED
    BY <1>1, <1>2 DEF ProducerStep

(* A dequeue takes effect when front() is copied.                          *)
LEMMA ConsumerRefines ==
  ASSUME IInv, NEW c \in Consumers, ConsumerStep(c)
  PROVE  [Fifo!Next]_Fifo!vars
  <1> USE DEF IInv, Goto, Lock, Unlock
  <1>c. c \in Threads
    BY DEF Threads
  <1>1. CASE DequeueWait(c) \/ DequeueLock(c) \/ DequeueUnlock(c)
    <2>1. UNCHANGED <<items, result, seenEmpty>>
      BY <1>1 DEF DequeueWait, DequeueLock, DequeueUnlock
    <2>2. \A k \in Consumers : pc'[k] = "pop" <=> pc[k] = "pop"
      BY <1>1, <1>c DEF DequeueWait, DequeueLock, DequeueUnlock, TypeOK, Threads
    <2>. QED
      BY <2>1, <2>2 DEF Remaining, Fifo!vars
  <1>2. CASE DequeueFront(c)
    <2>1. pc[c] = "front" /\ pc'[c] = "pop" /\ items' = items
      BY <1>2, <1>c DEF DequeueFront, TypeOK
    <2>2. Remaining = items /\ Remaining' = Tail(items)
      BY <2>1, <1>c, RemainingInside DEF Critical, Remaining
    <2>3. items # <<>>
      BY <2>1, ClaimedMeansNonempty DEF Claimed
    <2>4. Fifo!Dequeue(c)
      BY <1>2, <2>2, <2>3 DEF DequeueFront, Fifo!Dequeue
    <2>. QED
      BY <2>4 DEF Fifo!Next
  <1>3. CASE DequeuePop(c)
    <2>1. pc[c] = "pop" /\ items' = Tail(items)
      BY <1>3 DEF DequeuePop
    <2>2. Remaining = Tail(items)
      BY <2>1 DEF Remaining
    <2>3. \A k \in Consumers : pc'[k] # "pop"
      BY <1>3, <1>c DEF DequeuePop, TypeOK, HolderInv, Critical, Threads
    <2>4. Remaining' = items'
      BY <2>3 DEF Remaining
    <2>. QED
      BY <1>3, <2>1, <2>2, <2>4 DEF DequeuePop, Fifo!vars
  <1>. QED
    BY <1>1, <1>2, <1>3 DEF ConsumerStep

(* isEmpty answers for the moment it reads the queue.                      *)
LEMMA ObserverRefines ==
  ASSUME IInv, NEW o \in Observers, ObserverStep(o)
  PROVE  [Fifo!Next]_Fifo!vars
  <1> USE DEF IInv, Goto, Lock, Unlock
  <1>o. o \in Threads /\ o \notin Consumers
    BY ThreadsAssumption DEF Threads
  <1>1. UNCHANGED <<items, result>> /\ \A c \in Consumers : pc'[c] = pc[c]
    BY <1>o DEF ObserverStep, IsEmptyLock, IsEmptyRead, IsEmptyUnlock, TypeOK, Threads
  <1>2. Remaining' = Remaining
    BY <1>1 DEF Remaining
  <1>3. CASE IsEmptyLock(o) \/ IsEmptyUnlock(o)
    BY <1>1, <1>2, <1>3 DEF IsEmptyLock, IsEmptyUnlock, Fifo!vars
  <1>4. CASE IsEmptyRead(o)
    <2>1. Remaining = items
      BY <1>4, <1>o, RemainingInside DEF IsEmptyRead, Critical
    <2>2. Fifo!IsEmpty(o)
      BY <1>1, <1>2, <1>4, <2>1 DEF IsEmptyRead, Fifo!IsEmpty
    <2>. QED
      BY <2>2 DEF Fifo!Next
  <1>. QED
    BY <1>3, <1>4 DEF ObserverStep

(* The class implements the atomic queue for any threads and elements.     *)
THEOREM Refinement == Spec => ImplementsFifo
  <1>1. Init => Fifo!Init
    BY DEF Init, Fifo!Init, Remaining, Threads
  <1>2. IInv /\ [Next]_vars => [Fifo!Next]_Fifo!vars
    <2> SUFFICES ASSUME IInv, [Next]_vars PROVE [Fifo!Next]_Fifo!vars
      OBVIOUS
    <2>1. CASE UNCHANGED vars
      BY <2>1 DEF vars, Fifo!vars, Remaining
    <2>. QED
      BY <2>1, ProducerRefines, ConsumerRefines, ObserverRefines DEF Next
  <1>. QED
    BY <1>1, <1>2, Invariance, PTL DEF Spec, ImplementsFifo, Fifo!Spec
=============================================================================
