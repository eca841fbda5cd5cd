------------------------------ MODULE LinkedQueue ------------------------------
(***************************************************************************)
(* The linked list of examples/pthreads/pro_cons_unbound/src/queue.c:      *)
(* nodes in the heap, a head and a tail, and a mutex.  Any thread calls    *)
(* enqueue, dequeue, is_empty and clear.  What a function does between     *)
(* lock and unlock is one action, because nothing reads the list without   *)
(* the mutex; the allocation of a node happens before the lock, so nodes   *)
(* exist that are in nobody's list yet.                                    *)
(***************************************************************************)
EXTENDS Naturals, Sequences, FiniteSets, Functions

CONSTANTS Callers,   \* threads that call the functions
          Address,   \* where calloc can place a node
          Data,      \* the elements (size_t)
          NULL       \* the null pointer

ASSUME HeapAssumption == IsFiniteSet(Address) /\ NULL \notin Address

VARIABLES heap,      \* heap[a]: the node at a, for every allocated address a
          head,      \* queue->head
          tail,      \* queue->tail
          newNode,   \* newNode[t]: the local variable new_node of enqueue
          value      \* value[t]: *data after dequeue, the caller's old value 0

vars == <<heap, head, tail, newNode, value>>

(* queue_init(): a queue without nodes.                                    *)
Init == /\ heap = <<>>
        /\ head = NULL
        /\ tail = NULL
        /\ newNode = [t \in Callers |-> NULL]
        /\ value = [t \in Callers |-> 0]

Allocated == DOMAIN heap

Idle(t) == newNode[t] = NULL

(* queue_is_empty_unsafe()                                                 *)
IsEmpty == head = NULL

Without(a) == Restrict(heap, Allocated \ {a})

-----------------------------------------------------------------------------
(* Faulty variants of the operations below, one mistake each.  No          *)
(* specification uses them: each shows that a property notices it.         *)

(* The tail is not reset when the last node is removed.                    *)
RemoveKeepsTail ==
  /\ heap' = Without(head)
  /\ head' = heap[head].next
  /\ tail' = tail

(* The new node is linked in front of the others.                          *)
LinkInFront(t) ==
  /\ newNode[t] # NULL
  /\ heap' = [heap EXCEPT ![newNode[t]].next = head]
  /\ head' = newNode[t]
  /\ tail' = IF tail = NULL THEN newNode[t] ELSE tail
  /\ newNode' = [newNode EXCEPT ![t] = NULL]
  /\ UNCHANGED value

-----------------------------------------------------------------------------
(* queue_enqueue(data): the node is allocated and filled, then linked.     *)

Allocate(t) ==
  /\ Idle(t)
  /\ \E a \in Address \ Allocated, d \in Data :
       /\ heap' = [b \in Allocated \cup {a} |->
                     IF b = a THEN [data |-> d, next |-> NULL] ELSE heap[b]]
       /\ newNode' = [newNode EXCEPT ![t] = a]
  /\ UNCHANGED <<head, tail, value>>

(* Without a node enqueue returns EXIT_FAILURE and changes nothing: that   *)
(* is a stuttering step.                                                   *)
Link(t) ==
  /\ newNode[t] # NULL
  /\ IF tail # NULL
     THEN heap' = [heap EXCEPT ![tail].next = newNode[t]] /\ head' = head
     ELSE heap' = heap /\ head' = newNode[t]
  /\ tail' = newNode[t]
  /\ newNode' = [newNode EXCEPT ![t] = NULL]
  /\ UNCHANGED value

-----------------------------------------------------------------------------
(* queue_remove_first_unsafe()                                             *)
RemoveFirst ==
  /\ heap' = Without(head)
  /\ head' = heap[head].next
  /\ tail' = IF heap[head].next = NULL THEN NULL ELSE tail

(* queue_dequeue(): an empty queue leaves the caller's variable alone,     *)
(* which both callers have set to 0.                                       *)
DequeueFirst(t) ==
  /\ Idle(t) /\ ~IsEmpty
  /\ value' = [value EXCEPT ![t] = heap[head].data]
  /\ RemoveFirst
  /\ UNCHANGED newNode

DequeueNothing(t) ==
  /\ Idle(t) /\ IsEmpty
  /\ value' = [value EXCEPT ![t] = 0]
  /\ UNCHANGED <<heap, head, tail, newNode>>

-----------------------------------------------------------------------------
(* The nodes in the order of the list: follow next from head.  A list that *)
(* runs in a circle, or into freed memory, has no end among its nodes.     *)
NextOf(a) == IF a \in Allocated THEN heap[a].next ELSE NULL
NodeAt[n \in Nat] == IF n = 0 THEN head ELSE NextOf(NodeAt[n - 1])
Steps == 0..Cardinality(Address)
Reached == {NodeAt[n] : n \in Steps} \ {NULL}
Contents == [i \in 1..Cardinality(Reached) |-> heap[NodeAt[i - 1]].data]

(* queue_clear(): remove_first until the queue is empty.                   *)
Clear(t) ==
  /\ Idle(t) /\ ~IsEmpty
  /\ heap' = Restrict(heap, Allocated \ Reached)
  /\ head' = NULL /\ tail' = NULL
  /\ UNCHANGED <<newNode, value>>

-----------------------------------------------------------------------------
Next == \E t \in Callers : \/ Allocate(t) \/ Link(t)
                           \/ DequeueFirst(t) \/ DequeueNothing(t)
                           \/ Clear(t)

Spec == Init /\ [][Next]_vars

-----------------------------------------------------------------------------
Pointer == Address \cup {NULL}

TypeOK == /\ Allocated \subseteq Address
          /\ \A a \in Allocated : heap[a] \in [data : Data, next : Pointer]
          /\ head \in Pointer /\ tail \in Pointer
          /\ newNode \in [Callers -> Pointer]
          /\ value \in [Callers -> Data \cup {0}]

(* From the head the list comes to the tail and ends there, over allocated *)
(* nodes only; an empty queue has neither.  (A stale tail would make the   *)
(* next enqueue write into a freed node.)                                  *)
ListEndsAtTail ==
  /\ Reached \subseteq Allocated
  /\ \E n \in Steps : NodeAt[n] = NULL
  /\ IF head = NULL THEN tail = NULL
                    ELSE tail \in Reached /\ heap[tail].next = NULL

(* Every allocated node is in the list or on its way into it, and never in *)
(* both: nothing leaks, and nothing private to a thread can be freed by    *)
(* another one.                                                            *)
EveryNodeAccounted ==
  LET Private == {newNode[t] : t \in Callers} \ {NULL}
  IN  Reached \cap Private = {} /\ Reached \cup Private = Allocated

(* The linked list is whole: head, tail and the pointers between are one   *)
(* chain, and a node is in it, in a thread's hands, or free.               *)
ListIsWhole == ListEndsAtTail /\ EveryNodeAccounted

(* The list is a first-in first-out queue: it only changes by getting one  *)
(* element at its end, by giving its first element to the caller of        *)
(* dequeue or by being cleared.                                            *)
FirstInFirstOut ==
  [][\/ Contents' = Contents
     \/ \E t \in Callers :
          /\ newNode[t] # NULL /\ newNode'[t] = NULL
          /\ Contents' = Append(Contents, heap[newNode[t]].data)
     \/ \E t \in Callers :
          /\ Contents # <<>>
          /\ Contents' = Tail(Contents) /\ value'[t] = Head(Contents)
     \/ Contents' = <<>> /\ value' = value]_vars
=============================================================================
