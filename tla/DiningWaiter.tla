----------------------------- MODULE DiningWaiter -----------------------------
(***************************************************************************)
(* The centralized dining philosophers of                                  *)
(* exercises/mpi/dining_philosophers_dist: NPhilosophers MPI processes and *)
(* a waiter process that owns the chopsticks.  A philosopher sends         *)
(* REQUEST, waits for GRANT, eats and sends RELEASE; the waiter queues the *)
(* requests and serves the queue from its front.                           *)
(*                                                                         *)
(* MPI is modelled by what its standard-mode send promises: the messages   *)
(* from one process to another arrive in the order they were sent, and     *)
(* MPI_Send returns at some time that may be before the message is         *)
(* received (the library buffered it) or only after it.                    *)
(***************************************************************************)
EXTENDS Integers, Sequences, FiniteSets

CONSTANT NPhilosophers   \* num_philosophers, 5 in the code

ASSUME PhilosophersAssumption == NPhilosophers \in Nat /\ NPhilosophers > 1

Philosophers == 0..NPhilosophers - 1
Left(p) == (p + 1) % NPhilosophers
Right(p) == p
Chopsticks(p) == {Left(p), Right(p)}

REQUEST == 0
RELEASE == 1

VARIABLES pc,            \* pc[p]: what philosopher p is doing
          toWaiter,      \* toWaiter[p]: messages from p not yet received
          granted,       \* the philosophers with a GRANT not yet received
          waiterAt,      \* what the waiter is doing
          chopsticks,    \* chopsticks[c]: 0 free, 1 taken
          requestQueue   \* request_queue, its philosophers

vars == <<pc, toWaiter, granted, waiterAt, chopsticks, requestQueue>>

Init == /\ pc = [p \in Philosophers |-> "thinking"]
        /\ toWaiter = [p \in Philosophers |-> <<>>]
        /\ granted = {}
        /\ waiterAt = "receiving"
        /\ chopsticks = [c \in Philosophers |-> 0]
        /\ requestQueue = <<>>

Goto(p, from, to) == /\ pc[p] = from
                     /\ pc' = [pc EXCEPT ![p] = to]

WaiterGoto(from, to) == waiterAt = from /\ waiterAt' = to

Send(p, type) == toWaiter' = [toWaiter EXCEPT ![p] = Append(@, type)]

Mark(p, taken) == chopsticks' =
  [c \in Philosophers |-> IF c \in Chopsticks(p) THEN taken ELSE chopsticks[c]]

-----------------------------------------------------------------------------
(* Faulty variants of the operations below, one mistake each.  No          *)
(* specification uses them: each shows that a property notices it.         *)

(* Only the left chopstick is looked at.                                   *)
OnlyLeftFree(p) == chopsticks[Left(p)] = 0

(* A taken chopstick holds the number of the philosopher, which is 0, free,*)
(* for the first one.                                                      *)
TakeByNumber(p) == Mark(p, p)

(* The left chopstick is not given back.                                   *)
FreesOnlyRight(p) == chopsticks' = [chopsticks EXCEPT ![Right(p)] = 0]

(* A request is served by adding it to the front of the queue.             *)
QueueAtTheFront(p) == requestQueue' = <<p>> \o requestQueue

(* After a RELEASE the waiter receives again without serving the queue.    *)
ReleaseServesNobody(p) ==
  /\ toWaiter[p] # <<>> /\ Head(toWaiter[p]) = RELEASE
  /\ WaiterGoto("receiving", "receiving")
  /\ toWaiter' = [toWaiter EXCEPT ![p] = Tail(@)]
  /\ Mark(p, 0)
  /\ UNCHANGED <<pc, granted, requestQueue>>

-----------------------------------------------------------------------------
(* philosopher(rank)                                                       *)

SendRequest(p) ==
  /\ Goto(p, "thinking", "requesting")
  /\ Send(p, REQUEST)
  /\ UNCHANGED <<granted, waiterAt, chopsticks, requestQueue>>

(* MPI_Send returns.                                                       *)
RequestSent(p) ==
  /\ Goto(p, "requesting", "hungry")
  /\ UNCHANGED <<toWaiter, granted, waiterAt, chopsticks, requestQueue>>

RecvGrant(p) ==
  /\ p \in granted
  /\ Goto(p, "hungry", "eating")
  /\ granted' = granted \ {p}
  /\ UNCHANGED <<toWaiter, waiterAt, chopsticks, requestQueue>>

SendRelease(p) ==
  /\ Goto(p, "eating", "releasing")
  /\ Send(p, RELEASE)
  /\ UNCHANGED <<granted, waiterAt, chopsticks, requestQueue>>

ReleaseSent(p) ==
  /\ Goto(p, "releasing", "thinking")
  /\ UNCHANGED <<toWaiter, granted, waiterAt, chopsticks, requestQueue>>

-----------------------------------------------------------------------------
(* waiter()                                                                *)

Enqueue(p) == requestQueue' = Append(requestQueue, p)

RecvRequest(p) ==
  /\ toWaiter[p] # <<>> /\ Head(toWaiter[p]) = REQUEST
  /\ WaiterGoto("receiving", "serving")
  /\ toWaiter' = [toWaiter EXCEPT ![p] = Tail(@)]
  /\ Enqueue(p)
  /\ UNCHANGED <<pc, granted, chopsticks>>

Free(p) == Mark(p, 0)

RecvRelease(p) ==
  /\ toWaiter[p] # <<>> /\ Head(toWaiter[p]) = RELEASE
  /\ WaiterGoto("receiving", "serving")
  /\ toWaiter' = [toWaiter EXCEPT ![p] = Tail(@)]
  /\ Free(p)
  /\ UNCHANGED <<pc, granted, requestQueue>>

Take(p) == Mark(p, 1)

BothFree(p) == chopsticks[Left(p)] = 0 /\ chopsticks[Right(p)] = 0

CanServe == requestQueue # <<>> /\ BothFree(Head(requestQueue))

SendGrant ==
  /\ CanServe
  /\ WaiterGoto("serving", "granting")
  /\ Take(Head(requestQueue))
  /\ granted' = granted \cup {Head(requestQueue)}
  /\ UNCHANGED <<pc, toWaiter, requestQueue>>

(* MPI_Send returns and the request is popped.                             *)
GrantSent ==
  /\ WaiterGoto("granting", "serving")
  /\ requestQueue' = Tail(requestQueue)
  /\ UNCHANGED <<pc, toWaiter, granted, chopsticks>>

(* The queue is empty, or its first request has to wait.                   *)
StopServing ==
  /\ ~CanServe
  /\ WaiterGoto("serving", "receiving")
  /\ UNCHANGED <<pc, toWaiter, granted, chopsticks, requestQueue>>

-----------------------------------------------------------------------------
PhilosopherStep(p) == \/ SendRequest(p) \/ RequestSent(p) \/ RecvGrant(p)
                      \/ SendRelease(p) \/ ReleaseSent(p)

Receive(p) == RecvRequest(p) \/ RecvRelease(p)

WaiterStep == \/ \E p \in Philosophers : Receive(p)
              \/ SendGrant \/ GrantSent \/ StopServing

Next == (\E p \in Philosophers : PhilosopherStep(p)) \/ WaiterStep

Spec == Init /\ [][Next]_vars

(* Everybody who can run runs (both sleeps end), but MPI need not return   *)
(* from a send before the message is received, and MPI_ANY_SOURCE may      *)
(* choose any sender: no philosopher's message is promised its turn.       *)
FairSpec ==
  /\ Spec
  /\ \A p \in Philosophers :
       /\ WF_vars(SendRequest(p) \/ RecvGrant(p) \/ SendRelease(p))
       /\ WF_vars(toWaiter[p] = <<>> /\ (RequestSent(p) \/ ReleaseSent(p)))
  /\ WF_vars((\E p \in Philosophers : Receive(p)) \/ SendGrant \/ StopServing)
  /\ WF_vars(granted = {} /\ GrantSent)

(* With an MPI that also receives every message some day.                  *)
FairReceiveSpec == FairSpec /\ \A p \in Philosophers : SF_vars(Receive(p))

-----------------------------------------------------------------------------
TypeOK ==
  /\ pc \in [Philosophers ->
               {"thinking", "requesting", "hungry", "eating", "releasing"}]
  /\ toWaiter \in [Philosophers -> Seq({REQUEST, RELEASE})]
  /\ granted \subseteq Philosophers
  /\ waiterAt \in {"receiving", "serving", "granting"}
  /\ chopsticks \in [Philosophers -> {0, 1}]
  /\ requestQueue \in Seq(Philosophers)

(* Two philosophers who share a chopstick never eat at the same time.      *)
NeighboursNeverEatTogether ==
  \A p, q \in Philosophers :
    /\ pc[p] = "eating" /\ pc[q] = "eating"
    /\ Chopsticks(p) \cap Chopsticks(q) # {}
    => p = q

(* The philosophers on whose behalf the waiter has taken two chopsticks,   *)
(* from its GRANT until it receives their RELEASE.                         *)
Served(p) == \/ p \in granted
             \/ pc[p] = "eating"
             \/ \E i \in DOMAIN toWaiter[p] : toWaiter[p][i] = RELEASE

(* What the waiter believes of the chopsticks is what is going on at the   *)
(* table and in the messages: each one taken is taken for one philosopher, *)
(* and none stays taken for nobody.                                        *)
ChopsticksAccounted ==
  \A c \in Philosophers :
    Cardinality({p \in Philosophers : Served(p) /\ c \in Chopsticks(p)}) = chopsticks[c]

(* A philosopher has at most one request with the waiter, so the queue     *)
(* never grows beyond the number of philosophers, and nobody in it is      *)
(* being served, but for the one whose GRANT is being sent.                *)
OneRequestEach ==
  /\ \A i, j \in DOMAIN requestQueue : requestQueue[i] = requestQueue[j] => i = j
  /\ \A i \in DOMAIN requestQueue :
       Served(requestQueue[i]) => i = 1 /\ waiterAt = "granting"

(* Whenever the waiter waits for a message while somebody is in its queue, *)
(* a message is going to come: somebody is served and has yet to release.  *)
WaiterNeverWaitsInVain ==
  waiterAt = "receiving" /\ requestQueue # <<>> =>
    \E p \in Philosophers : Served(p)

(* "Ausencia de Inanicion" (readme.md:12): a hungry philosopher eats some  *)
(* day, when every message is received some day.                           *)
NoStarvation == \A p \in Philosophers : (pc[p] = "requesting") ~> (pc[p] = "eating")
=============================================================================
