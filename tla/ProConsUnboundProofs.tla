------------------------ MODULE ProConsUnboundProofs ------------------------
(***************************************************************************)
(* Proofs about ProConsUnbound for any number of units, producers and      *)
(* consumers, whatever allocation or creation of a thread fails.           *)
(***************************************************************************)
EXTENDS ProConsUnbound, FiniteSetTheorems, SequenceTheorems, TLAPS

Doings == {"unborn", "running", "producing", "signalling", "waiting",
           "dequeuing", "consuming", "done"}

(* The producers and the consumers are different threads, at least one of  *)
(* each.                                                                   *)
LEMMA Groups ==
  /\ Threads = Producers \cup Consumers
  /\ Producers \cap Consumers = {}
  /\ 1 \in Producers /\ ProducerCount + 1 \in Consumers
  /\ IsFiniteSet(Threads)
  <1>1. 1 \in Producers /\ ProducerCount + 1 \in Consumers /\ Producers \cap Consumers = {}
    BY ArgumentsAssumption DEF Producers, Consumers
  <1>2. Threads = 1..ProducerCount + ConsumerCount
    BY ArgumentsAssumption DEF Threads, Producers, Consumers
  <1>3. IsFiniteSet(1..ProducerCount + ConsumerCount)
    BY FS_Interval, ArgumentsAssumption
  <1>. QED
    BY <1>1, <1>2, <1>3 DEF Threads

(* A step of a thread changes what that thread is doing.                   *)
LEMMA GotoEffect ==
  ASSUME TypeOK, NEW t \in Threads, NEW from, NEW to \in Doings, Goto(t, from, to)
  PROVE  /\ pc[t] = from /\ pc'[t] = to
         /\ pc' \in [Threads -> Doings]
         /\ \A k \in Threads \ {t} : pc'[k] = pc[k]
         /\ mainAt \notin {"destroyed", "exited"}
  BY DEF Goto, TypeOK, Doings

(* Who does what: a producer that is producing has a number, and a thread  *)
(* that has no unit has none; a thread ends when the numbers have run out. *)
PlacesInv ==
  /\ \A p \in Producers : pc[p] \in {"unborn", "running", "producing", "signalling", "done"}
  /\ \A c \in Consumers : pc[c] \in {"unborn", "running", "waiting", "dequeuing", "consuming", "done"}
  /\ \A t \in Threads : /\ pc[t] = "unborn" <=> t \notin created
                        /\ pc[t] = "producing" => unit[t] # 0
                        /\ pc[t] \notin {"producing", "signalling", "consuming"} => unit[t] = 0
  /\ \A p \in Producers : pc[p] = "done" => nextUnit = UnitCount
  /\ \A c \in Consumers : pc[c] = "done" => consumedCount = UnitCount

(* The initial state is well typed.                                        *)
LEMMA InitTypes == Init => TypeOK /\ PlacesInv
  <1> SUFFICES ASSUME Init PROVE TypeOK /\ PlacesInv
    OBVIOUS
  <1>1. TypeOK
    <2>1. << >> \in Seq(Units) /\ << >> \in Seq(0..UnitCount)
      OBVIOUS
    <2>2. queue \in Seq(Units) /\ consumed \in Seq(0..UnitCount)
      BY <2>1 DEF Init
    <2>3. 0 \in 0..UnitCount
      BY ArgumentsAssumption
    <2>. QED
      BY <2>2, <2>3 DEF Init, TypeOK
  <1>2. PlacesInv
    BY Groups DEF Init, PlacesInv
  <1>. QED
    BY <1>1, <1>2

(* A step of a producer preserves the types.                               *)
LEMMA ProducerTypes ==
  ASSUME TypeOK, PlacesInv, NEW p \in Producers, ProducerStep(p)
  PROVE  TypeOK' /\ PlacesInv'
  <1>1. p \in Threads /\ p \notin Consumers /\ Producers \subseteq Threads /\ Consumers \subseteq Threads
    BY Groups
  <1>2. CASE ProducerTake(p)
    <2>1. nextUnit + 1 \in Units /\ nextUnit' = nextUnit + 1 /\ nextUnit # UnitCount
      BY <1>2, ArgumentsAssumption DEF ProducerTake, TypeOK, Units
    <2>2. unit' \in [Threads -> 0..UnitCount] /\ unit'[p] # 0 /\ \A k \in Threads \ {p} : unit'[k] = unit[k]
      BY <1>1, <1>2, <2>1 DEF ProducerTake, TypeOK, Units
    <2>3. TypeOK'
      BY <1>1, <1>2, <2>1, <2>2, GotoEffect DEF ProducerTake, TypeOK, Units, Doings
    <2>4. PlacesInv'
      BY <1>1, <1>2, <2>1, <2>2, GotoEffect DEF ProducerTake, PlacesInv, Doings
    <2>. QED
      BY <2>3, <2>4
  <1>3. CASE ProducerEnd(p)
    <2>1. nextUnit = UnitCount
      BY <1>3, ArgumentsAssumption DEF ProducerEnd, TypeOK
    <2>2. TypeOK'
      BY <1>1, <1>3, GotoEffect DEF ProducerEnd, TypeOK, Doings, shared
    <2>3. PlacesInv'
      BY <1>1, <1>3, <2>1, GotoEffect DEF ProducerEnd, PlacesInv, Doings, shared
    <2>. QED
      BY <2>2, <2>3
  <1>4. CASE ProducerEnqueue(p)
    <2>1. unit[p] \in Units
      BY <1>1, <1>4, GotoEffect, ArgumentsAssumption DEF ProducerEnqueue, PlacesInv, TypeOK, Units, Doings
    <2>2. queue' \in Seq(Units)
      BY <1>4, <2>1, AppendProperties DEF ProducerEnqueue, TypeOK
    <2>3. TypeOK'
      BY <1>1, <1>4, <2>2, GotoEffect DEF ProducerEnqueue, TypeOK, Doings
    <2>4. PlacesInv'
      BY <1>1, <1>4, GotoEffect DEF ProducerEnqueue, PlacesInv, Doings
    <2>. QED
      BY <2>3, <2>4
  <1>5. CASE ProducerEnqueueFails(p)
    <2>1. unit[p] \in Units
      BY <1>1, <1>5, GotoEffect, ArgumentsAssumption DEF ProducerEnqueueFails, PlacesInv, TypeOK, Units, Doings
    <2>2. TypeOK'
      BY <1>1, <1>5, <2>1, GotoEffect DEF ProducerEnqueueFails, TypeOK, Doings
    <2>3. PlacesInv'
      BY <1>1, <1>5, GotoEffect DEF ProducerEnqueueFails, PlacesInv, Doings
    <2>. QED
      BY <2>2, <2>3
  <1>6. CASE ProducerSignal(p)
    <2>1. unit' \in [Threads -> 0..UnitCount] /\ unit'[p] = 0 /\ \A k \in Threads \ {p} : unit'[k] = unit[k]
      BY <1>1, <1>6, ArgumentsAssumption DEF ProducerSignal, TypeOK
    <2>2. TypeOK'
      BY <1>1, <1>6, <2>1, GotoEffect DEF ProducerSignal, TypeOK, Doings
    <2>3. PlacesInv'
      BY <1>1, <1>6, <2>1, GotoEffect DEF ProducerSignal, PlacesInv, Doings
    <2>. QED
      BY <2>2, <2>3
  <1>. QED
    BY <1>2, <1>3, <1>4, <1>5, <1>6 DEF ProducerStep

(* A step of a consumer preserves the types.                               *)
LEMMA ConsumerTypes ==
  ASSUME TypeOK, PlacesInv, NEW c \in Consumers, ConsumerStep(c)
  PROVE  TypeOK' /\ PlacesInv'
  <1>1. c \in Threads /\ c \notin Producers /\ Producers \subseteq Threads /\ Consumers \subseteq Threads
    BY Groups
  <1>2. CASE ConsumerReserve(c)
    <2>1. consumedCount' \in 0..UnitCount /\ consumedCount # UnitCount
      BY <1>2, ArgumentsAssumption DEF ConsumerReserve, TypeOK
    <2>2. TypeOK'
      BY <1>1, <1>2, <2>1, GotoEffect DEF ConsumerReserve, TypeOK, Doings
    <2>3. PlacesInv'
      BY <1>1, <1>2, <2>1, GotoEffect DEF ConsumerReserve, PlacesInv, Doings
    <2>. QED
      BY <2>2, <2>3
  <1>3. CASE ConsumerEnd(c)
    <2>1. consumedCount = UnitCount
      BY <1>3, ArgumentsAssumption DEF ConsumerEnd, TypeOK
    <2>2. TypeOK'
      BY <1>1, <1>3, GotoEffect DEF ConsumerEnd, TypeOK, Doings, shared
    <2>3. PlacesInv'
      BY <1>1, <1>3, <2>1, GotoEffect DEF ConsumerEnd, PlacesInv, Doings, shared
    <2>. QED
      BY <2>2, <2>3
  <1>4. CASE ConsumerWait(c)
    <2>1. canConsume' \in Nat
      BY <1>4 DEF ConsumerWait, TypeOK
    <2>2. TypeOK'
      BY <1>1, <1>4, <2>1, GotoEffect DEF ConsumerWait, TypeOK, Doings
    <2>3. PlacesInv'
      BY <1>1, <1>4, GotoEffect DEF ConsumerWait, PlacesInv, Doings
    <2>. QED
      BY <2>2, <2>3
  <1>5. CASE ConsumerDequeue(c)
    <2>1. Head(queue) \in Units /\ queue' \in Seq(Units)
      BY <1>5, HeadTailProperties DEF ConsumerDequeue, TypeOK
    <2>2. unit' \in [Threads -> 0..UnitCount] /\ \A k \in Threads \ {c} : unit'[k] = unit[k]
      BY <1>1, <1>5, <2>1 DEF ConsumerDequeue, TypeOK, Units
    <2>3. TypeOK'
      BY <1>1, <1>5, <2>1, <2>2, GotoEffect DEF ConsumerDequeue, TypeOK, Doings
    <2>4. PlacesInv'
      <3>1. /\ pc'[c] = "consuming" /\ pc[c] = "dequeuing"
            /\ \A k \in Threads \ {c} : pc'[k] = pc[k]
            /\ UNCHANGED <<created, nextUnit, consumedCount>>
        BY <1>1, <1>5, GotoEffect DEF ConsumerDequeue, Doings
      <3>. QED
        BY <1>1, <2>2, <3>1 DEF PlacesInv
    <2>. QED
      BY <2>3, <2>4
  <1>6. CASE ConsumerDequeueNothing(c)
    <2>1. TypeOK'
      BY <1>1, <1>6, GotoEffect DEF ConsumerDequeueNothing, TypeOK, Doings, shared
    <2>2. PlacesInv'
      BY <1>1, <1>6, GotoEffect DEF ConsumerDequeueNothing, PlacesInv, Doings, shared
    <2>. QED
      BY <2>1, <2>2
  <1>7. CASE ConsumerConsume(c)
    <2>1. unit[c] \in 0..UnitCount
      BY <1>1 DEF TypeOK
    <2>2. consumed' \in Seq(0..UnitCount)
      BY <1>7, <2>1, AppendProperties DEF ConsumerConsume, TypeOK
    <2>3. unit' \in [Threads -> 0..UnitCount] /\ unit'[c] = 0 /\ \A k \in Threads \ {c} : unit'[k] = unit[k]
      BY <1>1, <1>7, ArgumentsAssumption DEF ConsumerConsume, TypeOK
    <2>4. TypeOK'
      BY <1>1, <1>7, <2>2, <2>3, GotoEffect DEF ConsumerConsume, TypeOK, Doings, shared
    <2>5. PlacesInv'
      BY <1>1, <1>7, <2>3, GotoEffect DEF ConsumerConsume, PlacesInv, Doings, shared
    <2>. QED
      BY <2>4, <2>5
  <1>. QED
    BY <1>2, <1>3, <1>4, <1>5, <1>6, <1>7 DEF ConsumerStep

(* A thread that is created was not there before.                          *)
LEMMA CreateEffect ==
  ASSUME TypeOK, PlacesInv, CreateProducer \/ CreateConsumer
  PROVE  \E t \in Threads : /\ t \notin created /\ Create(t)
                            /\ pc[t] = "unborn" /\ pc' = [pc EXCEPT ![t] = "running"]
  <1>1. CASE CreateProducer
    <2>1. PICK p \in Producers : created = 1..p - 1 /\ Create(p)
      BY <1>1 DEF CreateProducer
    <2>2. p \notin created
      BY <2>1 DEF Producers
    <2>. QED
      BY <2>1, <2>2, Groups DEF Create, PlacesInv
  <1>2. CASE CreateConsumer
    <2>1. PICK c \in Consumers : created \cap Consumers = ProducerCount + 1..c - 1 /\ Create(c)
      BY <1>2 DEF CreateConsumer
    <2>2. c \notin created
      BY <2>1, ArgumentsAssumption DEF Consumers
    <2>. QED
      BY <2>1, <2>2, Groups DEF Create, PlacesInv
  <1>. QED
    BY <1>1, <1>2

(* What the main thread does besides creating threads.                     *)
MainOnly == /\ mainAt' \in {"createProducers", "undoProducers", "createConsumers",
                            "undoConsumers", "joinProducers", "joinConsumers",
                            "destroy", "destroyed", "exited"}
            /\ failed' \in {failed, TRUE}
            /\ queue' \in {queue, <<>>}
            /\ UNCHANGED <<created, pc, unit, nextUnit, canConsume, consumedCount, consumed, refused>>

LEMMA MainEffect ==
  ASSUME MainStep
  PROVE  MainOnly \/ CreateProducer \/ CreateConsumer
  BY DEF MainStep, MainOnly, ProducersCreated, ProducersRefused, UndoProducers, ConsumersCreated,
         ConsumersRefused, UndoConsumers, JoinProducers, JoinConsumers, Destroy, Exit, MainGoto, shared

(* Every step preserves the types.                                         *)
LEMMA NextTypes == TypeOK /\ PlacesInv /\ [Next]_vars => TypeOK' /\ PlacesInv'
  <1> SUFFICES ASSUME TypeOK, PlacesInv, [Next]_vars PROVE TypeOK' /\ PlacesInv'
    OBVIOUS
  <1>1. CASE MainOnly
    <2>1. queue' \in Seq(Units)
      <3>1. << >> \in Seq(Units)
        OBVIOUS
      <3>. QED
        BY <1>1, <3>1 DEF MainOnly, TypeOK
    <2>2. TypeOK'
      BY <1>1, <2>1 DEF MainOnly, TypeOK
    <2>3. PlacesInv'
      BY <1>1 DEF MainOnly, PlacesInv
    <2>. QED
      BY <2>2, <2>3
  <1>2. CASE CreateProducer \/ CreateConsumer
    <2>1. PICK t \in Threads : /\ t \notin created /\ Create(t)
                               /\ pc[t] = "unborn" /\ pc' = [pc EXCEPT ![t] = "running"]
      BY <1>2, CreateEffect
    <2>2. mainAt' \in {"createProducers", "createConsumers"}
      BY <1>2 DEF CreateProducer, CreateConsumer, MainGoto
    <2>3. TypeOK'
      BY <2>1, <2>2 DEF Create, TypeOK, shared
    <2>4. /\ pc'[t] = "running" /\ created' = created \cup {t}
          /\ \A k \in Threads \ {t} : pc'[k] = pc[k]
          /\ UNCHANGED <<unit, nextUnit, consumedCount>>
      BY <2>1 DEF Create, TypeOK, shared
    <2>5. PlacesInv'
      BY <2>1, <2>4, Groups DEF PlacesInv
    <2>. QED
      BY <2>3, <2>5
  <1>3. CASE UNCHANGED vars
    BY <1>3 DEF vars, TypeOK, PlacesInv
  <1>. QED
    BY <1>1, <1>2, <1>3, MainEffect, ProducerTypes, ConsumerTypes DEF Next

(* Every variable keeps its type.                                          *)
THEOREM TypeCorrect == Spec => []TypeOK
  BY InitTypes, NextTypes, PTL DEF Spec

-----------------------------------------------------------------------------
N(place) == Cardinality(At(place))

(* A step of a thread moves it from one place to another.                  *)
Moved(from, to, place) == IF place = from THEN N(place) - 1
                          ELSE IF place = to THEN N(place) + 1 ELSE N(place)
Counted(from, to) == /\ N("producing")' = Moved(from, to, "producing")
                     /\ N("signalling")' = Moved(from, to, "signalling")
                     /\ N("waiting")' = Moved(from, to, "waiting")
                     /\ N("dequeuing")' = Moved(from, to, "dequeuing")
                     /\ N("consuming")' = Moved(from, to, "consuming")

LEMMA MoveCounts ==
  ASSUME TypeOK, NEW t \in Threads, NEW from \in Doings, NEW to \in Doings, from # to,
         pc[t] = from, pc' = [pc EXCEPT ![t] = to]
  PROVE  /\ Counted(from, to)
         /\ from = "dequeuing" => N("dequeuing") # 0
  <1>1. ASSUME NEW place
        PROVE  /\ N(place)' = Moved(from, to, place)
               /\ place = from => N(place) # 0
    <2>1. IsFiniteSet(At(place))
      BY Groups, FS_Subset DEF At
    <2>2. CASE place = from
      <3>1. At(place)' = At(place) \ {t} /\ t \in At(place)
        BY <2>2 DEF At, TypeOK
      <3>. QED
        BY <2>1, <2>2, <3>1, FS_RemoveElement, FS_EmptySet DEF N, Moved
    <2>3. CASE place = to
      <3>1. At(place)' = At(place) \cup {t} /\ t \notin At(place)
        BY <2>3 DEF At, TypeOK
      <3>. QED
        BY <2>1, <2>3, <3>1, FS_AddElement DEF N, Moved
    <2>4. CASE place # from /\ place # to
      <3>1. At(place)' = At(place)
        BY <2>4 DEF At, TypeOK
      <3>. QED
        BY <2>4, <3>1 DEF N, Moved
    <2>. QED
      BY <2>2, <2>3, <2>4
  <1>. QED
    BY <1>1 DEF Counted

LEMMA CountTypes ==
  /\ N("producing") \in Nat
  /\ N("signalling") \in Nat
  /\ N("waiting") \in Nat
  /\ N("dequeuing") \in Nat
  /\ N("consuming") \in Nat
  BY Groups, FS_Subset, FS_CardinalityType DEF N, At

(* Every number that was taken has led to a unit that is being produced,   *)
(* to a signal that is about to be given or to be used, or to a value that *)
(* is consumed; every reservation to a consumer that is under way or done. *)
CountsInv ==
  /\ nextUnit = N("producing") + N("signalling") + canConsume
                + N("dequeuing") + N("consuming") + Len(consumed)
  /\ consumedCount = N("waiting") + N("dequeuing") + N("consuming") + Len(consumed)

LEMMA InitCounts == Init => CountsInv
  <1> SUFFICES ASSUME Init PROVE CountsInv
    OBVIOUS
  <1>1. ASSUME NEW place \in Doings \ {"unborn"} PROVE N(place) = 0
    <2>1. At(place) = {}
      BY DEF Init, At, Doings
    <2>. QED
      BY <2>1, FS_EmptySet DEF N
  <1>. QED
    BY <1>1 DEF Init, CountsInv, Doings

(* Every step keeps the counts.                                            *)
LEMMA NextCounts == TypeOK /\ PlacesInv /\ CountsInv /\ [Next]_vars => CountsInv'
  <1> SUFFICES ASSUME TypeOK, PlacesInv, CountsInv, [Next]_vars PROVE CountsInv'
    OBVIOUS
  <1>1. Len(consumed) \in Nat /\ nextUnit \in Nat /\ canConsume \in Nat /\ consumedCount \in Nat
    BY LenProperties DEF TypeOK
  <1>2. ASSUME UNCHANGED <<pc, nextUnit, canConsume, consumedCount, consumed>> PROVE CountsInv'
    BY <1>2 DEF CountsInv, N, At
  <1>3. ASSUME NEW p \in Producers, ProducerStep(p) PROVE CountsInv'
    <2>1. p \in Threads
      BY Groups
    <2>2. CASE ProducerTake(p)
      <3>1. Counted("running", "producing")
        BY <2>1, <2>2, MoveCounts DEF ProducerTake, Goto, Doings
      <3>2. nextUnit' = nextUnit + 1 /\ UNCHANGED <<canConsume, consumedCount, consumed>>
        BY <2>2 DEF ProducerTake, shared
      <3>3. /\ N("producing")' = N("producing") + 1
            /\ N("signalling")' = N("signalling")
            /\ N("waiting")' = N("waiting")
            /\ N("dequeuing")' = N("dequeuing")
            /\ N("consuming")' = N("consuming")
        BY <3>1 DEF Counted, Moved
      <3>. QED
        BY <1>1, <3>2, <3>3, CountTypes, SMTT(60) DEF CountsInv
    <2>3. CASE ProducerEnd(p)
      <3>1. Counted("running", "done")
        BY <2>1, <2>3, MoveCounts DEF ProducerEnd, Goto, Doings
      <3>2. UNCHANGED <<nextUnit, canConsume, consumedCount, consumed>>
        BY <2>3 DEF ProducerEnd, shared
      <3>3. /\ N("producing")' = N("producing")
            /\ N("signalling")' = N("signalling")
            /\ N("waiting")' = N("waiting")
            /\ N("dequeuing")' = N("dequeuing")
            /\ N("consuming")' = N("consuming")
        BY <3>1 DEF Counted, Moved
      <3>. QED
        BY <1>1, <3>2, <3>3, CountTypes, SMTT(60) DEF CountsInv
    <2>4. CASE ProducerEnqueue(p)
      <3>1. Counted("producing", "signalling")
        BY <2>1, <2>4, MoveCounts DEF ProducerEnqueue, Goto, Doings
      <3>2. UNCHANGED <<nextUnit, canConsume, consumedCount, consumed>>
        BY <2>4 DEF ProducerEnqueue, shared
      <3>3. /\ N("producing")' = N("producing") - 1
            /\ N("signalling")' = N("signalling") + 1
            /\ N("waiting")' = N("waiting")
            /\ N("dequeuing")' = N("dequeuing")
            /\ N("consuming")' = N("consuming")
        BY <3>1 DEF Counted, Moved
      <3>. QED
        BY <1>1, <3>2, <3>3, CountTypes, SMTT(60) DEF CountsInv
    <2>5. CASE ProducerEnqueueFails(p)
      <3>1. Counted("producing", "signalling")
        BY <2>1, <2>5, MoveCounts DEF ProducerEnqueueFails, Goto, Doings
      <3>2. UNCHANGED <<nextUnit, canConsume, consumedCount, consumed>>
        BY <2>5 DEF ProducerEnqueueFails, shared
      <3>3. /\ N("producing")' = N("producing") - 1
            /\ N("signalling")' = N("signalling") + 1
            /\ N("waiting")' = N("waiting")
            /\ N("dequeuing")' = N("dequeuing")
            /\ N("consuming")' = N("consuming")
        BY <3>1 DEF Counted, Moved
      <3>. QED
        BY <1>1, <3>2, <3>3, CountTypes, SMTT(60) DEF CountsInv
    <2>6. CASE ProducerSignal(p)
      <3>1. Counted("signalling", "running")
        BY <2>1, <2>6, MoveCounts DEF ProducerSignal, Goto, Doings
      <3>2. canConsume' = canConsume + 1 /\ UNCHANGED <<nextUnit, consumedCount, consumed>>
        BY <2>6 DEF ProducerSignal, shared
      <3>3. /\ N("producing")' = N("producing")
            /\ N("signalling")' = N("signalling") - 1
            /\ N("waiting")' = N("waiting")
            /\ N("dequeuing")' = N("dequeuing")
            /\ N("consuming")' = N("consuming")
        BY <3>1 DEF Counted, Moved
      <3>. QED
        BY <1>1, <3>2, <3>3, CountTypes, SMTT(60) DEF CountsInv
    <2>. QED
      BY <1>3, <2>2, <2>3, <2>4, <2>5, <2>6 DEF ProducerStep
  <1>4. ASSUME NEW c \in Consumers, ConsumerStep(c) PROVE CountsInv'
    <2>1. c \in Threads
      BY Groups
    <2>2. CASE ConsumerReserve(c)
      <3>1. Counted("running", "waiting")
        BY <2>1, <2>2, MoveCounts DEF ConsumerReserve, Goto, Doings
      <3>2. consumedCount' = consumedCount + 1 /\ UNCHANGED <<nextUnit, canConsume, consumed>>
        BY <2>2 DEF ConsumerReserve, shared
      <3>3. /\ N("producing")' = N("producing")
            /\ N("signalling")' = N("signalling")
            /\ N("waiting")' = N("waiting") + 1
            /\ N("dequeuing")' = N("dequeuing")
            /\ N("consuming")' = N("consuming")
        BY <3>1 DEF Counted, Moved
      <3>. QED
        BY <1>1, <3>2, <3>3, CountTypes, SMTT(60) DEF CountsInv
    <2>3. CASE ConsumerEnd(c)
      <3>1. Counted("running", "done")
        BY <2>1, <2>3, MoveCounts DEF ConsumerEnd, Goto, Doings
      <3>2. UNCHANGED <<nextUnit, canConsume, consumedCount, consumed>>
        BY <2>3 DEF ConsumerEnd, shared
      <3>3. /\ N("producing")' = N("producing")
            /\ N("signalling")' = N("signalling")
            /\ N("waiting")' = N("waiting")
            /\ N("dequeuing")' = N("dequeuing")
            /\ N("consuming")' = N("consuming")
        BY <3>1 DEF Counted, Moved
      <3>. QED
        BY <1>1, <3>2, <3>3, CountTypes, SMTT(60) DEF CountsInv
    <2>4. CASE ConsumerWait(c)
      <3>1. Counted("waiting", "dequeuing")
        BY <2>1, <2>4, MoveCounts DEF ConsumerWait, Goto, Doings
      <3>2. canConsume' = canConsume - 1 /\ UNCHANGED <<nextUnit, consumedCount, consumed>>
        BY <2>4 DEF ConsumerWait, shared
      <3>3. /\ N("producing")' = N("producing")
            /\ N("signalling")' = N("signalling")
            /\ N("waiting")' = N("waiting") - 1
            /\ N("dequeuing")' = N("dequeuing") + 1
            /\ N("consuming")' = N("consuming")
        BY <3>1 DEF Counted, Moved
      <3>. QED
        BY <1>1, <3>2, <3>3, CountTypes, SMTT(60) DEF CountsInv
    <2>5. CASE ConsumerDequeue(c)
      <3>1. Counted("dequeuing", "consuming")
        BY <2>1, <2>5, MoveCounts DEF ConsumerDequeue, Goto, Doings
      <3>2. UNCHANGED <<nextUnit, canConsume, consumedCount, consumed>>
        BY <2>5 DEF ConsumerDequeue, shared
      <3>3. /\ N("producing")' = N("producing")
            /\ N("signalling")' = N("signalling")
            /\ N("waiting")' = N("waiting")
            /\ N("dequeuing")' = N("dequeuing") - 1
            /\ N("consuming")' = N("consuming") + 1
        BY <3>1 DEF Counted, Moved
      <3>. QED
        BY <1>1, <3>2, <3>3, CountTypes, SMTT(60) DEF CountsInv
    <2>6. CASE ConsumerDequeueNothing(c)
      <3>1. Counted("dequeuing", "consuming")
        BY <2>1, <2>6, MoveCounts DEF ConsumerDequeueNothing, Goto, Doings
      <3>2. UNCHANGED <<nextUnit, canConsume, consumedCount, consumed>>
        BY <2>6 DEF ConsumerDequeueNothing, shared
      <3>3. /\ N("producing")' = N("producing")
            /\ N("signalling")' = N("signalling")
            /\ N("waiting")' = N("waiting")
            /\ N("dequeuing")' = N("dequeuing") - 1
            /\ N("consuming")' = N("consuming") + 1
        BY <3>1 DEF Counted, Moved
      <3>. QED
        BY <1>1, <3>2, <3>3, CountTypes, SMTT(60) DEF CountsInv
    <2>7. CASE ConsumerConsume(c)
      <3>1. Counted("consuming", "running")
        BY <2>1, <2>7, MoveCounts DEF ConsumerConsume, Goto, Doings
      <3>2. Len(consumed') = Len(consumed) + 1 /\ UNCHANGED <<nextUnit, canConsume, consumedCount>>
        BY <2>1, <2>7, AppendProperties DEF ConsumerConsume, shared, TypeOK
      <3>3. /\ N("producing")' = N("producing")
            /\ N("signalling")' = N("signalling")
            /\ N("waiting")' = N("waiting")
            /\ N("dequeuing")' = N("dequeuing")
            /\ N("consuming")' = N("consuming") - 1
        BY <3>1 DEF Counted, Moved
      <3>. QED
        BY <1>1, <3>2, <3>3, CountTypes, SMTT(60) DEF CountsInv
    <2>. QED
      BY <1>4, <2>2, <2>3, <2>4, <2>5, <2>6, <2>7 DEF ConsumerStep
  <1>5. CASE CreateProducer \/ CreateConsumer
    <2>1. PICK t \in Threads : /\ t \notin created /\ Create(t)
                               /\ pc[t] = "unborn" /\ pc' = [pc EXCEPT ![t] = "running"]
      BY <1>5, CreateEffect
    <2>2. Counted("unborn", "running")
      BY <2>1, MoveCounts DEF Doings
    <2>3. UNCHANGED <<nextUnit, canConsume, consumedCount, consumed>>
      BY <2>1 DEF Create, shared
    <2>. QED
      BY <1>1, <2>2, <2>3, CountTypes DEF Counted, Moved, CountsInv
  <1>. QED
    BY <1>2, <1>3, <1>4, <1>5, MainEffect DEF Next, MainOnly, vars

-----------------------------------------------------------------------------
(* Unit u is in the queue, or was consumed, or is with thread i.           *)
Kinds == {"queue", "consumed", "thread"}
Occurs(kind, i, u) ==
  \/ kind = "queue" /\ i \in DOMAIN queue /\ queue[i] = u
  \/ kind = "consumed" /\ i \in DOMAIN consumed /\ consumed[i] = u
  \/ kind = "thread" /\ i \in At("producing") \cup At("consuming") /\ unit[i] = u

Gone == mainAt \in {"destroyed", "exited"}

UnitsInv ==
  /\ \A k, l \in Kinds, i, j \in Nat, u \in Units :
       Occurs(k, i, u) /\ Occurs(l, j, u) => k = l /\ i = j
  /\ \A k \in Kinds, i \in Nat, u \in Units : Occurs(k, i, u) => u <= nextUnit /\ u \notin refused
  /\ \A u \in Units : u <= nextUnit /\ u \notin refused => \E k \in Kinds, i \in Nat : Occurs(k, i, u)
  /\ \A u \in refused : u <= nextUnit

(* Nothing moves.                                                          *)
LEMMA StillUnits ==
  ASSUME UnitsInv, nextUnit' = nextUnit, refused' = refused,
         \A k \in Kinds, i \in Nat, u \in Units : Occurs(k, i, u)' <=> Occurs(k, i, u)
  PROVE  UnitsInv'
  BY DEF UnitsInv

(* A unit moves from one place to another.                                 *)
Moves(k0, i0, k1, i1, u0) ==
  \A k \in Kinds, i \in Nat, u \in Units :
    Occurs(k, i, u)' <=> \/ Occurs(k, i, u) /\ ~(k = k0 /\ i = i0)
                         \/ k = k1 /\ i = i1 /\ u = u0

LEMMA MovedUnit ==
  ASSUME UnitsInv, nextUnit' = nextUnit, refused' = refused,
         NEW k0 \in Kinds, NEW i0 \in Nat, NEW k1 \in Kinds, NEW i1 \in Nat, NEW u0 \in Units,
         Occurs(k0, i0, u0), Moves(k0, i0, k1, i1, u0)
  PROVE  UnitsInv'
  <1>. USE DEF Moves
  <1>1. ASSUME NEW k \in Kinds, NEW l \in Kinds, NEW i \in Nat, NEW j \in Nat, NEW u \in Units,
               Occurs(k, i, u)', Occurs(l, j, u)'
        PROVE  k = l /\ i = j
    BY <1>1 DEF UnitsInv
  <1>2. ASSUME NEW k \in Kinds, NEW i \in Nat, NEW u \in Units, Occurs(k, i, u)'
        PROVE  u <= nextUnit' /\ u \notin refused'
    BY <1>2 DEF UnitsInv
  <1>3. ASSUME NEW u \in Units, u <= nextUnit', u \notin refused'
        PROVE  \E k \in Kinds, i \in Nat : Occurs(k, i, u)'
    <2>1. CASE u = u0
      BY <2>1
    <2>2. CASE u # u0
      <3>1. PICK k \in Kinds, i \in Nat : Occurs(k, i, u)
        BY <1>3 DEF UnitsInv
      <3>2. ~(k = k0 /\ i = i0)
        <4>1. ASSUME Occurs(k0, i0, u) PROVE FALSE
          BY <2>2, <4>1 DEF Occurs
        <4>. QED
          BY <3>1, <4>1
      <3>. QED
        BY <3>1, <3>2
    <2>. QED
      BY <2>1, <2>2
  <1>. QED
    BY <1>1, <1>2, <1>3 DEF UnitsInv

(* What the threads hold, when one thread moves or gets another unit.      *)
LEMMA ThreadUnits ==
  ASSUME TypeOK, NEW t \in Threads, NEW from, NEW to \in Doings, Goto(t, from, to),
         \A k \in Threads \ {t} : unit'[k] = unit[k]
  PROVE  \A i \in Nat, u \in Units :
           Occurs("thread", i, u)' <=> IF i = t THEN to \in {"producing", "consuming"} /\ unit'[t] = u
                                       ELSE Occurs("thread", i, u)
  BY GotoEffect DEF Occurs, At, Kinds

(* A unit that is taken is new.                                            *)
LEMMA TakeUnits ==
  ASSUME TypeOK, PlacesInv, UnitsInv, NEW p \in Producers, ProducerTake(p)
  PROVE  UnitsInv'
  <1>1. p \in Threads /\ p \in Nat
    BY Groups DEF Producers
  <1>2. PICK n \in Units : n = nextUnit + 1 /\ nextUnit' = n /\ nextUnit \in Nat /\ Units \subseteq Nat
    BY ArgumentsAssumption DEF ProducerTake, TypeOK, Units
  <1>3. unit'[p] = n /\ \A k \in Threads \ {p} : unit'[k] = unit[k]
    BY <1>1, <1>2 DEF ProducerTake, TypeOK
  <1>4. UNCHANGED <<queue, consumed, refused>> /\ Goto(p, "running", "producing") /\ pc[p] = "running"
    BY DEF ProducerTake, Goto
  <1>5. \A k \in Kinds, i \in Nat, u \in Units :
          Occurs(k, i, u)' <=> Occurs(k, i, u) \/ (k = "thread" /\ i = p /\ u = n)
    <2> TAKE k \in Kinds, i \in Nat, u \in Units
    <2>1. CASE k = "thread"
      <3>1. ~Occurs("thread", p, u)
        BY <1>4 DEF Occurs, At
      <3>. QED
        BY <1>1, <1>3, <1>4, <2>1, <3>1, ThreadUnits DEF Doings
    <2>2. CASE k # "thread"
      BY <1>4, <2>2 DEF Occurs
    <2>. QED
      BY <2>1, <2>2
  <1>6. \A k \in Kinds, i \in Nat, u \in Units : Occurs(k, i, u) => u # n
    BY <1>2 DEF UnitsInv
  <1>7. n \notin refused
    BY <1>2 DEF UnitsInv
  <1>8. "thread" \in Kinds
    BY DEF Kinds
  <1>9. \A k, l \in Kinds, i, j \in Nat, u \in Units :
          Occurs(k, i, u)' /\ Occurs(l, j, u)' => k = l /\ i = j
    BY <1>5, <1>6 DEF UnitsInv
  <1>10. \A k \in Kinds, i \in Nat, u \in Units : Occurs(k, i, u)' => u <= nextUnit' /\ u \notin refused'
    BY <1>2, <1>4, <1>5, <1>7 DEF UnitsInv
  <1>11. \A u \in Units : u <= nextUnit' /\ u \notin refused' => \E k \in Kinds, i \in Nat : Occurs(k, i, u)'
    <2> SUFFICES ASSUME NEW u \in Units, u <= nextUnit', u \notin refused'
                 PROVE  \E k \in Kinds, i \in Nat : Occurs(k, i, u)'
      OBVIOUS
    <2>1. CASE u = n
      BY <1>1, <1>5, <1>8, <2>1
    <2>2. CASE u # n
      <3>1. u <= nextUnit
        BY <1>2, <2>2
      <3>. QED
        BY <1>4, <1>5, <3>1 DEF UnitsInv
    <2>. QED
      BY <2>1, <2>2
  <1>12. \A u \in refused' : u <= nextUnit'
    BY <1>2, <1>4 DEF UnitsInv, TypeOK
  <1>. QED
    BY <1>9, <1>10, <1>11, <1>12 DEF UnitsInv

(* A unit that is produced is at the end of the queue, or found no memory. *)
LEMMA EnqueueUnits ==
  ASSUME TypeOK, PlacesInv, UnitsInv, NEW p \in Producers, ProducerEnqueue(p)
  PROVE  UnitsInv'
  <1>1. p \in Threads /\ p \in Nat
    BY Groups DEF Producers
  <1>2. PICK n \in Units : n = unit[p] /\ Occurs("thread", p, n)
    BY <1>1, ArgumentsAssumption DEF ProducerEnqueue, Goto, PlacesInv, TypeOK, Units, Occurs, At
  <1>3. PICK last \in Nat \ {0} : last = Len(queue) + 1
    BY LenProperties DEF TypeOK
  <1>4. /\ UNCHANGED <<unit, consumed, nextUnit, refused>> /\ Goto(p, "producing", "signalling")
        /\ DOMAIN queue' = 1..last /\ queue'[last] = n /\ last \notin DOMAIN queue
        /\ DOMAIN queue = 1..last - 1 /\ \A i \in 1..last - 1 : queue'[i] = queue[i]
    BY <1>2, <1>3, AppendProperties, LenProperties DEF ProducerEnqueue, TypeOK
  <1>5. Moves("thread", p, "queue", last, n)
    <2> SUFFICES ASSUME NEW k \in Kinds, NEW i \in Nat, NEW u \in Units
                 PROVE  Occurs(k, i, u)' <=> \/ Occurs(k, i, u) /\ ~(k = "thread" /\ i = p)
                                             \/ k = "queue" /\ i = last /\ u = n
      BY DEF Moves
    <2>1. CASE k = "thread"
      BY <1>1, <1>4, <2>1, ThreadUnits DEF Doings
    <2>2. CASE k = "queue"
      <3>1. CASE i = last
        BY <1>4, <2>2, <3>1 DEF Occurs
      <3>2. CASE i # last
        <4>1. i \in DOMAIN queue' <=> i \in DOMAIN queue
          BY <1>4, <3>2
        <4>. QED
          BY <1>4, <2>2, <3>2, <4>1 DEF Occurs
      <3>. QED
        BY <3>1, <3>2
    <2>3. CASE k = "consumed"
      BY <1>4, <2>3 DEF Occurs
    <2>. QED
      BY <2>1, <2>2, <2>3 DEF Kinds
  <1>6. "thread" \in Kinds /\ "queue" \in Kinds
    BY DEF Kinds
  <1>7. UnitsInv /\ nextUnit' = nextUnit /\ refused' = refused
    BY <1>4
  <1>. QED
    BY <1>1, <1>2, <1>5, <1>6, <1>7, MovedUnit

LEMMA EnqueueFailsUnits ==
  ASSUME TypeOK, PlacesInv, UnitsInv, NEW p \in Producers, ProducerEnqueueFails(p)
  PROVE  /\ UnitsInv'
         /\ unit[p] \in Units \ refused
  <1>1. p \in Threads /\ p \in Nat
    BY Groups DEF Producers
  <1>2. PICK n \in Units : n = unit[p] /\ Occurs("thread", p, n)
    BY <1>1, ArgumentsAssumption DEF ProducerEnqueueFails, Goto, PlacesInv, TypeOK, Units, Occurs, At
  <1>3. /\ UNCHANGED <<unit, queue, consumed, nextUnit>> /\ Goto(p, "producing", "signalling")
        /\ refused' = refused \cup {n}
    BY <1>2 DEF ProducerEnqueueFails
  <1>4. "thread" \in Kinds
    BY DEF Kinds
  <1>5. \A k \in Kinds, i \in Nat, u \in Units :
          Occurs(k, i, u)' <=> Occurs(k, i, u) /\ ~(k = "thread" /\ i = p)
    <2> TAKE k \in Kinds, i \in Nat, u \in Units
    <2>1. CASE k = "thread"
      BY <1>1, <1>3, <2>1, ThreadUnits DEF Doings
    <2>2. CASE k # "thread"
      BY <1>3, <2>2 DEF Occurs
    <2>. QED
      BY <2>1, <2>2
  <1>6. n <= nextUnit /\ n \notin refused
    BY <1>1, <1>2, <1>4 DEF UnitsInv
  <1>7. \A k, l \in Kinds, i, j \in Nat, u \in Units :
          Occurs(k, i, u)' /\ Occurs(l, j, u)' => k = l /\ i = j
    BY <1>5 DEF UnitsInv
  <1>8. \A k \in Kinds, i \in Nat, u \in Units : Occurs(k, i, u)' => u <= nextUnit' /\ u \notin refused'
    <2> SUFFICES ASSUME NEW k \in Kinds, NEW i \in Nat, NEW u \in Units, Occurs(k, i, u)'
                 PROVE  u <= nextUnit' /\ u \notin refused'
      OBVIOUS
    <2>1. Occurs(k, i, u) /\ ~(k = "thread" /\ i = p)
      BY <1>5
    <2>2. u # n
      BY <1>1, <1>2, <1>4, <2>1 DEF UnitsInv
    <2>. QED
      BY <1>3, <2>1, <2>2 DEF UnitsInv
  <1>9. \A u \in Units : u <= nextUnit' /\ u \notin refused' => \E k \in Kinds, i \in Nat : Occurs(k, i, u)'
    <2> SUFFICES ASSUME NEW u \in Units, u <= nextUnit', u \notin refused'
                 PROVE  \E k \in Kinds, i \in Nat : Occurs(k, i, u)'
      OBVIOUS
    <2>1. PICK k \in Kinds, i \in Nat : Occurs(k, i, u)
      BY <1>3 DEF UnitsInv
    <2>2. ~(k = "thread" /\ i = p)
      <3>1. ~Occurs("thread", p, u)
        BY <1>2, <1>3 DEF Occurs
      <3>. QED
        BY <2>1, <3>1
    <2>. QED
      BY <1>5, <2>1, <2>2
  <1>10. \A u \in refused' : u <= nextUnit'
    BY <1>3, <1>6 DEF UnitsInv
  <1>. QED
    BY <1>2, <1>6, <1>7, <1>8, <1>9, <1>10 DEF UnitsInv

(* The head of the queue goes to the consumer, the others move up.         *)
LEMMA DequeueUnits ==
  ASSUME TypeOK, PlacesInv, UnitsInv, NEW c \in Consumers, ConsumerDequeue(c)
  PROVE  UnitsInv' /\ unit'[c] \in Units
  <1>1. c \in Threads /\ c \in Nat
    BY Groups, ArgumentsAssumption DEF Consumers
  <1>2. PICK len \in Nat : len = Len(queue)
    BY LenProperties DEF TypeOK
  <1>3. /\ DOMAIN queue = 1..len /\ len # 0 /\ DOMAIN queue' = 1..len - 1
        /\ \A i \in 1..len - 1 : queue'[i] = queue[i + 1]
        /\ Head(queue) = queue[1] /\ Head(queue) \in Units
    BY <1>2, EmptySeq, HeadTailProperties, LenProperties DEF ConsumerDequeue, TypeOK
  <1>4. PICK n \in Units : n = queue[1] /\ Occurs("queue", 1, n)
    BY <1>3 DEF Occurs
  <1>5. unit'[c] = n /\ \A k \in Threads \ {c} : unit'[k] = unit[k]
    BY <1>1, <1>3, <1>4 DEF ConsumerDequeue, TypeOK
  <1>6. UNCHANGED <<consumed, nextUnit, refused>> /\ Goto(c, "dequeuing", "consuming") /\ pc[c] = "dequeuing"
    BY DEF ConsumerDequeue, Goto
  <1>7. "thread" \in Kinds /\ "queue" \in Kinds /\ 1 \in Nat
    BY DEF Kinds
  <1>8. \A i \in Nat, u \in Units : Occurs("queue", i, u)' => i # 0 /\ Occurs("queue", i + 1, u)
    BY <1>3 DEF Occurs
  <1>9. \A i \in Nat, u \in Units :
          Occurs("thread", i, u)' <=> IF i = c THEN u = n ELSE Occurs("thread", i, u)
    BY <1>1, <1>5, <1>6, ThreadUnits DEF Doings
  <1>10. \A i \in Nat, u \in Units : Occurs("consumed", i, u)' <=> Occurs("consumed", i, u)
    BY <1>6 DEF Occurs
  <1>11. \A i \in Nat, u \in Units : ~Occurs("thread", c, u)
    BY <1>6 DEF Occurs, At
  <1>12. \A k \in Kinds, i \in Nat, u \in Units : Occurs(k, i, u)' =>
           \E o \in Nat : \/ k = "thread" /\ i = c /\ u = n
                          \/ /\ Occurs(k, o, u) /\ ~(k = "thread" /\ i = c)
                             /\ o = (IF k = "queue" THEN i + 1 ELSE i)
                             /\ u # n
    <2> SUFFICES ASSUME NEW k \in Kinds, NEW i \in Nat, NEW u \in Units, Occurs(k, i, u)'
                 PROVE  \E o \in Nat : \/ k = "thread" /\ i = c /\ u = n
                                       \/ /\ Occurs(k, o, u) /\ ~(k = "thread" /\ i = c)
                                          /\ o = (IF k = "queue" THEN i + 1 ELSE i)
                                          /\ u # n
      OBVIOUS
    <2>1. CASE k = "queue"
      <3>1. Occurs("queue", i + 1, u) /\ i # 0 /\ i + 1 \in Nat /\ i + 1 # 1
        BY <1>8, <2>1
      <3>2. u # n
        BY <1>4, <1>7, <3>1 DEF UnitsInv
      <3>. QED
        BY <2>1, <3>1, <3>2
    <2>2. CASE k = "consumed"
      <3>1. Occurs("consumed", i, u)
        BY <1>10, <2>2
      <3>2. u # n
        BY <1>4, <1>7, <2>2, <3>1 DEF UnitsInv
      <3>. QED
        BY <2>2, <3>1, <3>2
    <2>3. CASE k = "thread" /\ i # c
      <3>1. Occurs("thread", i, u)
        BY <1>9, <2>3
      <3>2. u # n
        BY <1>4, <1>7, <2>3, <3>1 DEF UnitsInv
      <3>. QED
        BY <2>3, <3>1, <3>2
    <2>4. CASE k = "thread" /\ i = c
      BY <1>9, <2>4
    <2>. QED
      BY <2>1, <2>2, <2>3, <2>4 DEF Kinds
  <1>13. \A k, l \in Kinds, i, j \in Nat, u \in Units :
          Occurs(k, i, u)' /\ Occurs(l, j, u)' => k = l /\ i = j
    <2> SUFFICES ASSUME NEW k \in Kinds, NEW l \in Kinds, NEW i \in Nat, NEW j \in Nat, NEW u \in Units,
                        Occurs(k, i, u)', Occurs(l, j, u)', ~(u = n)
                 PROVE  k = l /\ i = j
      BY <1>12
    <2>1. PICK o \in Nat : Occurs(k, o, u) /\ o = (IF k = "queue" THEN i + 1 ELSE i)
      BY <1>12
    <2>2. PICK q \in Nat : Occurs(l, q, u) /\ q = (IF l = "queue" THEN j + 1 ELSE j)
      BY <1>12
    <2>3. k = l /\ o = q
      BY <2>1, <2>2 DEF UnitsInv
    <2>. QED
      BY <2>1, <2>2, <2>3
  <1>14. \A k \in Kinds, i \in Nat, u \in Units : Occurs(k, i, u)' => u <= nextUnit' /\ u \notin refused'
    BY <1>4, <1>6, <1>7, <1>12 DEF UnitsInv
  <1>15. \A u \in Units : u <= nextUnit' /\ u \notin refused' => \E k \in Kinds, i \in Nat : Occurs(k, i, u)'
    <2> SUFFICES ASSUME NEW u \in Units, u <= nextUnit', u \notin refused'
                 PROVE  \E k \in Kinds, i \in Nat : Occurs(k, i, u)'
      OBVIOUS
    <2>1. PICK k \in Kinds, i \in Nat : Occurs(k, i, u)
      BY <1>6 DEF UnitsInv
    <2>2. CASE k = "queue" /\ i = 1
      <3>1. u = n
        BY <1>4, <2>1, <2>2 DEF Occurs
      <3>. QED
        BY <1>1, <1>7, <1>9, <3>1
    <2>3. CASE k = "queue" /\ i # 1
      <3>1. i - 1 \in Nat /\ i - 1 \in 1..len - 1 /\ queue'[i - 1] = u
        <4>1. i \in 1..len /\ i - 1 \in 1..len - 1 /\ (i - 1) + 1 = i /\ queue[i] = u
          BY <1>3, <2>1, <2>3 DEF Occurs
        <4>. QED
          BY <1>3, <4>1
      <3>2. Occurs("queue", i - 1, u)'
        BY <1>3, <3>1 DEF Occurs
      <3>. QED
        BY <1>7, <3>1, <3>2
    <2>4. CASE k = "consumed"
      BY <1>10, <2>1, <2>4
    <2>5. CASE k = "thread"
      BY <1>9, <1>11, <2>1, <2>5
    <2>. QED
      BY <2>2, <2>3, <2>4, <2>5 DEF Kinds
  <1>16. \A u \in refused' : u <= nextUnit'
    BY <1>6 DEF UnitsInv
  <1>. QED
    BY <1>5, <1>13, <1>14, <1>15, <1>16 DEF UnitsInv

(* The unit a consumer has is printed as the last one.                     *)
LEMMA ConsumeUnits ==
  ASSUME TypeOK, PlacesInv, UnitsInv, NEW c \in Consumers, ConsumerConsume(c)
  PROVE  UnitsInv'
  <1>1. c \in Threads /\ c \in Nat
    BY Groups, ArgumentsAssumption DEF Consumers
  <1>2. PICK last \in Nat \ {0} : last = Len(consumed) + 1
    BY LenProperties DEF TypeOK
  <1>3. /\ UNCHANGED <<queue, nextUnit, refused>> /\ Goto(c, "consuming", "running") /\ pc[c] = "consuming"
        /\ \A k \in Threads \ {c} : unit'[k] = unit[k]
    BY <1>1 DEF ConsumerConsume, Goto, shared, TypeOK
  <1>4. /\ DOMAIN consumed' = 1..last /\ consumed'[last] = unit[c] /\ last \notin DOMAIN consumed
        /\ DOMAIN consumed = 1..last - 1 /\ \A i \in 1..last - 1 : consumed'[i] = consumed[i]
    <2>1. consumed \in Seq(0..UnitCount) /\ unit[c] \in 0..UnitCount /\ consumed' = Append(consumed, unit[c])
      BY <1>1 DEF ConsumerConsume, TypeOK
    <2>. QED
      BY <1>2, <2>1, AppendProperties, LenProperties
  <1>5. \A k \in Kinds, i \in Nat, u \in Units :
          Occurs(k, i, u)' <=> \/ Occurs(k, i, u) /\ ~(k = "thread" /\ i = c)
                               \/ k = "consumed" /\ i = last /\ u = unit[c]
    <2> TAKE k \in Kinds, i \in Nat, u \in Units
    <2>1. CASE k = "thread"
      BY <1>1, <1>3, <2>1, ThreadUnits DEF Doings
    <2>2. CASE k = "consumed"
      <3>1. CASE i = last
        BY <1>4, <2>2, <3>1 DEF Occurs
      <3>2. CASE i # last
        <4>1. i \in DOMAIN consumed' <=> i \in DOMAIN consumed
          BY <1>4, <3>2
        <4>. QED
          BY <1>4, <2>2, <3>2, <4>1 DEF Occurs
      <3>. QED
        BY <3>1, <3>2
    <2>3. CASE k = "queue"
      BY <1>3, <2>3 DEF Occurs
    <2>. QED
      BY <2>1, <2>2, <2>3 DEF Kinds
  <1>6. "thread" \in Kinds /\ "consumed" \in Kinds
    BY DEF Kinds
  <1>7. CASE unit[c] \in Units
    <2>1. PICK n \in Units : n = unit[c] /\ Occurs("thread", c, n)
      BY <1>1, <1>3, <1>7 DEF Occurs, At
    <2>2. Moves("thread", c, "consumed", last, n)
      BY <1>5, <2>1 DEF Moves
    <2>. QED
      BY <1>1, <1>3, <1>6, <2>1, <2>2, MovedUnit
  <1>8. CASE unit[c] \notin Units
    <2>1. \A k \in Kinds, i \in Nat, u \in Units : Occurs(k, i, u)' <=> Occurs(k, i, u)
      BY <1>5, <1>8 DEF Occurs
    <2>. QED
      BY <1>3, <2>1, StillUnits
  <1>. QED
    BY <1>7, <1>8

(* What is freed stays so.                                                 *)
LEMMA NotGone == [Next]_vars /\ ~Gone' => ~Gone
  BY DEF Next, vars, ProducerStep, ConsumerStep, MainStep, Gone, ProducerTake, ProducerEnd,
         ProducerEnqueue, ProducerEnqueueFails, ProducerSignal, ConsumerReserve, ConsumerEnd,
         ConsumerWait, ConsumerDequeue, ConsumerDequeueNothing, ConsumerConsume,
         CreateProducer, ProducersCreated, ProducersRefused, UndoProducers,
         CreateConsumer, ConsumersCreated, ConsumersRefused, UndoConsumers,
         JoinProducers, JoinConsumers, Destroy, Exit, MainGoto, Create, shared

(* Every step keeps each unit in one place, until the simulation is freed. *)
LEMMA NextUnits ==
  TypeOK /\ PlacesInv /\ (~Gone => UnitsInv) /\ [Next]_vars => (~Gone => UnitsInv)'
  <1> SUFFICES ASSUME TypeOK, PlacesInv, ~Gone => UnitsInv, [Next]_vars, ~Gone' PROVE UnitsInv'
    OBVIOUS
  <1>1. UnitsInv
    BY NotGone
  <1>2. ASSUME NEW t \in Threads, NEW from \in Doings \ {"producing", "consuming"},
               NEW to \in Doings \ {"producing", "consuming"},
               pc[t] = from, pc' = [pc EXCEPT ![t] = to],
               \A k \in Threads \ {t} : unit'[k] = unit[k],
               UNCHANGED <<queue, consumed, nextUnit, refused>>
        PROVE  UnitsInv'
    <2>1. \A k \in Kinds, i \in Nat, u \in Units : Occurs(k, i, u)' <=> Occurs(k, i, u)
      BY <1>2 DEF Occurs, At, TypeOK
    <2>. QED
      BY <1>1, <1>2, <2>1, StillUnits
  <1>3. ASSUME NEW p \in Producers, ProducerStep(p) PROVE UnitsInv'
    <2>1. p \in Threads
      BY Groups
    <2>2. CASE ProducerEnd(p)
      BY <1>2, <2>1, <2>2 DEF ProducerEnd, Goto, Doings, shared
    <2>3. CASE ProducerSignal(p)
      <3>1. \A k \in Threads \ {p} : unit'[k] = unit[k]
        BY <2>1, <2>3 DEF ProducerSignal, TypeOK
      <3>. QED
        BY <1>2, <2>1, <2>3, <3>1 DEF ProducerSignal, Goto, Doings
    <2>. QED
      BY <1>1, <1>3, <2>2, <2>3, TakeUnits, EnqueueUnits, EnqueueFailsUnits DEF ProducerStep
  <1>4. ASSUME NEW c \in Consumers, ConsumerStep(c) PROVE UnitsInv'
    <2>1. c \in Threads
      BY Groups
    <2>2. CASE ConsumerReserve(c)
      BY <1>2, <2>1, <2>2 DEF ConsumerReserve, Goto, Doings
    <2>3. CASE ConsumerEnd(c)
      BY <1>2, <2>1, <2>3 DEF ConsumerEnd, Goto, Doings, shared
    <2>4. CASE ConsumerWait(c)
      BY <1>2, <2>1, <2>4 DEF ConsumerWait, Goto, Doings
    <2>5. CASE ConsumerDequeueNothing(c)
      <3>1. /\ pc[c] = "dequeuing" /\ pc' = [pc EXCEPT ![c] = "consuming"] /\ unit[c] = 0 /\ unit' = unit
            /\ UNCHANGED <<queue, consumed, nextUnit, refused>>
        BY <2>1, <2>5 DEF ConsumerDequeueNothing, Goto, PlacesInv, shared
      <3>2. \A k \in Kinds, i \in Nat, u \in Units : Occurs(k, i, u)' <=> Occurs(k, i, u)
        BY <2>1, <3>1 DEF Occurs, At, TypeOK, Units
      <3>. QED
        BY <1>1, <3>1, <3>2, StillUnits
    <2>. QED
      BY <1>1, <1>4, <2>2, <2>3, <2>4, <2>5, DequeueUnits, ConsumeUnits DEF ConsumerStep
  <1>5. CASE CreateProducer \/ CreateConsumer
    <2>1. PICK t \in Threads : /\ t \notin created /\ Create(t)
                               /\ pc[t] = "unborn" /\ pc' = [pc EXCEPT ![t] = "running"]
      BY <1>5, CreateEffect
    <2>. QED
      BY <1>2, <2>1 DEF Create, Doings, shared
  <1>6. ASSUME UNCHANGED <<pc, unit, queue, consumed, nextUnit, refused>> PROVE UnitsInv'
    <2>1. \A k \in Kinds, i \in Nat, u \in Units : Occurs(k, i, u)' <=> Occurs(k, i, u)
      BY <1>6 DEF Occurs, At
    <2>. QED
      BY <1>1, <1>6, <2>1, StillUnits
  <1>7. CASE MainStep /\ ~CreateProducer /\ ~CreateConsumer
    <2>1. UNCHANGED <<pc, unit, queue, consumed, nextUnit, refused>>
      BY <1>7 DEF MainStep, ProducersCreated, ProducersRefused, UndoProducers, ConsumersCreated,
            ConsumersRefused, UndoConsumers, JoinProducers, JoinConsumers, Destroy, Exit, MainGoto,
            shared, Gone
    <2>. QED
      BY <1>6, <2>1
  <1>. QED
    BY <1>3, <1>4, <1>5, <1>6, <1>7 DEF Next, vars

-----------------------------------------------------------------------------
(* The semaphore counts the units in the queue, and a consumer finds the   *)
(* queue empty at most once for every unit that found no memory.           *)
SemaphoreInv ==
  /\ canConsume + N("dequeuing") + N("signalling") + EmptyDequeues = Len(queue) + Cardinality(refused)
  /\ EmptyDequeues <= Cardinality(refused)

LEMMA BlankTypes ==
  ASSUME TypeOK
  PROVE  /\ IsFiniteSet(BlankUnits) /\ IsFiniteSet(BlankConsumers) /\ IsFiniteSet(refused)
         /\ EmptyDequeues \in Nat /\ Cardinality(refused) \in Nat
         /\ Cardinality(BlankUnits) \in Nat /\ Cardinality(BlankConsumers) \in Nat
  <1>1. IsFiniteSet(BlankUnits)
    <2>1. DOMAIN consumed = 1..Len(consumed) /\ Len(consumed) \in Nat
      BY LenProperties DEF TypeOK
    <2>2. IsFiniteSet(1..Len(consumed))
      BY <2>1, FS_Interval
    <2>. QED
      BY <2>1, <2>2, FS_Subset DEF BlankUnits
  <1>2. IsFiniteSet(BlankConsumers)
    BY Groups, FS_Subset DEF BlankConsumers, At
  <1>3. IsFiniteSet(refused)
    <2>1. IsFiniteSet(Units)
      BY FS_Interval, ArgumentsAssumption DEF Units
    <2>. QED
      BY <2>1, FS_Subset DEF TypeOK
  <1>. QED
    BY <1>1, <1>2, <1>3, FS_CardinalityType DEF EmptyDequeues

(* Nobody goes on with the value 0 who did not.                            *)
LEMMA StillBlank ==
  ASSUME TypeOK, NEW t \in Threads, NEW from \in Doings, NEW to \in Doings,
         pc[t] = from, pc' = [pc EXCEPT ![t] = to],
         from # "consuming", to = "consuming" => unit'[t] # 0,
         \A k \in Threads \ {t} : unit'[k] = unit[k], consumed' = consumed
  PROVE  EmptyDequeues' = EmptyDequeues
  <1>1. BlankConsumers' = BlankConsumers
    BY DEF BlankConsumers, At, TypeOK
  <1>. QED
    BY <1>1 DEF EmptyDequeues, BlankUnits

(* Every step of a thread keeps it.                                        *)
LEMMA ProducerSemaphore ==
  ASSUME TypeOK, PlacesInv, UnitsInv, SemaphoreInv, NEW p \in Producers, ProducerStep(p)
  PROVE  SemaphoreInv'
  <1>1. p \in Threads /\ \A k \in Threads \ {p} : unit'[k] = unit[k]
    BY Groups DEF ProducerStep, ProducerTake, ProducerEnd, ProducerEnqueue, ProducerEnqueueFails,
                  ProducerSignal, TypeOK
  <1>2. /\ Len(queue) \in Nat /\ canConsume \in Nat
        /\ N("dequeuing") \in Nat /\ N("signalling") \in Nat
        /\ EmptyDequeues \in Nat /\ Cardinality(refused) \in Nat
    BY LenProperties, CountTypes, BlankTypes DEF TypeOK
  <1>3. CASE ProducerTake(p)
    <2>1. Counted("running", "producing")
      BY <1>1, <1>3, MoveCounts DEF ProducerTake, Goto, Doings
    <2>2. EmptyDequeues' = EmptyDequeues
      BY <1>1, <1>3, StillBlank DEF ProducerTake, Goto, Doings
    <2>3. UNCHANGED <<canConsume, queue, refused>>
      BY <1>3 DEF ProducerTake
    <2>6. /\ N("dequeuing")' = N("dequeuing")
          /\ N("signalling")' = N("signalling")
      BY <2>1 DEF Counted, Moved
    <2>. QED
      BY <1>2, <2>2, <2>3, <2>6 DEF SemaphoreInv
  <1>4. CASE ProducerEnd(p)
    <2>1. Counted("running", "done")
      BY <1>1, <1>4, MoveCounts DEF ProducerEnd, Goto, Doings
    <2>2. EmptyDequeues' = EmptyDequeues
      BY <1>1, <1>4, StillBlank DEF ProducerEnd, Goto, Doings
    <2>3. UNCHANGED <<canConsume, queue, refused>>
      BY <1>4 DEF ProducerEnd, shared
    <2>6. /\ N("dequeuing")' = N("dequeuing")
          /\ N("signalling")' = N("signalling")
      BY <2>1 DEF Counted, Moved
    <2>. QED
      BY <1>2, <2>2, <2>3, <2>6 DEF SemaphoreInv
  <1>5. CASE ProducerEnqueue(p)
    <2>1. Counted("producing", "signalling")
      BY <1>1, <1>5, MoveCounts DEF ProducerEnqueue, Goto, Doings
    <2>2. EmptyDequeues' = EmptyDequeues
      BY <1>1, <1>5, StillBlank DEF ProducerEnqueue, Goto, Doings
    <2>3. UNCHANGED <<canConsume, refused>>
      BY <1>5 DEF ProducerEnqueue
    <2>4. Len(queue') = Len(queue) + 1
      <3>1. unit[p] \in Units
        BY <1>1, <1>5, ArgumentsAssumption DEF ProducerEnqueue, Goto, PlacesInv, TypeOK, Units
      <3>. QED
        BY <1>5, <3>1, AppendProperties DEF ProducerEnqueue, TypeOK
    <2>6. /\ N("dequeuing")' = N("dequeuing")
          /\ N("signalling")' = N("signalling") + 1
      BY <2>1 DEF Counted, Moved
    <2>7. (canConsume + N("dequeuing") + N("signalling") + EmptyDequeues)' =
            canConsume + N("dequeuing") + (N("signalling") + 1) + EmptyDequeues
      BY <2>2, <2>3, <2>6
    <2>8. canConsume + N("dequeuing") + (N("signalling") + 1) + EmptyDequeues =
            (canConsume + N("dequeuing") + N("signalling") + EmptyDequeues) + 1
      <3>1. canConsume \in Int /\ EmptyDequeues \in Nat
        BY BlankTypes DEF TypeOK
      <3>. QED
        BY <3>1, CountTypes
    <2>. QED
      BY <1>2, <2>2, <2>3, <2>4, <2>7, <2>8 DEF SemaphoreInv
  <1>6. CASE ProducerEnqueueFails(p)
    <2>1. Counted("producing", "signalling")
      BY <1>1, <1>6, MoveCounts DEF ProducerEnqueueFails, Goto, Doings
    <2>2. EmptyDequeues' = EmptyDequeues
      BY <1>1, <1>6, StillBlank DEF ProducerEnqueueFails, Goto, Doings
    <2>3. UNCHANGED <<canConsume, queue>>
      BY <1>6 DEF ProducerEnqueueFails
    <2>4. Cardinality(refused') = Cardinality(refused) + 1
      BY <1>6, EnqueueFailsUnits, BlankTypes, FS_AddElement DEF ProducerEnqueueFails
    <2>6. /\ N("dequeuing")' = N("dequeuing")
          /\ N("signalling")' = N("signalling") + 1
      BY <2>1 DEF Counted, Moved
    <2>7. (canConsume + N("dequeuing") + N("signalling") + EmptyDequeues)' =
            canConsume + N("dequeuing") + (N("signalling") + 1) + EmptyDequeues
      BY <2>2, <2>3, <2>6
    <2>8. canConsume + N("dequeuing") + (N("signalling") + 1) + EmptyDequeues =
            (canConsume + N("dequeuing") + N("signalling") + EmptyDequeues) + 1
      <3>1. canConsume \in Int /\ EmptyDequeues \in Nat
        BY BlankTypes DEF TypeOK
      <3>. QED
        BY <3>1, CountTypes
    <2>. QED
      BY <1>2, <2>2, <2>3, <2>4, <2>7, <2>8 DEF SemaphoreInv
  <1>7. CASE ProducerSignal(p)
    <2>1. Counted("signalling", "running")
      BY <1>1, <1>7, MoveCounts DEF ProducerSignal, Goto, Doings
    <2>2. EmptyDequeues' = EmptyDequeues
      BY <1>1, <1>7, StillBlank DEF ProducerSignal, Goto, Doings
    <2>3. canConsume' = canConsume + 1 /\ UNCHANGED <<queue, refused>>
      BY <1>7 DEF ProducerSignal
    <2>6. /\ N("dequeuing")' = N("dequeuing")
          /\ N("signalling")' = N("signalling") - 1
      BY <2>1 DEF Counted, Moved
    <2>. QED
      BY <1>2, <2>2, <2>3, <2>6 DEF SemaphoreInv
  <1>. QED
    BY <1>3, <1>4, <1>5, <1>6, <1>7 DEF ProducerStep

LEMMA ConsumerSemaphore ==
  ASSUME TypeOK, PlacesInv, UnitsInv, SemaphoreInv, NEW c \in Consumers, ConsumerStep(c)
  PROVE  SemaphoreInv'
  <1>1. c \in Threads /\ \A k \in Threads \ {c} : unit'[k] = unit[k]
    BY Groups DEF ConsumerStep, ConsumerReserve, ConsumerEnd, ConsumerWait, ConsumerDequeue,
                  ConsumerDequeueNothing, ConsumerConsume, TypeOK
  <1>2. /\ Len(queue) \in Nat /\ canConsume \in Nat
        /\ N("dequeuing") \in Nat /\ N("signalling") \in Nat
        /\ EmptyDequeues \in Nat /\ Cardinality(refused) \in Nat
    BY LenProperties, CountTypes, BlankTypes DEF TypeOK
  <1>3. CASE ConsumerReserve(c)
    <2>1. Counted("running", "waiting")
      BY <1>1, <1>3, MoveCounts DEF ConsumerReserve, Goto, Doings
    <2>2. EmptyDequeues' = EmptyDequeues
      BY <1>1, <1>3, StillBlank DEF ConsumerReserve, Goto, Doings
    <2>3. UNCHANGED <<canConsume, queue, refused>>
      BY <1>3 DEF ConsumerReserve
    <2>6. /\ N("dequeuing")' = N("dequeuing")
          /\ N("signalling")' = N("signalling")
      BY <2>1 DEF Counted, Moved
    <2>. QED
      BY <1>2, <2>2, <2>3, <2>6 DEF SemaphoreInv
  <1>4. CASE ConsumerEnd(c)
    <2>1. Counted("running", "done")
      BY <1>1, <1>4, MoveCounts DEF ConsumerEnd, Goto, Doings
    <2>2. EmptyDequeues' = EmptyDequeues
      BY <1>1, <1>4, StillBlank DEF ConsumerEnd, Goto, Doings
    <2>3. UNCHANGED <<canConsume, queue, refused>>
      BY <1>4 DEF ConsumerEnd, shared
    <2>6. /\ N("dequeuing")' = N("dequeuing")
          /\ N("signalling")' = N("signalling")
      BY <2>1 DEF Counted, Moved
    <2>. QED
      BY <1>2, <2>2, <2>3, <2>6 DEF SemaphoreInv
  <1>5. CASE ConsumerWait(c)
    <2>1. Counted("waiting", "dequeuing")
      BY <1>1, <1>5, MoveCounts DEF ConsumerWait, Goto, Doings
    <2>2. EmptyDequeues' = EmptyDequeues
      BY <1>1, <1>5, StillBlank DEF ConsumerWait, Goto, Doings
    <2>3. canConsume' = canConsume - 1 /\ UNCHANGED <<queue, refused>>
      BY <1>5 DEF ConsumerWait
    <2>6. /\ N("dequeuing")' = N("dequeuing") + 1
          /\ N("signalling")' = N("signalling")
      BY <2>1 DEF Counted, Moved
    <2>. QED
      BY <1>2, <2>2, <2>3, <2>6 DEF SemaphoreInv
  <1>6. CASE ConsumerDequeue(c)
    <2>1. Counted("dequeuing", "consuming")
      BY <1>1, <1>6, MoveCounts DEF ConsumerDequeue, Goto, Doings
    <2>2. EmptyDequeues' = EmptyDequeues
      <3>1. unit'[c] # 0
        BY <1>6, DequeueUnits DEF Units
      <3>. QED
        BY <1>1, <1>6, <3>1, StillBlank DEF ConsumerDequeue, Goto, Doings
    <2>3. UNCHANGED <<canConsume, refused>>
      BY <1>6 DEF ConsumerDequeue
    <2>4. Len(queue') = Len(queue) - 1
      BY <1>6, HeadTailProperties DEF ConsumerDequeue, TypeOK
    <2>6. /\ N("dequeuing")' = N("dequeuing") - 1
          /\ N("signalling")' = N("signalling")
      BY <2>1 DEF Counted, Moved
    <2>. QED
      BY <1>2, <2>2, <2>3, <2>4, <2>6 DEF SemaphoreInv
  <1>7. CASE ConsumerDequeueNothing(c)
    <2>1. Counted("dequeuing", "consuming") /\ N("dequeuing") # 0
      BY <1>1, <1>7, MoveCounts DEF ConsumerDequeueNothing, Goto, Doings
    <2>2. EmptyDequeues' = EmptyDequeues + 1
      <3>1. /\ pc[c] = "dequeuing" /\ pc' = [pc EXCEPT ![c] = "consuming"]
            /\ unit[c] = 0 /\ unit' = unit /\ consumed' = consumed
        BY <1>1, <1>7 DEF ConsumerDequeueNothing, Goto, PlacesInv, shared
      <3>2. BlankConsumers' = BlankConsumers \cup {c} /\ c \notin BlankConsumers
        BY <1>1, <3>1 DEF BlankConsumers, At, TypeOK
      <3>3. Cardinality(BlankConsumers') = Cardinality(BlankConsumers) + 1
        BY <3>2, BlankTypes, FS_AddElement
      <3>. QED
        BY <3>1, <3>3, BlankTypes DEF EmptyDequeues, BlankUnits
    <2>3. UNCHANGED <<canConsume, queue, refused>> /\ Len(queue) = 0
      BY <1>7, EmptySeq DEF ConsumerDequeueNothing, shared
    <2>6. /\ N("dequeuing")' = N("dequeuing") - 1
          /\ N("signalling")' = N("signalling")
      BY <2>1 DEF Counted, Moved
    <2>. QED
      BY <1>2, <2>1, <2>2, <2>3, <2>6 DEF SemaphoreInv
  <1>8. CASE ConsumerConsume(c)
    <2>1. Counted("consuming", "running")
      BY <1>1, <1>8, MoveCounts DEF ConsumerConsume, Goto, Doings
    <2>2. /\ pc[c] = "consuming" /\ pc' = [pc EXCEPT ![c] = "running"]
          /\ UNCHANGED <<canConsume, queue, refused>>
      BY <1>8 DEF ConsumerConsume, Goto, shared
    <2>3. PICK last \in Nat : last = Len(consumed) + 1
      BY LenProperties DEF TypeOK
    <2>4. /\ DOMAIN consumed' = DOMAIN consumed \cup {last} /\ last \notin DOMAIN consumed
          /\ consumed'[last] = unit[c] /\ \A i \in DOMAIN consumed : consumed'[i] = consumed[i]
      <3>1. consumed \in Seq(0..UnitCount) /\ unit[c] \in 0..UnitCount /\ consumed' = Append(consumed, unit[c])
        BY <1>1, <1>8 DEF ConsumerConsume, TypeOK
      <3>. QED
        BY <2>3, <3>1, AppendProperties, LenProperties
    <2>5. EmptyDequeues' = EmptyDequeues
      <3>1. CASE unit[c] = 0
        <4>1. BlankConsumers' = BlankConsumers \ {c} /\ c \in BlankConsumers
          BY <1>1, <2>2, <3>1 DEF BlankConsumers, At, TypeOK
        <4>2. BlankUnits' = BlankUnits \cup {last} /\ last \notin BlankUnits
          BY <2>4, <3>1 DEF BlankUnits
        <4>3. Cardinality(BlankConsumers') = Cardinality(BlankConsumers) - 1
          BY <4>1, BlankTypes, FS_RemoveElement
        <4>4. Cardinality(BlankUnits') = Cardinality(BlankUnits) + 1
          BY <4>2, BlankTypes, FS_AddElement
        <4>. QED
          BY <4>3, <4>4, BlankTypes DEF EmptyDequeues
      <3>2. CASE unit[c] # 0
        <4>1. BlankConsumers' = BlankConsumers
          BY <1>1, <2>2, <3>2 DEF BlankConsumers, At, TypeOK
        <4>2. BlankUnits' = BlankUnits
          BY <2>4, <3>2 DEF BlankUnits
        <4>. QED
          BY <4>1, <4>2 DEF EmptyDequeues
      <3>. QED
        BY <3>1, <3>2
    <2>6. /\ N("dequeuing")' = N("dequeuing")
          /\ N("signalling")' = N("signalling")
      BY <2>1 DEF Counted, Moved
    <2>. QED
      BY <1>2, <2>2, <2>5, <2>6 DEF SemaphoreInv
  <1>. QED
    BY <1>3, <1>4, <1>5, <1>6, <1>7, <1>8 DEF ConsumerStep

LEMMA NextSemaphore ==
  TypeOK /\ PlacesInv /\ (~Gone => UnitsInv) /\ (~Gone => SemaphoreInv) /\ [Next]_vars
  => (~Gone => SemaphoreInv)'
  <1> SUFFICES ASSUME TypeOK, PlacesInv, ~Gone => UnitsInv, ~Gone => SemaphoreInv, [Next]_vars, ~Gone'
               PROVE  SemaphoreInv'
    OBVIOUS
  <1>1. UnitsInv /\ SemaphoreInv
    BY NotGone
  <1>2. ASSUME UNCHANGED <<pc, unit, queue, canConsume, consumed, refused>> PROVE SemaphoreInv'
    BY <1>1, <1>2 DEF SemaphoreInv, EmptyDequeues, BlankUnits, BlankConsumers, N, At
  <1>3. CASE CreateProducer \/ CreateConsumer
    <2>1. PICK t \in Threads : /\ t \notin created /\ Create(t)
                               /\ pc[t] = "unborn" /\ pc' = [pc EXCEPT ![t] = "running"]
      BY <1>3, CreateEffect
    <2>2. UNCHANGED <<unit, queue, canConsume, consumed, refused>>
      BY <2>1 DEF Create, shared
    <2>3. Counted("unborn", "running")
      BY <2>1, MoveCounts DEF Doings
    <2>4. EmptyDequeues' = EmptyDequeues
      BY <2>1, <2>2, StillBlank DEF Doings
    <2>. QED
      BY <1>1, <2>2, <2>3, <2>4 DEF Counted, Moved, SemaphoreInv
  <1>4. CASE MainStep /\ ~CreateProducer /\ ~CreateConsumer
    <2>1. UNCHANGED <<pc, unit, queue, canConsume, consumed, refused>>
      BY <1>4 DEF MainStep, ProducersCreated, ProducersRefused, UndoProducers, ConsumersCreated,
            ConsumersRefused, UndoConsumers, JoinProducers, JoinConsumers, Destroy, Exit, MainGoto,
            shared, Gone
    <2>. QED
      BY <1>2, <2>1
  <1>. QED
    BY <1>1, <1>2, <1>3, <1>4, ProducerSemaphore, ConsumerSemaphore DEF Next, vars

LEMMA InitAccounts == Init => CountsInv /\ UnitsInv /\ SemaphoreInv
  <1> SUFFICES ASSUME Init PROVE UnitsInv /\ SemaphoreInv
    BY InitCounts
  <1>1. \A place \in Doings \ {"unborn"} : At(place) = {}
    BY DEF Init, At, Doings
  <1>2. UnitsInv
    <2>1. \A k \in Kinds, i \in Nat, u \in Units : ~Occurs(k, i, u)
      BY <1>1, EmptySeq DEF Init, Occurs, Doings
    <2>2. \A u \in Units : ~(u <= nextUnit)
      BY ArgumentsAssumption DEF Init, Units
    <2>. QED
      BY <2>1, <2>2 DEF UnitsInv, Init
  <1>3. SemaphoreInv
    <2>1. BlankUnits = {} /\ BlankConsumers = {}
      BY <1>1, EmptySeq DEF Init, BlankUnits, BlankConsumers, Doings
    <2>2. N("dequeuing") = 0 /\ N("signalling") = 0
      BY <1>1, FS_EmptySet DEF N, Doings
    <2>3. canConsume = 0 /\ Len(queue) = 0 /\ refused = {}
      BY DEF Init
    <2>. QED
      BY <2>1, <2>2, <2>3, FS_EmptySet DEF SemaphoreInv, EmptyDequeues
  <1>. QED
    BY <1>2, <1>3

(* What the accounts say in the words of the properties.                   *)
LEMMA Accounts ==
  TypeOK /\ PlacesInv /\ CountsInv /\ (~Gone => UnitsInv) /\ (~Gone => SemaphoreInv) => UnitsAccounted
  <1> SUFFICES ASSUME TypeOK, PlacesInv, CountsInv, ~Gone => UnitsInv, ~Gone => SemaphoreInv PROVE UnitsAccounted
    OBVIOUS
  <1>1. SemaphoreCountsUnits
    BY DEF SemaphoreCountsUnits, SemaphoreInv, Gone, N
  <1>2. ReservationsAreCovered
    <2> SUFFICES ASSUME nextUnit = UnitCount
                 PROVE  N("waiting") <= canConsume + N("producing") + N("signalling")
      BY DEF ReservationsAreCovered, N
    <2>1. consumedCount <= nextUnit /\ consumedCount \in Nat /\ canConsume \in Nat /\ Len(consumed) \in Nat
      BY LenProperties DEF TypeOK
    <2>. QED
      BY <2>1, CountTypes, SMTT(60) DEF CountsInv
  <1>3. EachUnitOnce
    <2> SUFFICES ASSUME UnitsInv
                 PROVE  /\ {UnitAt(x) : x \in Places} = 1..nextUnit \ refused
                        /\ \A x, y \in Places : UnitAt(x) = UnitAt(y) => x = y
      BY DEF EachUnitOnce, Gone
    <2>1. ASSUME NEW x \in Places
          PROVE  \E k \in Kinds, i \in Nat : x = <<k, i>> /\ Occurs(k, i, UnitAt(x)) /\ UnitAt(x) \in Units
      <3>1. CASE \E i \in DOMAIN queue : x = <<"queue", i>>
        <4>1. PICK i \in DOMAIN queue : x = <<"queue", i>>
          BY <3>1
        <4>2. UnitAt(x) = queue[i]
          BY <4>1 DEF UnitAt
        <4>3. i \in Nat /\ queue[i] \in Units
          BY LenProperties, ElementOfSeq DEF TypeOK
        <4>. QED
          BY <4>1, <4>2, <4>3 DEF Occurs, Kinds
      <3>2. CASE \E i \in DOMAIN consumed : x = <<"consumed", i>> /\ consumed[i] # 0
        <4>1. PICK i \in DOMAIN consumed : x = <<"consumed", i>> /\ consumed[i] # 0
          BY <3>2
        <4>2. UnitAt(x) = consumed[i]
          BY <4>1 DEF UnitAt
        <4>a. consumed \in Seq(0..UnitCount)
          BY DEF TypeOK
        <4>b. i \in Nat /\ i \in 1..Len(consumed)
          BY <4>a, LenProperties
        <4>3. i \in Nat /\ consumed[i] \in 0..UnitCount
          BY <4>a, <4>b, ElementOfSeq
        <4>4. consumed[i] \in Units
          BY <4>1, <4>3, ArgumentsAssumption DEF Units
        <4>. QED
          BY <4>1, <4>2, <4>3, <4>4 DEF Occurs, Kinds
      <3>3. CASE \E t \in At("producing") \cup At("consuming") : x = <<"thread", t>> /\ unit[t] # 0
        <4>1. PICK t \in At("producing") \cup At("consuming") : x = <<"thread", t>> /\ unit[t] # 0
          BY <3>3
        <4>2. UnitAt(x) = unit[t]
          BY <4>1 DEF UnitAt
        <4>3. t \in Nat /\ t \in Threads
          BY ArgumentsAssumption DEF At, Threads, Producers, Consumers
        <4>4. unit[t] \in Units
          BY <4>1, <4>3, ArgumentsAssumption DEF Units, TypeOK
        <4>. QED
          BY <4>1, <4>2, <4>3, <4>4 DEF Occurs, Kinds
      <3>4. \A t \in At("producing") : unit[t] # 0
        BY DEF At, PlacesInv
      <3>. QED
        BY <3>1, <3>2, <3>3, <3>4 DEF Places
    <2>2. ASSUME NEW k \in Kinds, NEW i \in Nat, NEW u \in Units, Occurs(k, i, u)
          PROVE  <<k, i>> \in Places /\ UnitAt(<<k, i>>) = u
      <3>1. u # 0
        BY ArgumentsAssumption DEF Units
      <3>. QED
        BY <2>2, <3>1 DEF Occurs, Places, UnitAt
    <2>3. ASSUME NEW x \in Places PROVE UnitAt(x) \in 1..nextUnit \ refused
      BY <2>1 DEF UnitsInv, Units, TypeOK
    <2>4. ASSUME NEW u \in 1..nextUnit \ refused PROVE \E x \in Places : UnitAt(x) = u
      <3>1. u \in Units /\ u <= nextUnit /\ u \notin refused
        BY ArgumentsAssumption DEF Units, TypeOK
      <3>2. PICK k \in Kinds, i \in Nat : Occurs(k, i, u)
        BY <3>1 DEF UnitsInv
      <3>. QED
        BY <2>2, <3>1, <3>2
    <2>5. ASSUME NEW x \in Places, NEW y \in Places, UnitAt(x) = UnitAt(y) PROVE x = y
      BY <2>1, <2>5 DEF UnitsInv
    <2>. QED
      BY <2>3, <2>4, <2>5
  <1>. QED
    BY <1>1, <1>2, <1>3 DEF UnitsAccounted

-----------------------------------------------------------------------------
(* Where the main thread is tells which threads exist and which have       *)
(* ended, unless a group of threads could not be created.                  *)
PhasesInv ==
  /\ mainAt \in {"undoProducers", "undoConsumers"} => failed
  /\ mainAt # "createProducers" /\ ~failed => Producers \subseteq created
  /\ mainAt \in {"joinProducers", "joinConsumers", "destroy", "destroyed", "exited"} /\ ~failed
       => created = Threads
  /\ mainAt \in {"joinConsumers", "destroy", "destroyed", "exited"} /\ ~failed
       => \A p \in Producers : pc[p] = "done"
  /\ mainAt \in {"destroy", "destroyed", "exited"} /\ ~failed
       => \A c \in Consumers : pc[c] = "done"
  /\ mainAt \notin {"createProducers", "undoProducers"} /\ ~(Producers \subseteq created)
       => Ended(Producers)
  /\ mainAt \in {"destroy", "destroyed", "exited"} /\ ~(Consumers \subseteq created)
       => Ended(Consumers)

LEMMA NextPhases == TypeOK /\ PlacesInv /\ PhasesInv /\ [Next]_vars => PhasesInv'
  <1> SUFFICES ASSUME TypeOK, PlacesInv, PhasesInv, [Next]_vars PROVE PhasesInv'
    OBVIOUS
  <1>1. ASSUME UNCHANGED <<mainAt, created, failed>>,
               \A t \in Threads : pc[t] = "done" => pc'[t] = "done"
        PROVE  PhasesInv'
    BY <1>1, Groups DEF PhasesInv, Ended
  <1>2. ASSUME NEW t \in Threads, NEW from \in Doings \ {"done"}, NEW to \in Doings, Goto(t, from, to)
        PROVE  \A k \in Threads : pc[k] = "done" => pc'[k] = "done"
    BY <1>2, GotoEffect DEF Doings
  <1>3. ASSUME NEW p \in Producers, ProducerStep(p) PROVE PhasesInv'
    <2>1. UNCHANGED <<mainAt, created, failed>> /\ p \in Threads
      BY <1>3, Groups DEF ProducerStep, ProducerTake, ProducerEnd, ProducerEnqueue,
           ProducerEnqueueFails, ProducerSignal
    <2>2. \E from \in Doings \ {"done"}, to \in Doings : Goto(p, from, to)
      BY <1>3 DEF ProducerStep, ProducerTake, ProducerEnd, ProducerEnqueue,
           ProducerEnqueueFails, ProducerSignal, Doings
    <2>. QED
      BY <1>1, <1>2, <2>1, <2>2
  <1>4. ASSUME NEW c \in Consumers, ConsumerStep(c) PROVE PhasesInv'
    <2>1. UNCHANGED <<mainAt, created, failed>> /\ c \in Threads
      BY <1>4, Groups DEF ConsumerStep, ConsumerReserve, ConsumerEnd, ConsumerWait, ConsumerDequeue,
           ConsumerDequeueNothing, ConsumerConsume
    <2>2. \E from \in Doings \ {"done"}, to \in Doings : Goto(c, from, to)
      BY <1>4 DEF ConsumerStep, ConsumerReserve, ConsumerEnd, ConsumerWait, ConsumerDequeue,
           ConsumerDequeueNothing, ConsumerConsume, Doings
    <2>. QED
      BY <1>1, <1>2, <2>1, <2>2
  <1>5. CASE CreateProducer
    <2>1. mainAt' = "createProducers"
      BY <1>5 DEF CreateProducer, MainGoto
    <2>. QED
      BY <2>1 DEF PhasesInv
  <1>6. CASE CreateConsumer
    <2>1. mainAt = "createConsumers" /\ mainAt' = "createConsumers" /\ failed' = failed
          /\ created \subseteq created'
      BY <1>6 DEF CreateConsumer, MainGoto, Create
    <2>2. PICK c \in Consumers : created' = created \cup {c} /\ pc' = [pc EXCEPT ![c] = "running"]
      BY <1>6 DEF CreateConsumer, Create
    <2>3. Ended(Producers) => Ended(Producers)'
      BY <2>2, Groups DEF Ended, TypeOK
    <2>4. Producers \subseteq created => Producers \subseteq created'
      BY <2>1
    <2>. QED
      BY <2>1, <2>3, <2>4 DEF PhasesInv
  <1>7. CASE ProducersCreated \/ ProducersRefused \/ UndoProducers
    BY <1>7 DEF ProducersCreated, ProducersRefused, UndoProducers, MainGoto, PhasesInv, Ended
  <1>8. CASE ConsumersCreated
    <2>1. /\ mainAt = "createConsumers" /\ mainAt' = IF failed THEN "destroy" ELSE "joinProducers"
          /\ failed' = failed /\ created' = created /\ Consumers \subseteq created
      BY <1>8 DEF ConsumersCreated, MainGoto
    <2>2. ~failed => created = Threads
      BY <2>1, Groups DEF PhasesInv, TypeOK
    <2>. QED
      BY <1>8, <2>1, <2>2, Groups DEF PhasesInv, Ended, ConsumersCreated
  <1>9. CASE ConsumersRefused \/ UndoConsumers
    BY <1>9 DEF ConsumersRefused, UndoConsumers, MainGoto, PhasesInv, Ended
  <1>10. CASE JoinProducers \/ JoinConsumers
    BY <1>10, Groups DEF JoinProducers, JoinConsumers, MainGoto, PhasesInv, Ended
  <1>11. CASE Destroy \/ Exit
    BY <1>11 DEF Destroy, Exit, MainGoto, PhasesInv, shared, Ended
  <1>12. CASE UNCHANGED vars
    BY <1>12 DEF vars, PhasesInv, Ended
  <1>. QED
    BY <1>3, <1>4, <1>5, <1>6, <1>7, <1>8, <1>9, <1>10, <1>11, <1>12 DEF Next, MainStep

(* Once all threads have ended, everything that found memory was consumed. *)
AllConsumed == {consumed[i] : i \in DOMAIN consumed} \ {0} = Units \ refused

LEMMA EndedConsumed ==
  ASSUME TypeOK, PlacesInv, CountsInv, UnitsInv, SemaphoreInv,
         \A t \in Threads : pc[t] = "done"
  PROVE  AllConsumed
  <1>1. nextUnit = UnitCount /\ consumedCount = UnitCount
    BY Groups DEF PlacesInv
  <1>2. \A place \in Doings \ {"done"} : At(place) = {}
    BY DEF At, Doings
  <1>3. /\ N("producing") = 0 /\ N("signalling") = 0 /\ N("waiting") = 0
        /\ N("dequeuing") = 0 /\ N("consuming") = 0
    BY <1>2, FS_EmptySet DEF N, Doings
  <1>4. /\ canConsume \in Nat /\ Len(consumed) \in Nat /\ Len(queue) \in Nat
        /\ EmptyDequeues \in Nat /\ Cardinality(refused) \in Nat /\ UnitCount \in Nat
    BY BlankTypes, LenProperties, ArgumentsAssumption DEF TypeOK
  <1>5. canConsume = 0
    BY <1>1, <1>3, <1>4 DEF CountsInv
  <1>6. queue = <<>>
    <2>1. Len(queue) = 0
      BY <1>3, <1>4, <1>5 DEF SemaphoreInv
    <2>. QED
      BY <2>1, EmptySeq DEF TypeOK
  <1>7. \A k \in Kinds, i \in Nat, u \in Units : Occurs(k, i, u) <=>
          k = "consumed" /\ i \in DOMAIN consumed /\ consumed[i] = u
    BY <1>2, <1>6, EmptySeq DEF Occurs, Kinds, Doings
  <1>8. ASSUME NEW u \in Units \ refused PROVE u \in {consumed[i] : i \in DOMAIN consumed} \ {0}
    <2>1. u # 0 /\ u <= nextUnit
      BY <1>1, ArgumentsAssumption DEF Units
    <2>2. PICK k \in Kinds, i \in Nat : Occurs(k, i, u)
      BY <2>1 DEF UnitsInv
    <2>. QED
      BY <1>7, <2>1, <2>2
  <1>9. ASSUME NEW i \in DOMAIN consumed, consumed[i] # 0 PROVE consumed[i] \in Units \ refused
    <2>1. consumed \in Seq(0..UnitCount)
      BY DEF TypeOK
    <2>2. i \in Nat /\ i \in 1..Len(consumed)
      BY <2>1, LenProperties
    <2>3. consumed[i] \in 0..UnitCount
      BY <2>1, <2>2, ElementOfSeq
    <2>4. consumed[i] \in Units
      BY <1>9, <2>3, ArgumentsAssumption DEF Units
    <2>5. "consumed" \in Kinds
      BY DEF Kinds
    <2>. QED
      BY <1>7, <2>2, <2>4, <2>5 DEF UnitsInv
  <1>. QED
    BY <1>8, <1>9 DEF AllConsumed

(* Nothing is consumed after the simulation has been freed.                *)
ConsumedInv == Gone /\ ~failed => AllConsumed

LEMMA NextConsumed ==
  ASSUME TypeOK, PlacesInv, CountsInv, ~Gone => UnitsInv, ~Gone => SemaphoreInv, PhasesInv,
         ConsumedInv, [Next]_vars
  PROVE  ConsumedInv'
  <1> SUFFICES ASSUME Gone', ~failed' PROVE AllConsumed'
    BY DEF ConsumedInv
  <1>1. CASE Gone
    <2>1. UNCHANGED <<consumed, refused, failed>>
      BY <1>1 DEF Next, vars, ProducerStep, ConsumerStep, MainStep, Gone, ProducerTake, ProducerEnd,
             ProducerEnqueue, ProducerEnqueueFails, ProducerSignal, ConsumerReserve, ConsumerEnd,
             ConsumerWait, ConsumerDequeue, ConsumerDequeueNothing, ConsumerConsume, Goto,
             CreateProducer, ProducersCreated, ProducersRefused, UndoProducers,
             CreateConsumer, ConsumersCreated, ConsumersRefused, UndoConsumers,
             JoinProducers, JoinConsumers, Destroy, Exit, MainGoto, Create, shared
    <2>. QED
      BY <1>1, <2>1 DEF ConsumedInv, AllConsumed
  <1>2. CASE ~Gone
    <2>1. Destroy
      BY <1>2 DEF Next, vars, ProducerStep, ConsumerStep, MainStep, Gone, ProducerTake, ProducerEnd,
             ProducerEnqueue, ProducerEnqueueFails, ProducerSignal, ConsumerReserve, ConsumerEnd,
             ConsumerWait, ConsumerDequeue, ConsumerDequeueNothing, ConsumerConsume,
             CreateProducer, ProducersCreated, ProducersRefused, UndoProducers,
             CreateConsumer, ConsumersCreated, ConsumersRefused, UndoConsumers,
             JoinProducers, JoinConsumers, Destroy, Exit, MainGoto, Create, shared
    <2>2. mainAt = "destroy" /\ ~failed /\ UNCHANGED <<consumed, refused>>
      BY <2>1 DEF Destroy, MainGoto
    <2>3. \A t \in Threads : pc[t] = "done"
      BY <2>2, Groups DEF PhasesInv
    <2>4. AllConsumed
      BY <1>2, <2>3, EndedConsumed
    <2>. QED
      BY <2>2, <2>4 DEF AllConsumed
  <1>. QED
    BY <1>1, <1>2

(* The inductive invariant of the simulation.                              *)
Inv == /\ TypeOK /\ PlacesInv /\ CountsInv
       /\ ~Gone => UnitsInv
       /\ ~Gone => SemaphoreInv
       /\ PhasesInv /\ ConsumedInv

LEMMA Invariant == Spec => []Inv
  <1>1. Init => Inv
    <2> SUFFICES ASSUME Init PROVE Inv
      OBVIOUS
    <2>1. mainAt = "createProducers" /\ ~Gone
      BY DEF Init, Gone
    <2>2. PhasesInv /\ ConsumedInv
      BY <2>1 DEF PhasesInv, ConsumedInv
    <2>. QED
      BY <2>2, InitTypes, InitAccounts DEF Inv
  <1>2. Inv /\ [Next]_vars => Inv'
    <2> SUFFICES ASSUME Inv, [Next]_vars PROVE Inv'
      OBVIOUS
    <2>1. TypeOK' /\ PlacesInv'
      BY NextTypes DEF Inv
    <2>2. CountsInv'
      BY NextCounts DEF Inv
    <2>3. (~Gone => UnitsInv)'
      BY NextUnits DEF Inv
    <2>4. (~Gone => SemaphoreInv)'
      BY NextSemaphore DEF Inv
    <2>5. PhasesInv'
      BY NextPhases DEF Inv
    <2>6. ConsumedInv'
      BY NextConsumed DEF Inv
    <2>. QED
      BY <2>1, <2>2, <2>3, <2>4, <2>5, <2>6 DEF Inv
  <1>. QED
    BY <1>1, <1>2, PTL DEF Spec

(* Semaphore, queue, counters and reservations agree at every moment, and  *)
(* every unit is in one place.                                             *)
THEOREM Accounted == Spec => []UnitsAccounted
  <1>1. Inv => UnitsAccounted
    BY Accounts DEF Inv
  <1>. QED
    BY <1>1, Invariant, PTL

(* main frees the simulation when all threads have ended, if it could      *)
(* create them, and else when those of an incomplete group have.           *)
THEOREM FreedUnused == Spec => []NobodyUsesFreedMemory
  <1>1. Inv => NobodyUsesFreedMemory
    BY Groups DEF Inv, PhasesInv, NobodyUsesFreedMemory, Ended
  <1>. QED
    BY <1>1, Invariant, PTL

(* With all its threads, the program consumes every unit that found        *)
(* memory.                                                                 *)
THEOREM EverythingConsumed == Spec => []AllUnitsConsumed
  <1>1. Inv => AllUnitsConsumed
    BY DEF Inv, ConsumedInv, AllConsumed, Gone, AllUnitsConsumed
  <1>. QED
    BY <1>1, Invariant, PTL
=============================================================================
