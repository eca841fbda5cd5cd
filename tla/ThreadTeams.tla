------------------------------ MODULE ThreadTeams ------------------------------
(***************************************************************************)
(* Ten programs that start a team of threads and wait for it.  `program'   *)
(* is the one that runs, named like its source file; it never changes.     *)
(* In all of them main creates the threads one by one, and when a thread   *)
(* cannot be created most of them leave the loop and join thread_count     *)
(* threads all the same.  Joining a pthread_t that was never written is    *)
(* undefined: the program is not followed after that.  The line that main  *)
(* prints, and what it says of times and errors, are left out.             *)
(***************************************************************************)
EXTENDS PthreadMain

CONSTANTS HitsAvailable, \* the second argument of birthday_pinata
          HitsOfThread   \* what rand_r(&seed) % 10 can be

(* In the programs of Ordered the greetings are printed in turns.          *)
Ordered == {"hello_order_busywait", "hello_order_semaphor", "sem_vs_condsafe",
            "hello_order_cond_safe"}
Greeting == {"hello_iw_pri", "hello_iw_shr", "hello_w", "create_thread_team"}
Programs == Ordered \cup Greeting \cup {"position_race", "birthday_pinata"}

Init == program \in Programs /\ Starts([thread_count |-> ThreadCount])

-----------------------------------------------------------------------------
(* main's callocs and inits, with what they leave in *shared_data.         *)
Allocate(data) ==
  /\ \/ MainGoes("start", "create") /\ shared' = data
     \/ MainFails("start", "ended") /\ UNCHANGED shared
  /\ UNCHANGED <<at, output>>

CreationFails(to) ==
  /\ main.next < ThreadCount /\ MainFails("create", to)
  /\ UNCHANGED <<at, shared, output>>

CreationEnds == main.next = ThreadCount /\ Passes("create", "join")

(* The usual create_threads: a failure ends the loop, all are joined.      *)
CreateThreads(first) ==
  \/ CreateNext(first) /\ UNCHANGED shared
  \/ CreationFails("join") \/ CreationEnds
  \/ JoinNext /\ UNCHANGED shared
  \/ JoinEnds("free")

Greet(t, from, to) ==
  Goes(t, from, to) /\ Report(t, "hello") /\ UNCHANGED shared

-----------------------------------------------------------------------------
(* Faulty variants, used by no specification: the thread signals the next  *)
(* one before it has printed; the hits drawn are not limited by those left.*)
BusywaitSignalsFirst(t) ==
  \/ Goes(t, "wait", "load") /\ shared.next_thread >= t /\ UNCHANGED <<shared, output>>
  \/ /\ Goes(t, "load", "print") /\ UNCHANGED output
     /\ Field("next_thread", shared.next_thread + 1)
  \/ Greet(t, "print", "done")

AsDrawn(hits, available) == hits

-----------------------------------------------------------------------------
(* hello_iw_pri, hello_iw_shr: the threads greet when they get to it.      *)
IwPriMain == Allocate([thread_count |-> ThreadCount]) \/ Passes("freed", "ended")
IwPriCreateThreads == CreateThreads("greet") \/ Passes("free", "freed")
IwPriGreet(t) == Greet(t, "greet", "done")

IwShrMain == \/ Allocate([thread_count |-> ThreadCount])
             \/ Passes("free", "freed") \/ Passes("freed", "ended")
IwShrCreateThreads == CreateThreads("greet")
IwShrGreet(t) == Greet(t, "greet", "done")

(* hello_w: a failure ends the program, and with it the threads that run.  *)
(* The argument of a thread is its own, and the thread frees it.           *)
HelloWMain == Allocate([args |-> {}]) \/ Passes("freed", "ended")
HelloWCreateThreads ==
  \/ CreateNext("greet") /\ Field("args", shared.args \cup {main.next})
  \/ CreationFails("ended") \/ CreationEnds
  \/ JoinNext /\ UNCHANGED shared
  \/ JoinEnds("freed")
HelloWGreet(t) ==
  /\ Goes(t, "greet", "done") /\ Report(t, "hello")
  /\ Field("args", shared.args \ {t})

(* create_thread_team: after a failure only the threads that were created  *)
(* are joined.                                                             *)
TeamMain == Allocate([thread_count |-> ThreadCount]) \/ Passes("freed", "ended")
TeamCreateThreads ==
  \/ CreateNext("greet") /\ UNCHANGED shared
  \/ /\ main.at = "create" /\ main.next < ThreadCount
     /\ main' = [at |-> "join", next |-> 0, count |-> main.next, error |-> TRUE]
     /\ UNCHANGED <<at, shared, output>>
  \/ CreationEnds
TeamGreet(t) == Greet(t, "greet", "done")
TeamJoinThreads == (JoinNext /\ UNCHANGED shared) \/ JoinEnds("freed")

-----------------------------------------------------------------------------
(* hello_order_busywait: a thread prints once next_thread has come to its  *)
(* number, and increments next_thread, in two accesses without a lock.     *)
BusywaitMain == \/ Allocate([next_thread |-> 0, loaded |-> [t \in Threads |-> 0]])
                \/ Passes("free", "freed") \/ Passes("freed", "ended")
BusywaitCreateThreads == CreateThreads("wait")
BusywaitGreet(t) ==
  \/ Goes(t, "wait", "print") /\ shared.next_thread >= t /\ UNCHANGED <<shared, output>>
  \/ Greet(t, "print", "load")
  \/ /\ Goes(t, "load", "store") /\ UNCHANGED output
     /\ Field("loaded", [shared.loaded EXCEPT ![t] = shared.next_thread])
  \/ /\ Goes(t, "store", "done") /\ UNCHANGED output
     /\ Field("next_thread", shared.loaded[t] + 1)

(* hello_order_cond_safe: every thread writes the greeting that main has   *)
(* allocated for it; main prints them in order and frees them.             *)
CondSafeMain == \/ Allocate([greets |-> [t \in Threads |-> "NULL"]])
                \/ Passes("free", "freed") \/ Passes("freed", "ended")
CondSafeCreateThreads ==
  \/ CreateNext("greet") /\ Field("greets", [shared.greets EXCEPT ![main.next] = ""])
  \/ CreationFails("join") \/ CreationEnds
  \/ JoinNext /\ UNCHANGED shared
  \/ JoinEnds("print")
  \/ /\ main.at = "print" /\ main.next < ThreadCount
     /\ Report(main.next, shared.greets[main.next])
     /\ Field("greets", [shared.greets EXCEPT ![main.next] = "freed"])
     /\ main' = [main EXCEPT !.next = @ + 1] /\ UNCHANGED at
  \/ main.next = ThreadCount /\ Passes("print", "free")
CondSafeGreet(t) ==
  /\ Goes(t, "greet", "done") /\ UNCHANGED output
  /\ Field("greets", [shared.greets EXCEPT ![t] = "hello"])

(* hello_order_semaphor and sem_vs_condsafe: a semaphore per thread, and   *)
(* only the first is posted when the threads start.  A thread posts the    *)
(* next one's when it has printed; main destroys each once it has joined   *)
(* its thread.  (sem_destroy does nothing to a semaphore in glibc, so that *)
(* a post after it is carried out.)                                        *)
Semaphores == [can_greet |-> [t \in Threads |-> IF t = 0 THEN 1 ELSE 0],
               destroyed |-> {}]

(* The semaphores are initialised before can_greet is compared with NULL:  *)
(* what follows a failure is undefined, unless there is nothing to         *)
(* initialise.  The failure of shared_data is found out in time.           *)
AllocateSemaphores ==
  Allocate(Semaphores) \/ (ThreadCount > 0 /\ Passes("start", "undefined"))
NextThread(t) == (t + 1) % ThreadCount
JoinAndDestroy ==
  JoinNext /\ Field("destroyed", shared.destroyed \cup {main.next})
CreateAndDestroy(first) ==
  \/ CreateNext(first) /\ UNCHANGED shared
  \/ CreationFails("join") \/ CreationEnds
  \/ JoinAndDestroy \/ JoinEnds("free")

SemaphorMain == \/ AllocateSemaphores
                \/ Passes("free", "freed") \/ Passes("freed", "ended")
SemaphorCreateThreads == CreateAndDestroy("wait")
SemaphorGreet(t) ==
  \/ /\ Goes(t, "wait", "print") /\ shared.can_greet[t] > 0
     /\ Field("can_greet", [shared.can_greet EXCEPT ![t] = @ - 1])
     /\ UNCHANGED output
  \/ Greet(t, "print", "post")
  \/ /\ Goes(t, "post", "done")
     /\ Field("can_greet", [shared.can_greet EXCEPT ![NextThread(t)] = @ + 1])
     /\ UNCHANGED output

SemVsMain == \/ AllocateSemaphores
             \/ Passes("free", "freed") \/ Passes("freed", "ended")
SemVsCreateThreads == CreateAndDestroy("wait")
SemVsGreet(t) == SemaphorGreet(t)

-----------------------------------------------------------------------------
(* position_race: the position is counted and printed under a mutex.       *)
RaceMain == \/ Allocate([position |-> 0, can_access_position |-> TRUE])
            \/ Passes("free", "freed") \/ Passes("freed", "ended")
RaceCreateThreads == CreateThreads("lock")
Race(t) ==
  \/ /\ Goes(t, "lock", "increment") /\ shared.can_access_position
     /\ Field("can_access_position", FALSE) /\ UNCHANGED output
  \/ /\ Goes(t, "increment", "print")
     /\ Field("position", shared.position + 1) /\ UNCHANGED output
  \/ /\ Goes(t, "print", "done") /\ Report(t, shared.position)
     /\ Field("can_access_position", TRUE)

(* birthday_pinata: main draws the hits of a thread and limits them to the *)
(* hits left, without the mutex that the running threads hold when they    *)
(* change them; a thread limits them again.  Between lock and unlock hit() *)
(* writes hits_available once, and only main reads it without the lock, so *)
(* that hit() is one action.                                               *)
AtMost(hits, available) == IF hits > available THEN available ELSE hits
PinataMain == \/ Allocate([hits_available |-> HitsAvailable, position |-> 0,
                           hits |-> [t \in Threads |-> 0]])
              \/ Passes("free", "freed") \/ Passes("freed", "ended")
PinataCreateThreads ==
  \/ \E h \in HitsOfThread :
       /\ CreateNext("hit")
       /\ Field("hits", [shared.hits EXCEPT
                           ![main.next] = AtMost(h, shared.hits_available)])
  \/ CreationFails("join") \/ CreationEnds
  \/ JoinNext /\ UNCHANGED shared
  \/ JoinEnds("free")
Hit(t) ==
  LET hits == AtMost(shared.hits[t], shared.hits_available) IN
  /\ Goes(t, "hit", "done")
  /\ IF shared.hits_available = 0
     THEN Report(t, "none") /\ UNCHANGED shared
     ELSE /\ shared' = [shared EXCEPT !.hits_available = @ - hits, !.hits[t] = hits,
                                      !.position = @ + 1]
          /\ Report(t, IF shared.hits_available = hits THEN "destroyed" ELSE "left")

-----------------------------------------------------------------------------
MainStep ==
  \/ program = "hello_iw_pri" /\ (IwPriMain \/ IwPriCreateThreads)
  \/ program = "hello_iw_shr" /\ (IwShrMain \/ IwShrCreateThreads)
  \/ program = "hello_w" /\ (HelloWMain \/ HelloWCreateThreads)
  \/ program = "create_thread_team" /\ (TeamMain \/ TeamCreateThreads \/ TeamJoinThreads)
  \/ program = "hello_order_busywait" /\ (BusywaitMain \/ BusywaitCreateThreads)
  \/ program = "hello_order_cond_safe" /\ (CondSafeMain \/ CondSafeCreateThreads)
  \/ program = "hello_order_semaphor" /\ (SemaphorMain \/ SemaphorCreateThreads)
  \/ program = "sem_vs_condsafe" /\ (SemVsMain \/ SemVsCreateThreads)
  \/ program = "position_race" /\ (RaceMain \/ RaceCreateThreads)
  \/ program = "birthday_pinata" /\ (PinataMain \/ PinataCreateThreads)

ThreadStep(t) ==
  \/ program = "hello_iw_pri" /\ IwPriGreet(t)
  \/ program = "hello_iw_shr" /\ IwShrGreet(t)
  \/ program = "hello_w" /\ HelloWGreet(t)
  \/ program = "create_thread_team" /\ TeamGreet(t)
  \/ program = "hello_order_busywait" /\ BusywaitGreet(t)
  \/ program = "hello_order_cond_safe" /\ CondSafeGreet(t)
  \/ program = "hello_order_semaphor" /\ SemaphorGreet(t)
  \/ program = "sem_vs_condsafe" /\ SemVsGreet(t)
  \/ program = "position_race" /\ Race(t)
  \/ program = "birthday_pinata" /\ Hit(t)

Next == \/ Step(MainStep)
        \/ \E t \in Threads : Step(ThreadStep(t))

Spec == /\ Init /\ [][Next]_vars
        /\ WF_vars(Step(MainStep))
        /\ \A t \in Threads : WF_vars(Step(ThreadStep(t)))

-----------------------------------------------------------------------------
TypeOK ==
  /\ program \in Programs
  /\ CommonTypes({"greet", "wait", "print", "load", "store", "post", "lock",
                  "increment", "hit"})

(* Greetings are printed in the order of the threads' numbers where the    *)
(* program makes them take turns, and positions in the order of arrival.   *)
TurnsRespected ==
  \A i \in DOMAIN output :
    /\ program \in Ordered => output[i] = [by |-> i - 1, says |-> "hello"]
    /\ program = "position_race" => output[i].says = i

(* A program that succeeds has heard of every thread once.                 *)
Reports(t) == {i \in DOMAIN output : output[i].by = t}
EveryoneHeard ==
  main.at = "ended" /\ ~main.error => \A t \in Threads : Cardinality(Reports(t)) = 1

(* The hits of the piñata and of its threads are never lost, and one       *)
(* thread at most, the one that takes the last hit, has destroyed it.      *)
Hitting == {i \in DOMAIN output : output[i].says # "none"}
Destroying == {i \in DOMAIN output : output[i].says = "destroyed"}
HitsIn(i) == IF i \in Hitting THEN shared.hits[output[i].by] ELSE 0
HitsUntil[i \in 0..Len(output)] == IF i = 0 THEN 0 ELSE HitsUntil[i - 1] + HitsIn(i)

HitsAddUp ==
  program = "birthday_pinata" /\ main.at # "start" /\ (~main.error \/ main.at # "ended") =>
    /\ shared.hits_available \in 0..HitsAvailable
    /\ HitsUntil[Len(output)] + shared.hits_available = HitsAvailable
    /\ shared.position = Cardinality(Hitting)
    /\ Cardinality(Destroying) =
         IF shared.hits_available = 0 /\ HitsAvailable > 0 THEN 1 ELSE 0

(* What the threads share is not freed while one of them runs, on the      *)
(* paths after a failure too.                                              *)
MemoryOutlivesThreads ==
  main.at = "freed" => \A t \in Threads : at[t] \in {"unborn", "done"}
=============================================================================
