----------------------------- MODULE BuildingTasks -----------------------------
(***************************************************************************)
(* building_tasks_: ten tasks of a building, one thread each.  A task      *)
(* waits for one unit of the semaphore of every task it depends on, works  *)
(* under a mutex, and posts its own semaphore for each task that depends   *)
(* on it.  The semaphore of the first task starts with a unit, though that *)
(* task depends on nobody.  Tasks are numbered as in the table of main;    *)
(* the lines they print are left out, being at the points they report.     *)
(***************************************************************************)
EXTENDS PthreadMain

Programs == {"building_tasks"}

obraGris == 0
plomeriaExt == 1
techo == 2
pinturaExt == 3
acabadosExt == 4
instalacionElectrica == 5
plomeriaInt == 6
pinturaInt == 7
piso == 8
acabadosInt == 9

Tasks == obraGris..acabadosInt
None == <<>>

(* tareas[]: the semaphores a task waits for, in their order, ...          *)
Dependencies ==
  << None, <<obraGris>>, <<obraGris>>, <<plomeriaExt>>, <<pinturaExt>>, <<techo>>,
     <<plomeriaExt>>, <<plomeriaInt, instalacionElectrica>>, <<pinturaInt>>, <<piso>> >>

(* Faulty variants: the exterior plumbing unblocks one task, not two, and  *)
(* the grey work three.                                                    *)
PostsOneLess == <<2, 1, 1, 1, 0, 1, 1, 1, 1, 0>>
PostsOneMore == <<3, 2, 1, 1, 0, 1, 1, 1, 1, 0>>

(* ... and how often it posts its own.                                     *)
Posts == <<2, 2, 1, 1, 0, 1, 1, 1, 1, 0>>

dependencias(t) == Dependencies[t + 1]
num_post(t) == Posts[t + 1]

Init == /\ program \in Programs
        /\ Starts([semaphore |-> [t \in Tasks |-> IF t = obraGris THEN 1 ELSE 0],
                   loop |-> [t \in Tasks |-> 1]])

Loop(t, n) == [shared.loop EXCEPT ![t] = n]

-----------------------------------------------------------------------------
(* main(): exit when a thread cannot be created.                           *)
MainStep ==
  \/ Passes("start", "create")
  \/ CreateNext("wait") /\ UNCHANGED shared
  \/ main.next < ThreadCount /\ MainFails("create", "ended") /\ UNCHANGED <<at, shared, output>>
  \/ main.next = ThreadCount /\ Passes("create", "join")
  \/ JoinNext /\ UNCHANGED shared
  \/ JoinEnds("freed") \/ Passes("freed", "ended")

-----------------------------------------------------------------------------
(* ejecutar_tarea(): the loop over the dependencies, the work under the    *)
(* mutex, the loop of the posts.                                           *)
WaitDependency(t) ==
  /\ at[t] = "wait" /\ shared.loop[t] <= Len(dependencias(t))
  /\ LET needed == dependencias(t)[shared.loop[t]] IN
       /\ shared.semaphore[needed] > 0
       /\ shared' = [shared EXCEPT !.semaphore[needed] = @ - 1, !.loop[t] = @ + 1]
  /\ UNCHANGED <<main, at, output>>

StartWork(t) ==
  /\ Goes(t, "wait", "work") /\ shared.loop[t] > Len(dependencias(t))
  /\ \A u \in Tasks : at[u] # "work"
  /\ UNCHANGED <<shared, output>>

EndWork(t) ==
  /\ Goes(t, "work", "post") /\ Field("loop", Loop(t, 1)) /\ UNCHANGED output

Post(t) ==
  IF shared.loop[t] <= num_post(t)
  THEN /\ at[t] = "post"
       /\ shared' = [shared EXCEPT !.semaphore[t] = @ + 1, !.loop[t] = @ + 1]
       /\ UNCHANGED <<main, at, output>>
  ELSE Goes(t, "post", "done") /\ UNCHANGED <<shared, output>>

ThreadStep(t) == WaitDependency(t) \/ StartWork(t) \/ EndWork(t) \/ Post(t)

Next == \/ Step(MainStep)
        \/ \E t \in Threads : Step(ThreadStep(t))

Spec == /\ Init /\ [][Next]_vars
        /\ WF_vars(Step(MainStep))
        /\ \A t \in Threads : WF_vars(Step(ThreadStep(t)))

-----------------------------------------------------------------------------
TypeOK == /\ program \in Programs
          /\ CommonTypes({"wait", "work", "post"})
          /\ shared.semaphore \in [Tasks -> 0..3]
          /\ shared.loop \in [Tasks -> 1..3]

(* A task that depends on others starts after all of them have ended; the  *)
(* two that wait for the grey work may not, whose semaphore has one unit   *)
(* too many.                                                               *)
HasEnded(t) == at[t] \in {"post", "done"}
TurnsRespected ==
  \A t \in Tasks : at[t] \in {"work", "post", "done"} =>
    \A u \in {dependencias(t)[i] : i \in DOMAIN dependencias(t)} :
      u # obraGris => HasEnded(u)

(* The semaphores are destroyed after the last task.                       *)
MemoryOutlivesThreads ==
  main.at = "freed" => \A t \in Threads : at[t] \in {"unborn", "done"}
=============================================================================
