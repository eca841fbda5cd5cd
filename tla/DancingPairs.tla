------------------------------ MODULE DancingPairs ------------------------------
(***************************************************************************)
(* dancing_pairs_6: main creates a thread for every man or woman the user  *)
(* enters.  A dancer that finds two men and two women counted takes the    *)
(* four out of the counters and dances; the others wait for the next       *)
(* chance, the dancer's own partners too, until an 'E' dismisses them.     *)
(* The floor is only used between lock and unlock, so that what a dancer   *)
(* does there is one action.  ThreadCount bounds the dancers entered.      *)
(***************************************************************************)
EXTENDS PthreadMain

Programs == {"dancing_pairs_6"}
Kinds == {"male", "female"}

(* The constructor of DanceFloor.                                          *)
Init == /\ program \in Programs
        /\ Starts([male_count |-> 0, female_count |-> 0, exit_flag |-> FALSE,
                   kind |-> [t \in Threads |-> "male"]])

WokenAll == [t \in Threads |-> IF at[t] = "waiting" THEN "woken" ELSE at[t]]

-----------------------------------------------------------------------------
(* main().  When a dancer cannot be created it returns and destroys the    *)
(* floor; with dancers on it that is undefined.                            *)
OpenFloor == Passes("start", "create")

ReadDancer ==
  \E k \in Kinds : CreateNext("lock")
                   /\ Field("kind", [shared.kind EXCEPT ![main.next] = k])

CreateFails ==
  /\ main.next < ThreadCount
  /\ MainFails("create", IF \A t \in Threads : at[t] \in {"unborn", "done"}
                         THEN "ended" ELSE "undefined")
  /\ UNCHANGED <<at, shared, output>>

ReadExit ==
  /\ main.at = "create"
  /\ main' = [main EXCEPT !.at = "join", !.next = 0, !.count = main.next]
  /\ at' = WokenAll
  /\ Field("exit_flag", TRUE)
  /\ UNCHANGED output

MainStep == \/ OpenFloor \/ ReadDancer \/ CreateFails \/ ReadExit
            \/ JoinNext /\ UNCHANGED shared
            \/ JoinEnds("freed") \/ Passes("freed", "ended")

-----------------------------------------------------------------------------
(* The loop of male() and female() and what follows it under the mutex,    *)
(* with the counters m and f and everybody else where others says.         *)
Look(t, m, f) ==
  /\ IF shared.exit_flag
     THEN /\ at' = [at EXCEPT ![t] = "done"]
          /\ shared' = [shared EXCEPT !.male_count = m, !.female_count = f]
     ELSE IF m < 2 \/ f < 2
     THEN /\ at' = [at EXCEPT ![t] = "waiting"]
          /\ shared' = [shared EXCEPT !.male_count = m, !.female_count = f]
     ELSE /\ at' = [WokenAll EXCEPT ![t] = "dance"]
          /\ shared' = [shared EXCEPT !.male_count = m - 2, !.female_count = f - 2]
  /\ UNCHANGED <<main, output>>

Male(t) == /\ at[t] = "lock" /\ shared.kind[t] = "male"
           /\ Look(t, shared.male_count + 1, shared.female_count)

Female(t) == /\ at[t] = "lock" /\ shared.kind[t] = "female"
             /\ Look(t, shared.male_count, shared.female_count + 1)

(* pthread_cond_wait returns.                                              *)
LookAgain(t) ==
  at[t] = "woken" /\ Look(t, shared.male_count, shared.female_count)

(* It may do so although nobody has broadcast.                             *)
WakeSpuriously(t) == Goes(t, "waiting", "woken") /\ UNCHANGED <<shared, output>>

Dance(t) ==
  Goes(t, "dance", "done") /\ Report(t, "dance") /\ UNCHANGED shared

ThreadStep(t) == Male(t) \/ Female(t) \/ LookAgain(t) \/ Dance(t)

Next == \/ Step(MainStep)
        \/ \E t \in Threads : Step(ThreadStep(t) \/ WakeSpuriously(t))

Spec == /\ Init /\ [][Next]_vars
        /\ WF_vars(Step(MainStep))
        /\ \A t \in Threads : WF_vars(Step(ThreadStep(t)))

-----------------------------------------------------------------------------
TypeOK == /\ program \in Programs
          /\ CommonTypes({"lock", "waiting", "woken", "dance"})
          /\ shared.kind \in [Threads -> Kinds]

(* Two men and two women leave the counters for every team that dances,    *)
(* and the counters never go below zero, whoever is woken when.            *)
Entered(kind) == Cardinality({t \in Threads : shared.kind[t] = kind
                                              /\ at[t] \notin {"unborn", "lock"}})
Teams == Cardinality({t \in Threads : at[t] = "dance"}) + Len(output)
TeamsAreWhole ==
  /\ shared.male_count >= 0 /\ shared.female_count >= 0
  /\ Entered("male") = shared.male_count + 2 * Teams
  /\ Entered("female") = shared.female_count + 2 * Teams

(* The floor is destroyed after the last dancer has left.                  *)
MemoryOutlivesThreads ==
  main.at = "freed" => \A t \in Threads : at[t] \in {"unborn", "done"}
=============================================================================
