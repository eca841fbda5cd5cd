---------------------------- MODULE WaterMolecules ----------------------------
(***************************************************************************)
(* build_h2o: main creates a thread for every atom the user enters, until  *)
(* an 'E'.  The atom that completes a molecule posts one unit for each of  *)
(* its three atoms and wakes all that wait on the condition.  The counters *)
(* are only used between lock and unlock, so what an atom does there is    *)
(* one action.  At most ThreadCount atoms are entered, far below the 100   *)
(* for which main has room.                                                *)
(***************************************************************************)
EXTENDS PthreadMain

Programs == {"build_h2o"}
Kinds == {"hydrogen", "oxygen"}

Init ==
  /\ program \in Programs
  /\ Starts([hydrogen_sem |-> 0, oxygen_sem |-> 0,
             hydrogen_count |-> 0, oxygen_count |-> 0,
             kind |-> [t \in Threads |-> "hydrogen"]])

Semaphore(kind) == IF kind = "hydrogen" THEN "hydrogen_sem" ELSE "oxygen_sem"

-----------------------------------------------------------------------------
(* main(): the result of pthread_create is not looked at, so that a thread *)
(* that was not created is joined with the others.                         *)
InitSemaphores == Passes("start", "create")

ReadAtom ==
  \E k \in Kinds :
    /\ \/ CreateNext("lock")
       \/ /\ main.at = "create" /\ main.next < ThreadCount
          /\ main' = [main EXCEPT !.next = @ + 1] /\ UNCHANGED <<at, output>>
    /\ Field("kind", [shared.kind EXCEPT ![main.next] = k])

ReadExit ==
  /\ main.at = "create"
  /\ main' = [main EXCEPT !.at = "join", !.next = 0, !.count = main.next]
  /\ UNCHANGED <<at, shared, output>>

MainStep == \/ InitSemaphores \/ ReadAtom \/ ReadExit
            \/ JoinNext /\ UNCHANGED shared
            \/ JoinEnds("freed") \/ Passes("freed", "ended")

-----------------------------------------------------------------------------
(* What hydrogen() and oxygen() do under the mutex, with the counters as   *)
(* they are once the atom has been counted.                                *)
CountAtom(t, hydrogens, oxygens) ==
  IF hydrogens >= 2 /\ oxygens >= 1
  THEN /\ shared' = [shared EXCEPT !.hydrogen_sem = @ + 2, !.oxygen_sem = @ + 1,
                                   !.hydrogen_count = hydrogens - 2,
                                   !.oxygen_count = oxygens - 1]
       /\ at' = [u \in Threads |->
                   IF u = t \/ at[u] = "condition" THEN "semaphore" ELSE at[u]]
  ELSE /\ shared' = [shared EXCEPT !.hydrogen_count = hydrogens,
                                   !.oxygen_count = oxygens]
       /\ at' = [at EXCEPT ![t] = "condition"]

(* A faulty variant: only one hydrogen is taken out of the counter.        *)
HydrogenTakesOne(t) ==
  /\ at[t] = "lock" /\ shared.kind[t] = "hydrogen"
  /\ CountAtom(t, shared.hydrogen_count + 2, shared.oxygen_count)
  /\ UNCHANGED <<main, output>>

Hydrogen(t) ==
  /\ at[t] = "lock" /\ shared.kind[t] = "hydrogen"
  /\ CountAtom(t, shared.hydrogen_count + 1, shared.oxygen_count)
  /\ UNCHANGED <<main, output>>

Oxygen(t) ==
  /\ at[t] = "lock" /\ shared.kind[t] = "oxygen"
  /\ CountAtom(t, shared.hydrogen_count, shared.oxygen_count + 1)
  /\ UNCHANGED <<main, output>>

(* pthread_cond_wait may return although nobody has signalled, and nothing *)
(* is tested again.                                                        *)
WakeSpuriously(t) ==
  Goes(t, "condition", "semaphore") /\ UNCHANGED <<shared, output>>

(* The atom waits for the semaphore of its kind, and bonds.                *)
Bond(t) ==
  LET semaphore == Semaphore(shared.kind[t]) IN
  /\ Goes(t, "semaphore", "done") /\ shared[semaphore] > 0
  /\ Field(semaphore, shared[semaphore] - 1)
  /\ UNCHANGED output

ThreadStep(t) == Hydrogen(t) \/ Oxygen(t) \/ Bond(t)

Next == \/ Step(MainStep)
        \/ \E t \in Threads : Step(ThreadStep(t) \/ WakeSpuriously(t))

Spec == /\ Init /\ [][Next]_vars
        /\ WF_vars(Step(MainStep))
        /\ \A t \in Threads : WF_vars(Step(ThreadStep(t)))

-----------------------------------------------------------------------------
TypeOK == /\ program \in Programs
          /\ CommonTypes({"lock", "condition", "semaphore"})
          /\ shared.kind \in [Threads -> Kinds]
          /\ \A f \in DOMAIN shared \ {"kind"} : shared[f] \in 0..2 * ThreadCount

(* The atoms that have been counted are in whole molecules or left over,   *)
(* too few for one more; and two units of hydrogen and one of oxygen are   *)
(* waiting or used for each molecule, whoever uses them.                   *)
AtomsAt(kind, places) == {t \in Threads : shared.kind[t] = kind /\ at[t] \in places}
MoleculesAreWhole ==
  LET Counted(kind) == Cardinality(AtomsAt(kind, {"condition", "semaphore", "done"}))
      Bonded(kind) == Cardinality(AtomsAt(kind, {"done"}))
      molecules == Counted("oxygen") - shared.oxygen_count
  IN  /\ Counted("hydrogen") = 2 * molecules + shared.hydrogen_count
      /\ shared.hydrogen_count < 2 \/ shared.oxygen_count = 0
      /\ Bonded("hydrogen") + shared.hydrogen_sem = 2 * molecules
      /\ Bonded("oxygen") + shared.oxygen_sem = molecules

(* The semaphores and the mutex are destroyed after the last atom.         *)
MemoryOutlivesThreads ==
  main.at = "freed" => \A t \in Threads : at[t] \in {"unborn", "done"}

(* Every molecule is formed in the end, although atoms that woke for       *)
(* another molecule may bond first; and the program ends unless atoms are  *)
(* left over, which main waits for (main has no way to dismiss them).      *)
UnitsAreLeft == /\ Running /\ program \in Programs
                /\ shared.hydrogen_sem + shared.oxygen_sem > 0
AtomsAreLeft == /\ main.at = "join" /\ program \in Programs
                /\ shared.hydrogen_count + shared.oxygen_count > 0
=============================================================================
