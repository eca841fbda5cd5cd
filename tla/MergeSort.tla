-------------------------------- MODULE MergeSort --------------------------------
(***************************************************************************)
(* omp_mergesort: a vector is sorted by OpenMP tasks.  A task creates one  *)
(* for each half, waits for both, and merges the halves by way of a vector *)
(* of its own.  A task is known by its bounds <<left, right>>, both in the *)
(* vector, whose first index is 0; any task may run at any time, on a      *)
(* thread of its own or in place of one that waits.                        *)
(***************************************************************************)
EXTENDS PthreadMain

CONSTANT Vectors   \* what can be read or drawn

Programs == {"omp_mergesort"}

(* task[t]: how far each task that was created has come, and its temp.     *)
Init ==
  /\ program \in Programs
  /\ \E vector \in Vectors :
       Starts([given |-> vector, values |-> vector, task |-> <<>>])

At(stage) == {t \in DOMAIN shared.task : shared.task[t].stage = stage}
Created == [stage |-> "created", temp |-> <<>>]
Part(left, right) == SubSeq(shared.values, left + 1, right + 1)

Becomes(t, stage, temp) == [shared.task EXCEPT ![t] = [stage |-> stage, temp |-> temp]]
Creates(t, stage, child) ==
  Field("task", [u \in {child} \cup DOMAIN shared.task |->
                   IF u = child THEN Created ELSE Becomes(t, stage, <<>>)[u]])

Mid(t) == (t[1] + t[2]) \div 2
LeftHalf(t) == <<t[1], Mid(t)>>
RightHalf(t) == <<Mid(t) + 1, t[2]>>

(* std::merge: an element of the second goes first only if it is smaller.  *)
(* Taken(a, b)[k] of the first k elements come from a.                     *)
FromFirst(a, b, i, j) == i < Len(a) /\ ~(j < Len(b) /\ b[j + 1] < a[i + 1])
Taken(a, b) ==
  LET taken[k \in 0..Len(a) + Len(b)] ==
        IF k = 0 THEN 0
        ELSE IF FromFirst(a, b, taken[k - 1], k - 1 - taken[k - 1])
             THEN taken[k - 1] + 1 ELSE taken[k - 1]
  IN  taken
Merged(a, b) ==
  LET taken == Taken(a, b)
  IN  [k \in 1..Len(a) + Len(b) |->
         IF taken[k] > taken[k - 1] THEN a[taken[k]] ELSE b[k - taken[k]]]

-----------------------------------------------------------------------------
(* mergesort(values, left, right)                                          *)
NothingToSort(t) ==
  t \in At("created") /\ t[2] - t[1] <= 0 /\ Field("task", Becomes(t, "done", <<>>))

CreateHalves(t) ==
  \/ t \in At("created") /\ t[2] - t[1] > 0 /\ Creates(t, "left created", LeftHalf(t))
  \/ t \in At("left created") /\ Creates(t, "waiting", RightHalf(t))

MergeHalves(t) ==
  /\ t \in At("waiting") /\ {LeftHalf(t), RightHalf(t)} \subseteq At("done")
  /\ Field("task", Becomes(t, "merged", Merged(Part(t[1], Mid(t)), Part(Mid(t) + 1, t[2]))))

CopyBack(t) ==
  /\ t \in At("merged")
  /\ shared' = [shared EXCEPT
       !.values = [i \in DOMAIN @ |-> IF i - 1 \in t[1]..t[2]
                                      THEN shared.task[t].temp[i - t[1]] ELSE @[i]],
       !.task = Becomes(t, "done", <<>>)]

TaskStep(t) ==
  /\ NothingToSort(t) \/ CreateHalves(t) \/ MergeHalves(t) \/ CopyBack(t)
  /\ UNCHANGED <<main, at, output>>

(* One thread of the team creates the first task; the team ends after the  *)
(* last one.                                                               *)
Team ==
  \/ /\ MainGoes("start", "sort") /\ UNCHANGED <<at, output>>
     /\ Field("task", [t \in {<<0, Len(shared.values) - 1>>} |-> Created])
  \/ At("done") = DOMAIN shared.task /\ Passes("sort", "ended")

MainStep == Team \/ \E t \in DOMAIN shared.task : TaskStep(t)

Next == Step(MainStep)
Spec == Init /\ [][Next]_vars /\ WF_vars(Next)

-----------------------------------------------------------------------------
is_sorted(values) == \A i, j \in DOMAIN values : i < j => values[i] <= values[j]

TypeOK ==
  /\ program \in Programs
  /\ main.at \in {"start", "sort", "ended"}
  /\ \A t \in DOMAIN shared.task :
       /\ shared.task[t].stage \in {"created", "left created", "waiting", "merged", "done"}
       /\ t[1] \in 0..Len(shared.values) /\ t[2] \in t[1] - 1..Len(shared.values) - 1

(* A task that has ended has sorted its part, although the tasks of the    *)
(* other parts work on the same vector, and lost none of its elements: as  *)
(* long as no wider part is done, there are as many of each as were given. *)
(* No task is still at work inside the part of one that merges.            *)
Within(u, t) == t[1] <= u[1] /\ u[2] <= t[2]
HowMany(vector, value, t) == Cardinality({i \in t[1] + 1..t[2] + 1 : vector[i] = value})
Widest == {t \in At("done") : \A u \in At("done") \ {t} : ~Within(t, u)}
PartsSorted ==
  /\ \A t \in At("done") : is_sorted(Part(t[1], t[2]))
  /\ \A t \in Widest : \A i \in t[1] + 1..t[2] + 1 :
       HowMany(shared.values, shared.given[i], t) = HowMany(shared.given, shared.given[i], t)
  /\ \A t \in At("merged") : \A u \in DOMAIN shared.task \ {t} :
       Within(u, t) => u \in At("done")
=============================================================================
