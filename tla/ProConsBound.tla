----------------------------- MODULE ProConsBound -----------------------------
(***************************************************************************)
(* The producer-consumer simulation with a bounded buffer                  *)
(* (examples/pthreads/pro_cons_bound): one producer fills the buffer round *)
(* after round and one consumer reads it round after round, and neither    *)
(* ever waits for the other.  The accesses to a place of the buffer race;  *)
(* a place is an aligned double, which the build reads and writes whole,   *)
(* so the outcomes of the race are the old value and the new one.          *)
(* ThreadCount is 2.  The pauses are left out.                             *)
(***************************************************************************)
EXTENDS PthreadMain

CONSTANTS BufferCapacity,  \* buffer_capacity, not 0
          Rounds           \* rounds, not 0

Programs == {"pro_cons_bound"}
producer == 0
consumer == 1
Products == BufferCapacity * Rounds
Indexes == 0..BufferCapacity - 1

(* count: the products made; reads: how often the consumer has read;       *)
(* value: what it read last.  calloc clears the buffer.                    *)
Init == /\ program \in Programs
        /\ Starts([buffer |-> [i \in Indexes |-> 0], count |-> 0, reads |-> 0,
                   value |-> 0])

(* The index of both nested loops after n iterations of the inner one.     *)
IndexAfter(n) == n % BufferCapacity

-----------------------------------------------------------------------------
(* Arguments that are not as they should be end the program, and so does a *)
(* buffer that cannot be allocated.                                        *)
AnalyzeArguments ==
  MainFails("start", "ended") /\ UNCHANGED <<at, shared, output>>

(* Nobody is joined when one of the two threads cannot be created.         *)
CreateThreads ==
  \/ CreateNext("running") /\ UNCHANGED shared
  \/ /\ main.next < ThreadCount /\ MainFails("create", "free")
     /\ UNCHANGED <<at, shared, output>>
  \/ main.next = ThreadCount /\ Passes("create", "join")
  \/ JoinNext /\ UNCHANGED shared
  \/ JoinEnds("free")

(* main() frees the buffer.  Once that is done under a running thread it   *)
(* is undefined what happens, and the program is not followed.             *)
MainStep ==
  \/ Passes("start", "create") \/ AnalyzeArguments
  \/ CreateThreads
  \/ Passes("free", "freed") \/ Passes("freed", "ended")

(* produce(): buffer[index] = ++count                                      *)
Produce ==
  /\ Goes(producer, "running", "running") /\ shared.count < Products
  /\ shared' = [shared EXCEPT !.buffer[IndexAfter(shared.count)] = shared.count + 1,
                              !.count = @ + 1]
  /\ UNCHANGED output

(* consume(): the value is read before the pause and printed after it.     *)
Read ==
  /\ Goes(consumer, "running", "consuming") /\ shared.reads < Products
  /\ shared' = [shared EXCEPT !.value = shared.buffer[IndexAfter(shared.reads)],
                              !.reads = @ + 1]
  /\ UNCHANGED output

Consume ==
  Goes(consumer, "consuming", "running") /\ Report(consumer, shared.value) /\ UNCHANGED shared

Return(t, loops) ==
  Goes(t, "running", "done") /\ loops = Products /\ UNCHANGED <<shared, output>>

ThreadStep(t) ==
  \/ t = producer /\ (Produce \/ Return(t, shared.count))
  \/ t = consumer /\ (Read \/ Consume \/ Return(t, shared.reads))

MemoryIsFreed == main.at = "freed"

Next == \/ Step(MainStep)
        \/ ~MemoryIsFreed /\ \E t \in Threads : Step(ThreadStep(t))

Spec == /\ Init /\ [][Next]_vars
        /\ WF_vars(Step(MainStep))
        /\ \A t \in Threads : WF_vars(~MemoryIsFreed /\ Step(ThreadStep(t)))

-----------------------------------------------------------------------------
TypeOK ==
  /\ program \in Programs
  /\ CommonTypes({"running", "consuming"})
  /\ shared.buffer \in [Indexes -> 0..Products]
  /\ shared.count \in 0..Products /\ shared.reads \in 0..Products
  /\ shared.value \in 0..Products

(* However the two race, what the consumer reads in a place is empty or a  *)
(* product made for that place, and a place never shows an older product   *)
(* again: the consumer can miss products and read one many times, but the  *)
(* products it sees in a place are in the order they were made.            *)
PlacesNeverGoBack ==
  \A i, j \in DOMAIN output : i < j /\ IndexAfter(i) = IndexAfter(j) =>
    /\ output[i].says <= output[j].says
    /\ output[i].says > 0 => IndexAfter(output[i].says) = IndexAfter(i)

(* The buffer is not freed under a running thread, as long as both threads *)
(* could be created.                                                       *)
MemoryOutlivesThreads ==
  main.at = "freed" /\ ~main.error => \A t \in Threads : at[t] \in {"unborn", "done"}

(* "El problema se resuelve cuando el consumidor procesa todos los         *)
(* productos y en el mismo orden en que el productor los genera"           *)
(* (README.md:6).  The code breaks it: nothing makes the consumer wait.    *)
ConsumesInOrder == \A i \in DOMAIN output : output[i].says = i
=============================================================================
