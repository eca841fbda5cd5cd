----------------------------- MODULE MpiCollectives -----------------------------
(***************************************************************************)
(* The MPI programs that are made of collective calls, or of none: the     *)
(* statistics of lucky numbers, known to all processes or to process 0     *)
(* only, and the division of a range of work among processes and their     *)
(* OpenMP threads.  Averages are compared without division.                *)
(***************************************************************************)
EXTENDS MpiProcesses

CONSTANTS CountsOf,   \* CountsOf[program]: with how many processes it is started
          Draws,      \* the lucky numbers
          Ranges,     \* the pairs <<start, finish>> of the arguments
          ThreadCount \* omp_get_num_threads()

Lucky == {"lucky_number_who", "lucky_number_reduce"}
Hybrid == {"hybrid_distr_arg", "hybrid_distr_bcast"}
Programs == Lucky \cup Hybrid

Init ==
  /\ program \in Programs
  /\ input \in [proper : BOOLEAN, range : Ranges]
  /\ program \in Lucky => input = [proper |-> TRUE, range |-> CHOOSE r \in Ranges : TRUE]
  /\ \E count \in CountsOf[program] : Starts(count)

-----------------------------------------------------------------------------
(* The lucky numbers: a process draws its own, then takes part in the      *)
(* reductions for the minimum, the maximum and the sum, one after another. *)
Draw(p, unknown) ==
  /\ Goes(p, "start", "min") /\ Quietly /\ Computes
  /\ \E number \in Draws :
       Keep(p, [number |-> number, all_min |-> unknown, all_max |-> unknown,
                all_sum |-> unknown, tells |-> {}])

Given(p) == {FromAll(p)[q] : q \in Processes}
Number(p) == local[p].number

(* The next reduction, with what the last one gave.                        *)
Reduction(p, from, to, data, call) ==
  Goes(p, from, to) /\ Keep(p, data) /\ call /\ Quietly

(* What a process tells of its number, the average being sum / Count.      *)
Statements(number, min, max, sum) ==
  (IF number = min THEN {"minimum"} ELSE {}) \cup (IF number = max THEN {"maximum"} ELSE {})
    \cup (IF number * Count < sum THEN {"less"}
          ELSE IF number * Count > sum THEN {"greater"} ELSE {"equal"})

LuckyWho(p) ==
  \/ Draw(p, -1)
  \/ Reduction(p, "min", "max", local[p], ReducesToAll(p, Number(p)))
  \/ Reduction(p, "max", "sum", [local[p] EXCEPT !.all_min = Min(Given(p))],
           ReducesToAll(p, Number(p)))
  \/ Reduction(p, "sum", "tell", [local[p] EXCEPT !.all_max = Max(Given(p))],
           ReducesToAll(p, Number(p)))
  \/ LET sum == SumFunction(FromAll(p)) IN
     Reduction(p, "tell", "ended",
           [local[p] EXCEPT !.all_sum = sum,
              !.tells = Statements(Number(p), local[p].all_min, local[p].all_max, sum)],
           Computes)

(* Only process 0 gets the results and tells them.                         *)
LuckyReduce(p) ==
  LET AtRoot(value) == IF p = 0 THEN value ELSE 0 IN
  \/ Draw(p, 0)
  \/ Reduction(p, "min", "max", local[p], Reduces(p, Number(p)))
  \/ Reduction(p, "max", "sum", [local[p] EXCEPT !.all_min = AtRoot(Min(Given(p)))],
           Reduces(p, Number(p)))
  \/ Reduction(p, "sum", "tell", [local[p] EXCEPT !.all_max = AtRoot(Max(Given(p)))],
           Reduces(p, Number(p)))
  \/ Reduction(p, "tell", "ended", [local[p] EXCEPT !.all_sum = AtRoot(SumFunction(FromAll(p)))],
           Computes)

-----------------------------------------------------------------------------
(* A faulty variant, used by no specification: the rest of the division is *)
(* not given to anybody.                                                   *)
StartWithoutRest(rank, end, workers, begin) == rank * ((end - begin) \div workers)

(* The part of a range that worker rank of workers is given.  As in the    *)
(* code, begin is taken off the range and not added to its parts.          *)
calculate_start(rank, end, workers, begin) ==
  rank * ((end - begin) \div workers) + Min({rank, (end - begin) % workers})
calculate_finish(rank, end, workers, begin) ==
  calculate_start(rank + 1, end, workers, begin)

PartOf(p, end, begin) ==
  [start |-> calculate_start(p, end, Count, begin),
   finish |-> calculate_finish(p, end, Count, begin), told |-> {}]

(* A thread of p tells its part of p's range, one thread at a time.        *)
TellsPart(p, t) ==
  LET size == local[p].finish - local[p].start
      part == <<local[p].start + calculate_start(t, size, ThreadCount, 0),
                local[p].start + calculate_finish(t, size, ThreadCount, 0)>> IN
  /\ Goes(p, "threads", "threads") /\ \A told \in local[p].told : told.thread # t
  /\ Keep(p, [local[p] EXCEPT !.told = @ \cup {[thread |-> t, range |-> part]}])
  /\ Quietly /\ Computes

AllTold(p) ==
  /\ Goes(p, "threads", "ended") /\ Cardinality(local[p].told) = ThreadCount
  /\ UNCHANGED local /\ Quietly /\ Computes

ThreadsTell(p) == AllTold(p) \/ \E t \in 0..ThreadCount - 1 : TellsPart(p, t)

HybridArg(p) ==
  \/ /\ Goes(p, "start", "threads") /\ input.proper
     /\ Keep(p, PartOf(p, input.range[2], input.range[1])) /\ Quietly /\ Computes
  \/ /\ Goes(p, "start", "ended") /\ ~input.proper
     /\ UNCHANGED local /\ Quietly /\ Computes
  \/ ThreadsTell(p)

(* Process 0 alone knows the arguments; without them it aborts them all.   *)
HybridBcast(p) ==
  \/ p = 0 /\ at[p] = "start" /\ ~input.proper /\ AbortAll(p)
  \/ /\ Goes(p, "start", "finish") /\ (p = 0 => input.proper)
     /\ Keep(p, [overall_start |-> 0]) /\ Broadcasts(p, input.range[1]) /\ Quietly
  \/ /\ Goes(p, "finish", "divide")
     /\ Keep(p, [overall_start |-> FromRoot(p)]) /\ Broadcasts(p, input.range[2]) /\ Quietly
  \/ LET begin == local[p].overall_start
         starts == [q \in Processes |-> calculate_start(q, FromRoot(p), Count, begin)] IN
     /\ Goes(p, "divide", "part") /\ Scatters(p, starts) /\ Quietly
     /\ Keep(p, [overall_start |-> begin, overall_finish |-> FromRoot(p)])
  \/ LET finishes == [q \in Processes |-> calculate_finish(q, local[p].overall_finish, Count,
                                                           local[p].overall_start)] IN
     /\ Goes(p, "part", "parts") /\ Scatters(p, finishes) /\ Quietly
     /\ Keep(p, [start |-> FromRoot(p)[p]])
  \/ /\ Goes(p, "parts", "threads") /\ Quietly /\ Computes
     /\ Keep(p, [start |-> local[p].start, finish |-> FromRoot(p)[p], told |-> {}])
  \/ ThreadsTell(p)

-----------------------------------------------------------------------------
ProcessStep(p) ==
  \/ program = "lucky_number_who" /\ LuckyWho(p)
  \/ program = "lucky_number_reduce" /\ LuckyReduce(p)
  \/ program = "hybrid_distr_arg" /\ HybridArg(p)
  \/ program = "hybrid_distr_bcast" /\ HybridBcast(p)

Next == \E p \in Processes : Step(ProcessStep(p))
Spec == Init /\ [][Next]_vars /\ \A p \in Ranks : WF_vars(p \in Processes /\ Step(ProcessStep(p)))

-----------------------------------------------------------------------------
AllEnded == \A p \in Processes : Ended(p)

(* The variables keep their types.                                         *)
TypeOK ==
  /\ program \in Programs
  /\ CommonTypes({"min", "max", "sum", "tell", "finish", "divide", "part", "parts", "threads"})
  /\ program \in Lucky =>
       \A p \in Processes : at[p] # "start" =>
         local[p].number \in Draws /\ local[p].tells \subseteq
           {"minimum", "maximum", "less", "equal", "greater"}

(* The statistics are those of all numbers: somebody has the minimum and   *)
(* is not above the average, somebody the maximum, and nobody is told to   *)
(* be the extreme who is not; process 0 learns them in the other program.  *)
StatisticsRight ==
  program \in Lucky /\ AllEnded =>
    LET numbers == [p \in Processes |-> Number(p)]
        least == Min(Range(numbers))  greatest == Max(Range(numbers))
        Tell(what) == {p \in Processes : what \in local[p].tells} IN
    /\ local[0].all_min = least /\ local[0].all_max = greatest
    /\ local[0].all_sum = SumFunction(numbers)
    /\ program = "lucky_number_who" =>
         /\ Tell("minimum") = {p \in Processes : Number(p) = least}
         /\ Tell("maximum") = {p \in Processes : Number(p) = greatest}
         /\ Tell("less") = {} <=> least = greatest
         /\ Tell("minimum") \cap Tell("greater") = {}

(* Every part begins where the one before ends, their sizes differ by one  *)
(* at most, and together they have as many numbers as the range; and the   *)
(* parts of the threads divide the part of their process.  Where the first *)
(* part begins is said by PartsOfTheRange.                                 *)
PartsCoverRange ==
  LET Size(p) == local[p].finish - local[p].start
      Known(p) == at[p] = "threads" \/ (at[p] = "ended" /\ input.proper)
      RangeOf(p, t) == (CHOOSE told \in local[p].told : told.thread = t).range IN
  /\ program \in Hybrid /\ (\A p \in Processes : Known(p)) =>
       /\ local[Count - 1].finish - local[0].start = input.range[2] - input.range[1]
       /\ \A p \in Processes \ {0} : local[p].start = local[p - 1].finish
       /\ \A p, q \in Processes : Size(p) <= Size(q) + 1
  /\ program \in Hybrid => \A p \in Processes : Known(p) /\ at[p] = "ended" =>
       /\ RangeOf(p, 0)[1] = local[p].start
       /\ RangeOf(p, ThreadCount - 1)[2] = local[p].finish
       /\ \A t \in 1..ThreadCount - 1 : RangeOf(p, t)[1] = RangeOf(p, t - 1)[2]

(* What is promised of the parts: that they are those of the range, which  *)
(* begins at the first argument.                                           *)
PartsOfTheRange ==
  program \in Hybrid /\ input.proper /\ AllEnded =>
    local[0].start = input.range[1] /\ local[Count - 1].finish = input.range[2]
=============================================================================
