----------------------------- MODULE HeatPthread -----------------------------
(***************************************************************************)
(* heat_transfer_simulation of homeworks/heatsim-pthread.  In every state  *)
(* the main thread gives each thread a copy of the plate and a block of    *)
(* rows, joins all of them, and gathers their rows in a new plate.  A      *)
(* thread updates its copy in place.  One action is one cell of a thread,  *)
(* or what the main thread does while the others do not run.  With a       *)
(* single thread the main thread computes the rows itself.                 *)
(***************************************************************************)
EXTENDS Plate

CONSTANT ThreadCounts   \* the values of the argument num_threads

ASSUME ThreadCountsAssumption == ThreadCounts \subseteq Nat \ {0}

VARIABLES numThreads,          \* num_threads
          globalMatrix,        \* shared.global_matrix: the argument and the result
          local,               \* local[t]: thread_args[t].local_matrix
          newMatrix,           \* new_matrix
          totalStatesK,        \* total_states_k
          sharedBalancePoint,  \* shared.balance_point
          mainAt,              \* where the main thread is
          computedCells        \* the inner cells computed by the threads

pthreadVars == <<numThreads, globalMatrix, local, newMatrix, totalStatesK,
                 sharedBalancePoint, mainAt, computedCells>>

RowsPerThread(n) == (Rows - 2) \div n
StartRow(t, n) == 1 + t * RowsPerThread(n)
EndRowByDivision(t, n) == StartRow(t, n) + RowsPerThread(n)   \* faulty
EndRow(t, n) == IF t = n - 1 THEN Rows - 1 ELSE StartRow(t, n) + RowsPerThread(n)
RowsOf(t, n) == StartRow(t, n)..EndRow(t, n) - 1

Threads == 0..numThreads - 1

PthreadInit ==
  /\ numThreads \in ThreadCounts
  /\ globalMatrix \in InitialPlates
  /\ local = [t \in Threads |-> globalMatrix]
  /\ newMatrix = globalMatrix
  /\ totalStatesK = 0
  /\ sharedBalancePoint = FALSE
  /\ mainAt = "testing"
  /\ computedCells = {}

-----------------------------------------------------------------------------
(* Faulty variants of the operations below, one mistake each.  No          *)
(* specification uses them: each shows that a property notices it.         *)

(* The rows of a thread are copied from the row above its block.           *)
GatherRowAbove ==
  [c \in Cells |->
    LET sources == {t \in Threads :
                      c[1] \in RowsOf(t, numThreads) \cup {StartRow(t, numThreads) - 1}}
    IN  IF sources = {} THEN newMatrix[c]
        ELSE local[CHOOSE t \in sources : \A u \in sources : u <= t][c]]

-----------------------------------------------------------------------------
StartIteration ==
  /\ mainAt = "testing" /\ ~sharedBalancePoint
  /\ mainAt' = "computing"
  /\ sharedBalancePoint' = TRUE
  /\ local' = [t \in Threads |-> globalMatrix]
  /\ computedCells' = {}
  /\ UNCHANGED <<numThreads, globalMatrix, newMatrix, totalStatesK>>

(* heat_transfer_simulation_thread: the next cell of the thread's rows,    *)
(* in the order of its loops.                                              *)
ThreadComputesCell(t, c) ==
  /\ mainAt = "computing"
  /\ c[1] \in RowsOf(t, numThreads) /\ c \notin computedCells
  /\ \A d \in Inner : d[1] \in RowsOf(t, numThreads) /\ Earlier(d, c) => d \in computedCells
  /\ local' = [local EXCEPT ![t][c] = Heated(local[t], c)]
  /\ computedCells' = computedCells \cup {c}
  /\ UNCHANGED <<numThreads, globalMatrix, newMatrix, totalStatesK,
                 sharedBalancePoint, mainAt>>

(* The rows of the threads, copied to new_matrix.  The border has the      *)
(* values it had at the start; with one thread the whole copy is taken.    *)
Gathered ==
  IF numThreads = 1
  THEN local[0]
  ELSE [c \in Cells |->
          IF \E t \in Threads : c[1] \in RowsOf(t, numThreads)
          THEN local[CHOOSE t \in Threads : c[1] \in RowsOf(t, numThreads)][c]
          ELSE newMatrix[c]]

(* All threads are joined, and the main thread compares the two plates.    *)
EndIteration ==
  /\ mainAt = "computing"
  /\ \A t \in Threads : \A c \in Inner : c[1] \in RowsOf(t, numThreads) => c \in computedCells
  /\ mainAt' = "testing"
  /\ newMatrix' = Gathered
  /\ sharedBalancePoint' =
       (\A c \in Inner : ~(Change(newMatrix'[c], globalMatrix[c]) >= Epsilon))
  /\ globalMatrix' = newMatrix'
  /\ totalStatesK' = totalStatesK + 1
  /\ UNCHANGED <<numThreads, local, computedCells>>

PthreadReturn ==
  /\ mainAt = "testing" /\ sharedBalancePoint
  /\ mainAt' = "returned"
  /\ UNCHANGED <<numThreads, globalMatrix, local, newMatrix, totalStatesK,
                 sharedBalancePoint, computedCells>>

PthreadNext ==
  \/ StartIteration
  \/ \E t \in Threads, c \in Inner : ThreadComputesCell(t, c)
  \/ EndIteration
  \/ PthreadReturn

PthreadSpec == PthreadInit /\ [][PthreadNext]_pthreadVars

-----------------------------------------------------------------------------
PthreadTypeOK ==
  /\ numThreads \in ThreadCounts
  /\ globalMatrix \in Plates /\ newMatrix \in Plates
  /\ local \in [Threads -> Plates]
  /\ totalStatesK \in Nat
  /\ sharedBalancePoint \in BOOLEAN
  /\ mainAt \in {"testing", "computing", "returned"}
  /\ computedCells \subseteq Inner
  /\ totalStatesK > 0 /\ mainAt # "computing" => computedCells = Inner

(* Every inner row is in the block of one thread, whatever the numbers of  *)
(* rows and threads: no row is left out and none is computed twice.        *)
EachRowOnce ==
  \A i \in InnerRows :
    \E t \in Threads : \A u \in Threads : i \in RowsOf(u, numThreads) <=> u = t

(* The first row of a block of n threads.                                  *)
StartsBlock(i, n) == \E t \in 0..n - 1 : i = StartRow(t, n) /\ i \in RowsOf(t, n)

(* The plate after p when n threads update their blocks in place: a cell   *)
(* sees the new temperature on its left, and above it within its block.    *)
Sweep(p, n) ==
  LET new[c \in Cells] ==
        IF c \notin Inner THEN p[c]
        ELSE NewTemperature(p[c],
                            IF StartsBlock(c[1], n) THEN p[Up(c)] ELSE new[Up(c)],
                            p[Down(c)], new[LeftOf(c)], p[RightOf(c)])
  IN  new

(* A state depends on the number of threads and on nothing else: not on    *)
(* how their steps interleave, nor on the plates of earlier states.  The   *)
(* border keeps its temperatures, and the simulation goes on exactly when  *)
(* some cell changed by epsilon or more.                                   *)
StatesAreSweeps ==
  [][/\ totalStatesK' # totalStatesK =>
          /\ totalStatesK' = totalStatesK + 1
          /\ globalMatrix' = Sweep(globalMatrix, numThreads)
          /\ sharedBalancePoint' =
                (\A c \in Inner : Change(globalMatrix'[c], globalMatrix[c]) < Epsilon)
     /\ totalStatesK' = totalStatesK => globalMatrix' = globalMatrix]_pthreadVars
=============================================================================
