-------------------------------- MODULE HeatOmp --------------------------------
(***************************************************************************)
(* heat_transfer_simulation of homeworks/heatsim-omp_mpi/omp: the loop     *)
(* over the rows of HeatSerial is shared by a team of threads.  One action *)
(* is one cell of one thread; the threads read a matrix nobody writes, and *)
(* write cells of their own rows and, atomically, the point of balance.    *)
(***************************************************************************)
EXTENDS Plate

CONSTANT Team   \* the team, omp_set_num_threads

VARIABLES rowOwner,      \* schedule(static): the thread that computes each row
          matrix,        \* the argument, and the result at the end
          plates,        \* matrix_a and matrix_b
          statesK,       \* states_k
          balancePoint,  \* balance_point
          phase,         \* where the function is
          computed,      \* the inner cells computed in this iteration
          untouched      \* plates before this iteration, for the refinement

vars == <<rowOwner, matrix, plates, statesK, balancePoint, phase, computed, untouched>>

CurrentMatrix(k) == IF k % 2 = 1 THEN "a" ELSE "b"
NextMatrixIsCurrent(k) == CurrentMatrix(k)   \* faulty: they compute in place
NextMatrix(k) == IF k % 2 = 1 THEN "b" ELSE "a"
ResultMatrix(k) == IF k % 2 = 1 THEN "b" ELSE "a"

Init == /\ rowOwner \in [InnerRows -> Team]
        /\ matrix \in InitialPlates
        /\ plates = [x \in {"a", "b"} |-> matrix]
        /\ statesK = 0
        /\ balancePoint = FALSE
        /\ phase = "testing"
        /\ computed = {}
        /\ untouched = plates

-----------------------------------------------------------------------------
(* Faulty variants of the operations below, one mistake each.  No          *)
(* specification uses them: each shows that a property notices it.         *)

(* The threads do not wait for each other at the end of the loop.          *)
EndLoopWithoutBarrier ==
  /\ phase = "computing" /\ computed # {}
  /\ phase' = "testing"
  /\ statesK' = statesK + 1
  /\ untouched' = plates
  /\ UNCHANGED <<rowOwner, matrix, plates, balancePoint, computed>>

(* The point of balance is what the last cell says.                        *)
SettlesAlone(c) ==
  Change(plates[CurrentMatrix(statesK)][c], Heated(plates[CurrentMatrix(statesK)], c)) <= Epsilon

-----------------------------------------------------------------------------
StartLoop ==
  /\ phase = "testing" /\ ~balancePoint
  /\ phase' = "computing"
  /\ balancePoint' = TRUE
  /\ computed' = {}
  /\ UNCHANGED <<rowOwner, matrix, plates, statesK, untouched>>

(* The thread of the row computes its cells in the order of its loops.     *)
Turn(c) == \A d \in Inner : rowOwner[d[1]] = rowOwner[c[1]] /\ Earlier(d, c) => d \in computed

Settles(c) ==
  /\ balancePoint
  /\ Change(plates[CurrentMatrix(statesK)][c], Heated(plates[CurrentMatrix(statesK)], c)) <= Epsilon

ComputeCell(c) ==
  /\ phase = "computing" /\ c \notin computed /\ Turn(c)
  /\ plates' = [plates EXCEPT ![NextMatrix(statesK)][c] =
                  Heated(plates[CurrentMatrix(statesK)], c)]
  /\ balancePoint' = Settles(c)
  /\ computed' = computed \cup {c}
  /\ UNCHANGED <<rowOwner, matrix, statesK, phase, untouched>>

(* The barrier at the end of the parallel loop.                            *)
EndLoop ==
  /\ phase = "computing" /\ computed = Inner
  /\ phase' = "testing"
  /\ statesK' = statesK + 1
  /\ untouched' = plates
  /\ UNCHANGED <<rowOwner, matrix, plates, balancePoint, computed>>

Return ==
  /\ phase = "testing" /\ balancePoint
  /\ phase' = "returned"
  /\ matrix' = plates[ResultMatrix(statesK)]
  /\ UNCHANGED <<rowOwner, plates, statesK, balancePoint, computed, untouched>>

Next == StartLoop \/ (\E c \in Inner : ComputeCell(c)) \/ EndLoop \/ Return

Spec == Init /\ [][Next]_vars

-----------------------------------------------------------------------------
TypeOK ==
  /\ rowOwner \in [InnerRows -> Team]
  /\ matrix \in Plates
  /\ plates \in [{"a", "b"} -> Plates] /\ untouched \in [{"a", "b"} -> Plates]
  /\ statesK \in Nat
  /\ balancePoint \in BOOLEAN
  /\ phase \in {"testing", "computing", "returned"}
  /\ computed \subseteq Inner
  /\ statesK > 0 /\ phase # "computing" => computed = Inner

(* What is returned has settled: its next state differs from it by at most *)
(* epsilon in every cell.  (It is the state before the last one computed.) *)
ResultSettled ==
  phase = "returned" =>
    \A c \in Inner : Change(matrix[c], Heated(matrix, c)) <= Epsilon

(* The team computes what the serial program computes, for every division  *)
(* of the rows and every interleaving.                                     *)
Serial == INSTANCE HeatSerial WITH
  plates <- untouched,
  balancePoint <- phase # "computing" /\ balancePoint,
  returned <- phase = "returned"
ImplementsSerial == Serial!Spec
==============================================================================
