------------------------------ MODULE HeatSerial ------------------------------
(***************************************************************************)
(* heat_transfer_simulation of homeworks/heatsim-serial: what a heat       *)
(* simulation promises.  Two matrices take turns; one action is one round  *)
(* of the outer loop.                                                      *)
(***************************************************************************)
EXTENDS Plate

VARIABLES matrix,        \* the argument, and the result at the end
          plates,        \* matrix_a and matrix_b
          statesK,       \* states_k
          balancePoint,  \* balance_point
          returned       \* the function has returned

vars == <<matrix, plates, statesK, balancePoint, returned>>

CurrentMatrix(k) == IF k % 2 = 1 THEN "a" ELSE "b"
NextMatrix(k) == IF k % 2 = 1 THEN "b" ELSE "a"
ResultMatrix(k) == IF k % 2 = 1 THEN "b" ELSE "a"

Init == /\ matrix \in InitialPlates
        /\ plates = [x \in {"a", "b"} |-> matrix]
        /\ statesK = 0
        /\ balancePoint = FALSE
        /\ returned = FALSE

Iterate ==
  /\ ~returned /\ ~balancePoint
  /\ LET current == plates[CurrentMatrix(statesK)]
     IN  /\ plates' = [plates EXCEPT ![NextMatrix(statesK)] =
                         [c \in Cells |-> IF c \in Inner THEN Heated(current, c) ELSE @[c]]]
         /\ balancePoint' = (\A c \in Inner : Change(current[c], Heated(current, c)) <= Epsilon)
  /\ statesK' = statesK + 1
  /\ UNCHANGED <<matrix, returned>>

Return ==
  /\ ~returned /\ balancePoint
  /\ matrix' = plates[ResultMatrix(statesK)]
  /\ returned' = TRUE
  /\ UNCHANGED <<plates, statesK, balancePoint>>

Next == Iterate \/ Return

Spec == Init /\ [][Next]_vars
==============================================================================
