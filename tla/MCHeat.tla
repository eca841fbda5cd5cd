-------------------------------- MODULE MCHeat --------------------------------
(***************************************************************************)
(* The heat simulations with threads on a small plate: the OpenMP          *)
(* simulation with two threads and, when it has returned, the pthread      *)
(* simulation, and what the serial simulation returns.  The simulations    *)
(* share no state; one after the other, they are checked without the       *)
(* product of their states.                                                *)
(***************************************************************************)
EXTENDS HeatOmp, HeatPthread, MCPlate

CONSTANTS t1, t2

MCTeam == {t1, t2}

HeatInit == Init /\ PthreadInit

HeatNext == \/ Next /\ UNCHANGED pthreadVars
            \/ phase = "returned" /\ PthreadNext /\ UNCHANGED vars

HeatSpec == HeatInit /\ [][HeatNext]_<<vars, pthreadVars>>

RECURSIVE SerialResult(_, _)
SerialResult(p, k) ==
  LET next == [c \in Cells |-> IF c \in Inner THEN Heated(p, c) ELSE p[c]]
  IN  IF \A c \in Inner : Change(next[c], p[c]) <= Epsilon
      THEN [plate |-> p, states |-> k + 1]
      ELSE SerialResult(next, k + 1)

(* The concurrent program "recibe los mismos datos que la versión serial y *)
(* produce los mismos resultados" (heatsim-pthread/README.md:33): what it  *)
(* returns is what the serial program returns for one of the plates.       *)
ProducesSerialResults ==
  mainAt = "returned" =>
    [plate |-> globalMatrix, states |-> totalStatesK]
      \in {SerialResult(p, 0) : p \in InitialPlates}
===============================================================================
