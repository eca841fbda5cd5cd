-------------------------------- MODULE Plate --------------------------------
(***************************************************************************)
(* The plate of the heat simulations (under homeworks): a matrix of        *)
(* temperatures whose border is heated from outside and whose inner cells  *)
(* take a new temperature from their four neighbours in every state.  The  *)
(* arithmetic on doubles is a parameter: what the versions of the          *)
(* simulation differ in is which values of the neighbours they use.        *)
(***************************************************************************)
EXTENDS Integers

CONSTANTS Rows, Columns,               \* the size read from the plate's file
          Temperature,                 \* the values of a cell
          NewTemperature(_, _, _, _, _), \* of a cell, up, down, left and right
          Change(_, _),                \* fabs of the difference of two values
          Epsilon,                     \* the point of balance
          InitialPlates                \* the plates that can be in the file

Cells == (0..Rows - 1) \X (0..Columns - 1)
InnerRows == 1..Rows - 2
Inner == InnerRows \X (1..Columns - 2)
Plates == [Cells -> Temperature]

(* A plate has at least the two rows of its border: rows - 2 is unsigned   *)
(* in the code.                                                            *)
ASSUME SizeAssumption == Rows \in Nat /\ Rows > 1 /\ Columns \in Nat /\ Columns > 1
ASSUME TemperatureAssumption ==
  /\ \A c, u, d, l, r \in Temperature : NewTemperature(c, u, d, l, r) \in Temperature
  /\ \A x, y \in Temperature : Change(x, y) \in Int
  /\ Epsilon \in Int
  /\ InitialPlates \subseteq Plates

Up(c) == <<c[1] - 1, c[2]>>
Down(c) == <<c[1] + 1, c[2]>>
LeftOf(c) == <<c[1], c[2] - 1>>
RightOf(c) == <<c[1], c[2] + 1>>

(* The new temperature of an inner cell, all neighbours taken from p.      *)
Heated(p, c) ==
  NewTemperature(p[c], p[Up(c)], p[Down(c)], p[LeftOf(c)], p[RightOf(c)])

(* The order of the nested loops over rows and columns.                    *)
Earlier(d, c) == d[1] < c[1] \/ (d[1] = c[1] /\ d[2] < c[2])
==============================================================================
