------------------------------- MODULE MCPlate -------------------------------
(* A small plate with temperatures rounded down to integers.               *)
EXTENDS Plate

(* The scheme of finite differences with the coefficient 1/4.              *)
MCTemperature == 0..12
MCNewTemperature(c, u, d, l, r) == c + ((u + d + l + r - 4 * c) \div 4)
MCChange(x, y) == IF x > y THEN x - y ELSE y - x

(* A cold plate with a hot edge, and a hot one with a cold border.         *)
MCInitialPlates ==
  {[c \in Cells |-> IF c[1] = 0 THEN 12 ELSE 0],
   [c \in Cells |-> IF c \in Inner THEN 12 ELSE IF c[2] = 0 THEN 6 ELSE 1]}
==============================================================================
