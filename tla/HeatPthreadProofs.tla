--------------------------- MODULE HeatPthreadProofs ---------------------------
(***************************************************************************)
(* For any number of rows and of threads, the blocks of heatsim-pthread    *)
(* divide the inner rows; and each state of the plate follows from the     *)
(* last, however the threads of the simulation interleave.                 *)
(***************************************************************************)
EXTENDS HeatPthread, TLAPS, WellFoundedInduction

(* A product grows with its factors.                                       *)
LEMMA ProductIsMonotone ==
  ASSUME NEW a \in Int, NEW b \in Int, NEW q \in Nat, a <= b
  PROVE  a * q <= b * q
<1>1. PICK d \in Nat : b = a + d
  BY b - a \in Nat, b = a + (b - a)
<1>2. b * q = a * q + d * q /\ d * q >= 0
  BY <1>1
<1> QED
  BY <1>2

(* What integer division of naturals is.                                   *)
LEMMA Division ==
  ASSUME NEW m \in Nat, NEW d \in Nat \ {0}
  PROVE  /\ m \div d \in Nat
         /\ (m \div d) * d <= m
         /\ m < (m \div d + 1) * d
BY Z3

(* One thread, and no other, has each inner row.                           *)
LEMMA BlocksDivideRows ==
  ASSUME NEW n \in Nat \ {0}, NEW i \in InnerRows
  PROVE  \E t \in 0..n - 1 : \A u \in 0..n - 1 : i \in RowsOf(u, n) <=> u = t
<1> DEFINE q == RowsPerThread(n)
<1>1. /\ Rows - 2 \in Nat /\ i \in Nat /\ i >= 1 /\ i <= Rows - 2
  BY SizeAssumption DEF InnerRows
<1>2. q \in Nat /\ q * n <= Rows - 2
  BY <1>1, Division DEF RowsPerThread
<1>3. \A u \in 0..n - 1 :
        i \in RowsOf(u, n) <=> 1 + u * q <= i /\ (u = n - 1 \/ i < 1 + u * q + q)
  <2> SUFFICES ASSUME NEW u \in 0..n - 1
               PROVE  i \in RowsOf(u, n) <=> 1 + u * q <= i /\ (u = n - 1 \/ i < 1 + u * q + q)
    OBVIOUS
  <2>1. u * q \in Int
    BY <1>2
  <2>2. StartRow(u, n) = 1 + u * q
    BY DEF StartRow
  <2>3. EndRow(u, n) = IF u = n - 1 THEN Rows - 1 ELSE 1 + u * q + q
    BY <2>2 DEF EndRow
  <2> HIDE DEF q
  <2> QED
    <3> DEFINE x == u * q
    <3>1. x \in Int /\ RowsOf(u, n) = 1 + x..(IF u = n - 1 THEN Rows - 1 ELSE 1 + x + q) - 1
      BY <2>1, <2>2, <2>3 DEF RowsOf
    <3> HIDE DEF x
    <3>2. ASSUME u = n - 1
          PROVE  i \in RowsOf(u, n) <=> 1 + x <= i /\ (u = n - 1 \/ i < 1 + x + q)
      <4>0. (Rows - 1) - 1 = Rows - 2
        BY <1>1, SizeAssumption
      <4>1. RowsOf(u, n) = 1 + x..Rows - 2
        BY <3>1, <3>2, <4>0, Zenon
      <4> QED
        BY <1>1, SizeAssumption, <3>1, <3>2, <4>1, SMT
    <3>3. ASSUME u # n - 1
          PROVE  i \in RowsOf(u, n) <=> 1 + x <= i /\ (u = n - 1 \/ i < 1 + x + q)
      <4>1. RowsOf(u, n) = 1 + x..x + q
        BY <1>2, <3>1, <3>3
      <4> QED
        BY <1>1, <1>2, <3>1, <3>3, <4>1
    <3>4. i \in RowsOf(u, n) <=> 1 + x <= i /\ (u = n - 1 \/ i < 1 + x + q)
      BY <3>2, <3>3
    <3> QED
      BY <3>4 DEF x
<1> HIDE DEF q
<1>4. CASE 1 + (n - 1) * q <= i
  <2>1. \A u \in 0..n - 1 : u # n - 1 => ~(i < 1 + u * q + q)
    <3> SUFFICES ASSUME NEW u \in 0..n - 1, u # n - 1 PROVE 1 + u * q + q <= i
      BY <1>1, <1>2
    <3>1. (u + 1) * q <= (n - 1) * q
      BY <1>2, ProductIsMonotone
    <3>2. (u + 1) * q = u * q + q
      BY <1>2
    <3> QED
      BY <1>1, <1>2, <1>4, <3>1, <3>2
  <2>2. n - 1 \in 0..n - 1
    OBVIOUS
  <2> QED
    BY <1>3, <1>4, <2>1, <2>2
<1>5. CASE ~(1 + (n - 1) * q <= i)
  <2>1. q \in Nat \ {0}
    <3>1. q = 0 => (n - 1) * q = 0
      BY SMT
    <3> QED
      BY <1>1, <1>2, <1>5, <3>1
  <2> DEFINE t == (i - 1) \div q
  <2>2. t \in Nat /\ t * q <= i - 1 /\ i - 1 < (t + 1) * q
    BY <1>1, <2>1, Division
  <2> HIDE DEF t
  <2>3. t < n - 1
    <3> SUFFICES ASSUME n - 1 <= t PROVE FALSE
      BY <2>2
    <3>1. (n - 1) * q <= t * q
      BY <1>2, <2>2, ProductIsMonotone
    <3> QED
      BY <1>1, <1>2, <1>5, <2>2, <3>1
  <2>4. ASSUME NEW u \in 0..n - 1 PROVE i \in RowsOf(u, n) <=> u = t
    <3>1. u < t => i >= 1 + u * q + q /\ u # n - 1
      <4> SUFFICES ASSUME u < t PROVE i >= 1 + u * q + q /\ u # n - 1
        OBVIOUS
      <4>1. (u + 1) * q <= t * q
        BY <1>2, <2>2, ProductIsMonotone
      <4>2. (u + 1) * q = u * q + q
        BY <1>2
      <4> QED
        BY <1>1, <1>2, <2>2, <2>3, <4>1, <4>2
    <3>2. u > t => i < 1 + u * q
      <4> SUFFICES ASSUME u > t PROVE i < 1 + u * q
        OBVIOUS
      <4>1. (t + 1) * q <= u * q
        BY <1>2, <2>2, ProductIsMonotone
      <4> QED
        BY <1>1, <1>2, <2>2, <4>1
    <3>3. u = t => 1 + u * q <= i /\ i < 1 + u * q + q
      <4>1. (t + 1) * q = t * q + q
        BY <1>2, <2>2
      <4> QED
        BY <1>1, <1>2, <2>2, <4>1
    <3>4. u * q \in Int /\ t \in Int /\ (u < t \/ u > t \/ u = t)
      BY <1>2, <2>2
    <3>5. CASE u < t
      BY <1>1, <1>2, <1>3, <3>1, <3>4, <3>5
    <3>6. CASE u > t
      BY <1>1, <1>2, <1>3, <2>2, <3>2, <3>4, <3>6
    <3>7. CASE u = t
      BY <1>1, <1>2, <1>3, <3>3, <3>4, <3>7
    <3> QED
      BY <3>4, <3>5, <3>6, <3>7
  <2>5. t \in 0..n - 1
    BY <2>2, <2>3
  <2> QED
    BY <2>4, <2>5
<1> QED
  BY <1>4, <1>5

(* A new temperature is a temperature.                                     *)
LEMMA HeatedIsTemperature ==
  ASSUME NEW p \in Plates, NEW c \in Inner
  PROVE  Heated(p, c) \in Temperature /\ c \in Cells
<1>1. /\ c \in Cells /\ Up(c) \in Cells /\ Down(c) \in Cells
      /\ LeftOf(c) \in Cells /\ RightOf(c) \in Cells
  BY SizeAssumption DEF Inner, InnerRows, Cells, Up, Down, LeftOf, RightOf
<1> QED
  BY <1>1, TemperatureAssumption DEF Plates, Heated

(* The types hold at first.                                                *)
LEMMA InitialTypes == PthreadInit => PthreadTypeOK
<1> SUFFICES ASSUME PthreadInit PROVE PthreadTypeOK
  OBVIOUS
<1>1. globalMatrix \in Plates /\ newMatrix = globalMatrix
  BY TemperatureAssumption DEF PthreadInit
<1>2. local \in [Threads -> Plates]
  BY <1>1 DEF PthreadInit
<1>3. totalStatesK \in Nat /\ ~(totalStatesK > 0) /\ computedCells \subseteq Inner
  BY DEF PthreadInit
<1>4. sharedBalancePoint \in BOOLEAN
  BY Zenon DEF PthreadInit
<1> QED
  BY <1>1, <1>2, <1>3, <1>4, Zenon DEF PthreadInit, PthreadTypeOK

(* The variables keep their types, and main joins the threads with all of  *)
(* the inner cells computed.                                               *)
THEOREM TypeCorrect == PthreadSpec => []PthreadTypeOK
<1>1. PthreadInit => PthreadTypeOK
  BY InitialTypes
<1>2. PthreadTypeOK /\ [PthreadNext]_pthreadVars => PthreadTypeOK'
  <2> SUFFICES ASSUME PthreadTypeOK, [PthreadNext]_pthreadVars PROVE PthreadTypeOK'
    OBVIOUS
  <2> USE DEF PthreadTypeOK
  <2>1. CASE StartIteration
    BY <2>1 DEF StartIteration, Threads
  <2>2. ASSUME NEW t \in Threads, NEW c \in Inner, ThreadComputesCell(t, c) PROVE PthreadTypeOK'
    <3>1. Heated(local[t], c) \in Temperature /\ c \in Cells
      BY HeatedIsTemperature
    <3>2. local' \in [Threads -> Plates]
      BY <2>2, <3>1 DEF ThreadComputesCell, Plates
    <3> QED
      BY <2>2, <3>2 DEF ThreadComputesCell, Threads
  <2>3. CASE EndIteration
    <3>1. Gathered \in Plates
      <4>1. CASE numThreads = 1
        BY <4>1 DEF Gathered, Threads
      <4>2. CASE numThreads # 1
        <5>1. ASSUME NEW c \in Cells, \E t \in Threads : c[1] \in RowsOf(t, numThreads)
              PROVE  (CHOOSE t \in Threads : c[1] \in RowsOf(t, numThreads)) \in Threads
          BY <5>1, Zenon
        <5> QED
          BY <4>2, <5>1 DEF Gathered, Plates
      <4> QED
        BY <4>1, <4>2
    <3>2. computedCells = Inner
      <4> SUFFICES ASSUME NEW c \in Inner PROVE c \in computedCells
        OBVIOUS
      <4>1. c[1] \in InnerRows
        BY DEF Inner
      <4>2. numThreads \in Nat \ {0}
        BY ThreadCountsAssumption
      <4>3. \E t \in Threads : c[1] \in RowsOf(t, numThreads)
        BY <4>1, <4>2, BlocksDivideRows DEF Threads
      <4> QED
        BY <2>3, <4>3 DEF EndIteration
    <3>3. sharedBalancePoint' \in BOOLEAN
      BY <2>3, Zenon DEF EndIteration
    <3>4. /\ newMatrix' \in Plates /\ globalMatrix' \in Plates
          /\ totalStatesK' \in Nat
          /\ mainAt' = "testing" /\ computedCells' = Inner
          /\ numThreads' = numThreads /\ local' = local
      BY <2>3, <3>1, <3>2 DEF EndIteration
    <3> QED
      BY <3>3, <3>4 DEF Threads
  <2>4. CASE PthreadReturn
    BY <2>4 DEF PthreadReturn, Threads
  <2>5. CASE UNCHANGED pthreadVars
    BY <2>5 DEF pthreadVars, Threads
  <2> QED
    BY <2>1, <2>2, <2>3, <2>4, <2>5 DEF PthreadNext
<1> QED
  BY <1>1, <1>2, PTL DEF PthreadSpec

(* No inner row is left out and none is computed by two threads.           *)
THEOREM RowsDivided == PthreadSpec => []EachRowOnce
<1>1. PthreadTypeOK => EachRowOnce
  BY BlocksDivideRows, ThreadCountsAssumption DEF PthreadTypeOK, EachRowOnce, Threads
<1> QED
  BY <1>1, TypeCorrect, PTL

-----------------------------------------------------------------------------
(* A set of numbers that has 0 and every number after one of its numbers   *)
(* has them all.                                                           *)
LEMMA Induction ==
  ASSUME NEW S, 0 \in S, \A n \in Nat : n \in S => n + 1 \in S
  PROVE  Nat \subseteq S
<1> DEFINE Less == OpToRel(<, Nat)
           Rest == Nat \ S
<1> SUFFICES ASSUME Rest # {} PROVE FALSE
  OBVIOUS
<1>1. PICK x \in Rest : \A y \in Rest : <<y, x>> \notin Less
  BY NatLessThanWellFounded, WFMin
<1>2. x \in Nat /\ x \notin S /\ x # 0
  BY <1>1
<1>3. x - 1 \in Nat /\ x - 1 + 1 = x /\ x - 1 < x
  BY <1>2
<1>4. x - 1 \in Rest
  BY <1>2, <1>3
<1>5. <<x - 1, x>> \in Less
  BY <1>2, <1>3 DEF OpToRel
<1> QED
  BY <1>1, <1>4, <1>5

(* new is the plate after p when n threads update their blocks in place.   *)
NextCell(p, n, new, c) ==
  IF c \notin Inner THEN p[c]
  ELSE NewTemperature(p[c],
                      IF StartsBlock(c[1], n) THEN p[Up(c)] ELSE new[Up(c)],
                      p[Down(c)], new[LeftOf(c)], p[RightOf(c)])
IsSweep(p, n, new) == new = [c \in Cells |-> NextCell(p, n, new, c)]

(* Where the neighbours of an inner cell are.                              *)
LEMMA Neighbours ==
  ASSUME NEW c \in Inner
  PROVE  /\ c \in Cells /\ c[1] \in InnerRows /\ c[1] \in Nat /\ c[2] \in Nat
         /\ Up(c) \in Cells /\ Up(c)[1] = c[1] - 1 /\ Up(c)[2] = c[2]
         /\ Down(c) \in Cells /\ Down(c)[1] = c[1] + 1 /\ Down(c)[2] = c[2]
         /\ LeftOf(c) \in Cells /\ LeftOf(c)[1] = c[1] /\ LeftOf(c)[2] = c[2] - 1
         /\ RightOf(c) \in Cells /\ RightOf(c)[1] = c[1] /\ RightOf(c)[2] = c[2] + 1
BY SizeAssumption DEF Inner, InnerRows, Cells, Up, Down, LeftOf, RightOf

(* There is at most one such plate: two of them agree on the cells of each *)
(* diagonal, as a cell depends on cells of the diagonal before its own.    *)
LEMMA OneSweep ==
  ASSUME NEW p, NEW n, NEW f, NEW g, IsSweep(p, n, f), IsSweep(p, n, g)
  PROVE  f = g
<1> DEFINE Same == {k \in Nat : \A c \in Cells : c[1] + c[2] < k => f[c] = g[c]}
<1>1. \A c \in Cells : f[c] = NextCell(p, n, f, c) /\ g[c] = NextCell(p, n, g, c)
  <2> HIDE DEF Same
  <2> QED
    BY DEF IsSweep
<1>2. \A c \in Cells : c[1] \in Nat /\ c[2] \in Nat
  BY SizeAssumption DEF Cells
<1>3. 0 \in Same
  BY <1>2
<1>4. ASSUME NEW k \in Nat, k \in Same PROVE k + 1 \in Same
  <2>1. ASSUME NEW c \in Cells, c[1] + c[2] < k + 1 PROVE f[c] = g[c]
    <3>1. CASE c \notin Inner
      BY <1>1, <3>1 DEF NextCell
    <3>2. CASE c \in Inner
      <4>1. f[Up(c)] = g[Up(c)] /\ f[LeftOf(c)] = g[LeftOf(c)]
        BY <1>4, <2>1, <3>2, Neighbours
      <4>2. NextCell(p, n, f, c) = NextCell(p, n, g, c)
        BY ONLY <4>1 DEF NextCell
      <4> QED
        BY ONLY <1>1, <4>2, <2>1
    <3> QED
      BY <3>1, <3>2
  <2> QED
    BY <1>4, <2>1
<1>5. Nat \subseteq Same
  <2> HIDE DEF Same
  <2> QED
    BY <1>3, <1>4, Induction
<1>6. ASSUME NEW c \in Cells PROVE f[c] = g[c]
  <2>1. c[1] + c[2] + 1 \in Nat /\ c[1] + c[2] < c[1] + c[2] + 1
    BY <1>2
  <2> QED
    BY <1>5, <2>1
<1>7. /\ f = [c \in Cells |-> f[c]]
      /\ g = [c \in Cells |-> g[c]]
  <2>1. f = [c \in Cells |-> NextCell(p, n, f, c)] /\ g = [c \in Cells |-> NextCell(p, n, g, c)]
    BY DEF IsSweep
  <2> HIDE DEF Same
  <2> QED
    BY ONLY <2>1
<1> HIDE DEF Same
<1> QED
  BY ONLY <1>6, <1>7

(* So a plate that is computed like that is the one Sweep defines.         *)
LEMMA SweepIs ==
  ASSUME NEW p, NEW n, NEW f, IsSweep(p, n, f)
  PROVE  f = Sweep(p, n)
<1>1. Sweep(p, n) = CHOOSE new : IsSweep(p, n, new)
  BY DEF Sweep, IsSweep, NextCell
<1>2. IsSweep(p, n, CHOOSE new : IsSweep(p, n, new))
  OBVIOUS
<1> QED
  BY <1>1, <1>2, OneSweep

(* While threads compute, the copy of a thread has the new temperatures of *)
(* those cells it has computed, which are the first ones of its rows, and  *)
(* is the plate elsewhere; the plate is the new one of the state before.   *)
Computed(t, c) == c \in computedCells /\ c[1] \in RowsOf(t, numThreads)
CopyOf(t, c) ==
  local[t][c] = IF Computed(t, c)
                THEN NewTemperature(globalMatrix[c], local[t][Up(c)], globalMatrix[Down(c)],
                                    local[t][LeftOf(c)], globalMatrix[RightOf(c)])
                ELSE globalMatrix[c]
CopiesInv == \A t \in Threads : \A c \in Cells : CopyOf(t, c)
OrderInv ==
  \A t \in Threads : \A c, d \in Inner :
    Computed(t, c) /\ d[1] \in RowsOf(t, numThreads) /\ Earlier(d, c) => Computed(t, d)
SweepInv ==
  /\ PthreadTypeOK /\ newMatrix = globalMatrix
  /\ mainAt = "computing" => CopiesInv /\ OrderInv

(* Each inner row has an owner, and only one.                              *)
LEMMA Owners ==
  ASSUME PthreadTypeOK, NEW c \in Inner
  PROVE  \E t \in Threads : /\ c[1] \in RowsOf(t, numThreads)
                            /\ \A u \in Threads : c[1] \in RowsOf(u, numThreads) => u = t
<1>1. numThreads \in Nat \ {0} /\ c[1] \in InnerRows
  BY ThreadCountsAssumption DEF PthreadTypeOK, Inner
<1> QED
  BY <1>1, BlocksDivideRows DEF Threads

(* The cells below and on the right of a cell, and whatever has this cell  *)
(* above it or on its left, come after it.                                 *)
LEMMA NeighboursOrder ==
  ASSUME NEW c \in Inner
  PROVE  /\ Earlier(c, Down(c)) /\ Earlier(c, RightOf(c)) /\ ~Earlier(c, c)
         /\ Down(c) # c /\ RightOf(c) # c /\ Up(c) # c /\ LeftOf(c) # c
         /\ \A d \in Inner : Up(d) = c \/ LeftOf(d) = c => Earlier(c, d)
<1>1. /\ c[1] \in Nat /\ c[2] \in Nat
      /\ Down(c)[1] = c[1] + 1 /\ RightOf(c)[1] = c[1] /\ RightOf(c)[2] = c[2] + 1
      /\ Up(c)[1] = c[1] - 1 /\ LeftOf(c)[1] = c[1] /\ LeftOf(c)[2] = c[2] - 1
  BY Neighbours
<1>2. ASSUME NEW d \in Inner, Up(d) = c \/ LeftOf(d) = c PROVE Earlier(c, d)
  <2>1. /\ d[1] \in Nat /\ d[2] \in Nat
        /\ Up(d)[1] = d[1] - 1 /\ LeftOf(d)[1] = d[1] /\ LeftOf(d)[2] = d[2] - 1
    BY Neighbours
  <2>2. CASE Up(d) = c
    BY ONLY <2>1, <2>2, <1>1 DEF Earlier
  <2>3. CASE LeftOf(d) = c
    BY ONLY <2>1, <2>3, <1>1 DEF Earlier
  <2> QED
    BY ONLY <1>2, <2>2, <2>3
<1>3. Earlier(c, Down(c)) /\ Earlier(c, RightOf(c)) /\ ~Earlier(c, c)
  BY ONLY <1>1 DEF Earlier
<1>4. Down(c) # c /\ RightOf(c) # c /\ Up(c) # c /\ LeftOf(c) # c
  BY ONLY <1>1
<1> QED
  BY ONLY <1>2, <1>3, <1>4

(* A thread computes its next cell.                                        *)
LEMMA ComputeKeepsCopies ==
  ASSUME SweepInv, NEW t \in Threads, NEW c \in Inner, ThreadComputesCell(t, c), PthreadTypeOK'
  PROVE  SweepInv'
<1>1. /\ mainAt = "computing" /\ c[1] \in RowsOf(t, numThreads) /\ c \notin computedCells
      /\ \A d \in Inner : d[1] \in RowsOf(t, numThreads) /\ Earlier(d, c) => d \in computedCells
      /\ local' = [local EXCEPT ![t][c] = Heated(local[t], c)]
      /\ computedCells' = computedCells \cup {c}
      /\ numThreads' = numThreads /\ globalMatrix' = globalMatrix /\ newMatrix' = newMatrix /\ mainAt' = mainAt
  BY DEF ThreadComputesCell
<1>2. /\ PthreadTypeOK /\ newMatrix = globalMatrix /\ CopiesInv /\ OrderInv
      /\ local \in [Threads -> Plates] /\ computedCells \subseteq Inner /\ Threads' = Threads
  BY <1>1 DEF SweepInv, PthreadTypeOK, Threads
<1>3. \A d \in Inner : d \in Cells
  BY Neighbours
<1>4. /\ \A u \in Threads : u # t => local'[u] = local[u]
      /\ \A d \in Cells : d # c => local'[t][d] = local[t][d]
      /\ local'[t][c] = Heated(local[t], c)
  BY <1>1, <1>2, <1>3 DEF Plates
<1>5. \A u \in Threads : u # t => c[1] \notin RowsOf(u, numThreads)
  BY <1>1, <1>2, Owners
<1>6. /\ \A u \in Threads : u # t => \A d : Computed(u, d)' <=> Computed(u, d)
      /\ \A d : d # c => (Computed(t, d)' <=> Computed(t, d))
      /\ Computed(t, c)' /\ ~Computed(t, c)
  BY ONLY <1>1, <1>5 DEF Computed
<1>7. ASSUME NEW d \in Inner, d[1] \in RowsOf(t, numThreads), Earlier(c, d)
      PROVE  d \notin computedCells
  <2>1. Computed(t, d) => Computed(t, c)
    BY <1>1, <1>2, <1>7 DEF OrderInv
  <2> QED
    BY ONLY <1>6, <1>7, <2>1 DEF Computed
<1>8. ASSUME NEW u \in Threads, NEW d \in Cells PROVE CopyOf(u, d)'
  <2>1. CopyOf(u, d)
    BY <1>2 DEF CopiesInv
  <2>2. CASE u # t
    BY ONLY <1>1, <1>4, <1>6, <2>1, <2>2 DEF CopyOf
  <2>3. CASE u = t /\ d = c
    <3>1. /\ Down(c) \in Cells /\ RightOf(c) \in Cells /\ Up(c) \in Cells /\ LeftOf(c) \in Cells
          /\ RightOf(c)[1] = c[1]
      BY Neighbours
    <3>2. Earlier(c, Down(c)) /\ Earlier(c, RightOf(c)) /\ Up(c) # c /\ LeftOf(c) # c
      BY NeighboursOrder
    <3>3. ~Computed(t, Down(c)) /\ ~Computed(t, RightOf(c)) /\ ~Computed(t, c)
      BY <1>2, <1>6, <1>7, <3>2 DEF Computed
    <3>4. CopyOf(t, c) /\ CopyOf(t, Down(c)) /\ CopyOf(t, RightOf(c))
      BY <1>2, <1>3, <3>1 DEF CopiesInv
    <3>5. local[t][c] = globalMatrix[c] /\ local[t][Down(c)] = globalMatrix[Down(c)]
          /\ local[t][RightOf(c)] = globalMatrix[RightOf(c)]
      BY ONLY <3>3, <3>4 DEF CopyOf
    <3>6. local'[t][Up(c)] = local[t][Up(c)] /\ local'[t][LeftOf(c)] = local[t][LeftOf(c)]
      BY ONLY <1>4, <3>1, <3>2
    <3>7. local'[t][c] = NewTemperature(globalMatrix[c], local'[t][Up(c)], globalMatrix[Down(c)],
                                        local'[t][LeftOf(c)], globalMatrix[RightOf(c)])
      BY ONLY <1>4, <3>5, <3>6 DEF Heated
    <3> QED
      BY ONLY <1>1, <1>6, <2>3, <3>7 DEF CopyOf
  <2>4. CASE u = t /\ d # c
    <3>1. CASE ~Computed(t, d)
      BY ONLY <1>1, <1>4, <1>6, <2>1, <2>4, <3>1 DEF CopyOf
    <3>2. CASE Computed(t, d)
      <4>1. d \in Inner /\ d[1] \in RowsOf(t, numThreads) /\ d \in computedCells
        BY <1>2, <3>2 DEF Computed
      <4>2. Up(d) \in Cells /\ LeftOf(d) \in Cells
        BY <4>1, Neighbours
      <4>3. Up(d) # c /\ LeftOf(d) # c
        BY <1>7, <4>1, NeighboursOrder
      <4>4. local'[t][d] = local[t][d] /\ local'[t][Up(d)] = local[t][Up(d)]
            /\ local'[t][LeftOf(d)] = local[t][LeftOf(d)]
        BY ONLY <1>4, <2>4, <4>2, <4>3
      <4> QED
        BY ONLY <1>1, <1>6, <2>1, <2>4, <3>2, <4>4 DEF CopyOf
    <3> QED
      BY ONLY <3>1, <3>2
  <2> QED
    BY ONLY <2>2, <2>3, <2>4
<1>9. ASSUME NEW u \in Threads, NEW d \in Inner, NEW e \in Inner,
             Computed(u, d)', e[1] \in RowsOf(u, numThreads), Earlier(e, d)
      PROVE  Computed(u, e)'
  <2>1. CASE u = t /\ d = c
    BY ONLY <1>1, <1>9, <2>1 DEF Computed
  <2>2. CASE ~(u = t /\ d = c)
    <3>1. Computed(u, d)
      BY ONLY <1>6, <1>9, <2>2
    <3>2. Computed(u, e)
      BY <1>2, <1>9, <3>1 DEF OrderInv
    <3> QED
      BY ONLY <1>6, <3>2
  <2> QED
    BY ONLY <2>1, <2>2
<1>10. CopiesInv'
  BY ONLY <1>2, <1>8 DEF CopiesInv, Cells
<1>11. OrderInv'
  BY ONLY <1>1, <1>2, <1>9 DEF OrderInv, Earlier, RowsOf, Inner, InnerRows, StartRow, EndRow, RowsPerThread
<1> QED
  BY ONLY <1>1, <1>2, <1>10, <1>11, PthreadTypeOK' DEF SweepInv

(* The rows of a thread are inner rows, and all but its first follow one   *)
(* of its rows.                                                            *)
LEMMA RowsOfBlock ==
  ASSUME NEW n \in Nat \ {0}, NEW t \in 0..n - 1, NEW i \in RowsOf(t, n)
  PROVE  /\ i \in Int /\ StartRow(t, n) \in Int /\ StartRow(t, n) >= 1 /\ i >= StartRow(t, n)
         /\ i < EndRow(t, n)
         /\ i = StartRow(t, n) => i - 1 \notin RowsOf(t, n)
         /\ i # StartRow(t, n) => i - 1 \in RowsOf(t, n)
<1> DEFINE q == RowsPerThread(n)
<1>1. q \in Nat /\ Rows - 2 \in Nat
  BY SizeAssumption, Division DEF RowsPerThread
<1>2. t * q \in Nat
  BY <1>1
<1>3. StartRow(t, n) = 1 + t * q
  BY DEF StartRow
<1>4. StartRow(t, n) \in Nat /\ StartRow(t, n) >= 1
  <2> HIDE DEF q
  <2> QED
    BY ONLY <1>2, <1>3
<1>5. EndRow(t, n) \in Int
  BY <1>1, <1>4, SizeAssumption DEF EndRow
<1>6. i \in StartRow(t, n)..EndRow(t, n) - 1
  BY DEF RowsOf
<1> QED
  BY ONLY <1>4, <1>5, <1>6 DEF RowsOf

(* What is gathered is, in every inner row, of the thread that has it.     *)
LEMMA GatheredIs ==
  ASSUME PthreadTypeOK, newMatrix = globalMatrix, CopiesInv
  PROVE  /\ Gathered = [c \in Cells |-> Gathered[c]]
         /\ \A t \in Threads : \A c \in Cells :
              c[1] \in RowsOf(t, numThreads) /\ c[1] \in InnerRows => Gathered[c] = local[t][c]
         /\ \A c \in Cells : c \notin Inner => Gathered[c] = globalMatrix[c]
<1>1. /\ numThreads \in Nat \ {0} /\ local \in [Threads -> Plates] /\ globalMatrix \in Plates
      /\ computedCells \subseteq Inner
  BY ThreadCountsAssumption DEF PthreadTypeOK
<1>2. ASSUME NEW t \in Threads, NEW c \in Cells, c \notin Inner PROVE local[t][c] = globalMatrix[c]
  BY <1>1, <1>2 DEF CopiesInv, CopyOf, Computed
<1>3. ASSUME NEW t \in Threads, NEW u \in Threads, NEW i \in InnerRows,
             i \in RowsOf(t, numThreads), i \in RowsOf(u, numThreads)
      PROVE  u = t
  BY <1>1, <1>3, BlocksDivideRows DEF Threads
<1>4. CASE numThreads = 1
  <2>1. Gathered = local[0] /\ Threads = {0}
    BY <1>4 DEF Gathered, Threads
  <2> QED
    BY <1>1, <1>2, <2>1 DEF Plates
<1>5. CASE numThreads # 1
  <2> DEFINE Owner(c) == CHOOSE t \in Threads : c[1] \in RowsOf(t, numThreads)
             Of(c) == IF \E t \in Threads : c[1] \in RowsOf(t, numThreads)
                      THEN local[Owner(c)][c] ELSE newMatrix[c]
  <2>1. Gathered = [c \in Cells |-> Of(c)]
    BY <1>5 DEF Gathered
  <2>2. ASSUME NEW c, \E t \in Threads : c[1] \in RowsOf(t, numThreads)
        PROVE  Owner(c) \in Threads /\ c[1] \in RowsOf(Owner(c), numThreads)
    BY <2>2, Zenon
  <2> HIDE DEF Owner
  <2>3. ASSUME NEW t \in Threads, NEW c \in Cells, c[1] \in RowsOf(t, numThreads), c[1] \in InnerRows
        PROVE  Of(c) = local[t][c]
    <3>1. Owner(c) = t
      BY ONLY <1>3, <2>2, <2>3
    <3> QED
      BY ONLY <2>3, <3>1
  <2>4. ASSUME NEW c \in Cells, c \notin Inner PROVE Of(c) = globalMatrix[c]
    BY ONLY <1>2, <2>2, <2>4, newMatrix = globalMatrix
  <2> HIDE DEF Of
  <2> QED
    BY ONLY <2>1, <2>3, <2>4
<1> QED
  BY <1>4, <1>5

(* So with all cells computed it is what Sweep says.                       *)
LEMMA GatheredIsSweep ==
  ASSUME PthreadTypeOK, newMatrix = globalMatrix, CopiesInv,
         \A t \in Threads : \A c \in Inner : c[1] \in RowsOf(t, numThreads) => c \in computedCells
  PROVE  Gathered = Sweep(globalMatrix, numThreads)
<1>1. numThreads \in Nat \ {0} /\ Threads = 0..numThreads - 1
  BY ThreadCountsAssumption DEF PthreadTypeOK, Threads
<1>2. ASSUME NEW c \in Cells
      PROVE  Gathered[c] = NextCell(globalMatrix, numThreads, Gathered, c)
  <2>1. CASE c \notin Inner
    BY <2>1, GatheredIs DEF NextCell
  <2>2. CASE c \in Inner
    <3>1. PICK t \in Threads : /\ c[1] \in RowsOf(t, numThreads)
                               /\ \A u \in Threads : c[1] \in RowsOf(u, numThreads) => u = t
      BY <2>2, Owners
    <3>2. /\ Up(c) \in Cells /\ LeftOf(c) \in Cells /\ c[1] \in InnerRows
          /\ LeftOf(c)[1] = c[1] /\ Up(c)[1] = c[1] - 1
      BY <2>2, Neighbours
    <3>3. Computed(t, c)
      BY <2>2, <3>1 DEF Computed
    <3>4. local[t][c] = NewTemperature(globalMatrix[c], local[t][Up(c)], globalMatrix[Down(c)],
                                       local[t][LeftOf(c)], globalMatrix[RightOf(c)])
      BY <3>3 DEF CopiesInv, CopyOf
    <3>5. Gathered[c] = local[t][c] /\ Gathered[LeftOf(c)] = local[t][LeftOf(c)]
      BY <3>1, <3>2, GatheredIs
    <3>6. /\ c[1] \in Int /\ StartRow(t, numThreads) >= 1 /\ c[1] >= StartRow(t, numThreads)
          /\ StartRow(t, numThreads) \in Int
          /\ c[1] = StartRow(t, numThreads) => c[1] - 1 \notin RowsOf(t, numThreads)
          /\ c[1] # StartRow(t, numThreads) => c[1] - 1 \in RowsOf(t, numThreads)
      BY <1>1, <3>1, RowsOfBlock
    <3>7. StartsBlock(c[1], numThreads) <=> c[1] = StartRow(t, numThreads)
      BY ONLY <1>1, <3>1 DEF StartsBlock
    <3>8. CASE StartsBlock(c[1], numThreads)
      <4>1. ~Computed(t, Up(c))
        BY ONLY <3>2, <3>6, <3>7, <3>8 DEF Computed
      <4>2. local[t][Up(c)] = globalMatrix[Up(c)]
        BY <3>2, <4>1 DEF CopiesInv, CopyOf
      <4> QED
        BY ONLY <2>2, <3>4, <3>5, <3>8, <4>2 DEF NextCell
    <3>9. CASE ~StartsBlock(c[1], numThreads)
      <4>1. c[1] - 1 \in RowsOf(t, numThreads) /\ c[1] - 1 \in InnerRows
        BY <3>2, <3>6, <3>7, <3>9, SizeAssumption DEF InnerRows
      <4>2. Gathered[Up(c)] = local[t][Up(c)]
        BY <3>2, <4>1, GatheredIs
      <4> QED
        BY ONLY <2>2, <3>4, <3>5, <3>9, <4>2 DEF NextCell
    <3> QED
      BY ONLY <3>8, <3>9
  <2> QED
    BY ONLY <2>1, <2>2
<1>3. Gathered = [c \in Cells |-> Gathered[c]]
  BY GatheredIs
<1>4. IsSweep(globalMatrix, numThreads, Gathered)
  BY ONLY <1>2, <1>3 DEF IsSweep
<1> QED
  BY <1>4, SweepIs

(* The copies are what the invariant says, in every state.                 *)
THEOREM CopiesFollowLoops == PthreadSpec => []SweepInv
<1>1. PthreadInit => SweepInv
  <2>1. PthreadInit => newMatrix = globalMatrix /\ mainAt # "computing"
    BY DEF PthreadInit
  <2>2. PthreadInit => PthreadTypeOK
    BY InitialTypes
  <2> QED
    BY <2>1, <2>2 DEF SweepInv
<1>2. SweepInv /\ PthreadTypeOK' /\ [PthreadNext]_pthreadVars => SweepInv'
  <2> SUFFICES ASSUME SweepInv, PthreadTypeOK', [PthreadNext]_pthreadVars PROVE SweepInv'
    OBVIOUS
  <2>1. CASE StartIteration
    <3>1. /\ local' = [t \in Threads |-> globalMatrix] /\ computedCells' = {}
          /\ globalMatrix' = globalMatrix /\ newMatrix' = newMatrix /\ Threads' = Threads
      BY <2>1 DEF StartIteration, Threads
    <3>2. CopiesInv' /\ OrderInv'
      BY <3>1 DEF CopiesInv, CopyOf, OrderInv, Computed
    <3> QED
      BY <3>1, <3>2 DEF SweepInv
  <2>2. ASSUME NEW t \in Threads, NEW c \in Inner, ThreadComputesCell(t, c) PROVE SweepInv'
    BY <2>2, ComputeKeepsCopies
  <2>3. CASE EndIteration
    <3>1. globalMatrix' = newMatrix' /\ mainAt' = "testing"
      BY <2>3 DEF EndIteration
    <3> QED
      BY ONLY <3>1, PthreadTypeOK' DEF SweepInv
  <2>4. CASE PthreadReturn
    <3>1. globalMatrix' = globalMatrix /\ newMatrix' = newMatrix /\ mainAt' = "returned"
      BY <2>4 DEF PthreadReturn
    <3> QED
      BY <3>1 DEF SweepInv
  <2>5. CASE UNCHANGED pthreadVars
    BY <2>5 DEF pthreadVars, SweepInv, CopiesInv, OrderInv, CopyOf, Computed, Threads
  <2> QED
    BY <2>1, <2>2, <2>3, <2>4, <2>5 DEF PthreadNext
<1> QED
  BY <1>1, <1>2, TypeCorrect, PTL DEF PthreadSpec

(* Each state of the plate is the sweep of the last, however the threads   *)
(* interleave, and the simulation goes on when a cell has changed.         *)
THEOREM SweepsOnly == PthreadSpec => StatesAreSweeps
<1> DEFINE Sweeps ==
      /\ totalStatesK' # totalStatesK =>
           /\ totalStatesK' = totalStatesK + 1
           /\ globalMatrix' = Sweep(globalMatrix, numThreads)
           /\ sharedBalancePoint' = (\A c \in Inner : Change(globalMatrix'[c], globalMatrix[c]) < Epsilon)
      /\ totalStatesK' = totalStatesK => globalMatrix' = globalMatrix
<1>1. SweepInv /\ PthreadTypeOK' /\ [PthreadNext]_pthreadVars => Sweeps
  <2> SUFFICES ASSUME SweepInv, PthreadTypeOK', [PthreadNext]_pthreadVars PROVE Sweeps
    OBVIOUS
  <2>1. totalStatesK \in Nat /\ globalMatrix \in Plates /\ globalMatrix' \in Plates
    BY DEF SweepInv, PthreadTypeOK
  <2>2. CASE EndIteration
    <3>1. /\ newMatrix' = Gathered /\ globalMatrix' = newMatrix' /\ totalStatesK' = totalStatesK + 1
          /\ mainAt = "computing"
          /\ \A t \in Threads : \A c \in Inner : c[1] \in RowsOf(t, numThreads) => c \in computedCells
          /\ sharedBalancePoint' = (\A c \in Inner : ~(Change(newMatrix'[c], globalMatrix[c]) >= Epsilon))
      BY <2>2 DEF EndIteration
    <3>2. globalMatrix' = Sweep(globalMatrix, numThreads)
      BY <3>1, GatheredIsSweep DEF SweepInv
    <3>3. ASSUME NEW c \in Inner
          PROVE  ~(Change(globalMatrix'[c], globalMatrix[c]) >= Epsilon)
                   <=> Change(globalMatrix'[c], globalMatrix[c]) < Epsilon
      <4>1. c \in Cells
        BY Neighbours
      <4>2. globalMatrix'[c] \in Temperature /\ globalMatrix[c] \in Temperature
        BY ONLY <2>1, <4>1 DEF Plates
      <4>3. Change(globalMatrix'[c], globalMatrix[c]) \in Int /\ Epsilon \in Int
        BY ONLY <4>2, TemperatureAssumption
      <4> QED
        BY ONLY <4>3
    <3>4. (\A c \in Inner : ~(Change(newMatrix'[c], globalMatrix[c]) >= Epsilon))
            <=> \A c \in Inner : Change(globalMatrix'[c], globalMatrix[c]) < Epsilon
      BY ONLY <3>1, <3>3
    <3>5. sharedBalancePoint' = (\A c \in Inner : Change(globalMatrix'[c], globalMatrix[c]) < Epsilon)
      BY ONLY <3>1, <3>4, Zenon
    <3>6. totalStatesK' # totalStatesK
      BY ONLY <2>1, <3>1
    <3> QED
      BY ONLY <3>1, <3>2, <3>5, <3>6, Zenon
  <2>3. CASE ~EndIteration
    <3>1. totalStatesK' = totalStatesK /\ globalMatrix' = globalMatrix
      BY <2>3 DEF PthreadNext, StartIteration, ThreadComputesCell, PthreadReturn, pthreadVars
    <3> QED
      BY ONLY <3>1
  <2> QED
    BY <2>2, <2>3
<1>2. PthreadTypeOK /\ SweepInv /\ PthreadTypeOK' /\ [PthreadNext]_pthreadVars => [Sweeps]_pthreadVars
  BY <1>1
<1> QED
  BY <1>2, TypeCorrect, CopiesFollowLoops, PTL DEF PthreadSpec, StatesAreSweeps
=============================================================================
