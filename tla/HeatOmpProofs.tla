---------------------------- MODULE HeatOmpProofs ----------------------------
(***************************************************************************)
(* For every plate, arithmetic, team and division of the rows, the loop    *)
(* shared by threads implements the serial program, and what it returns    *)
(* has settled.                                                            *)
(***************************************************************************)
EXTENDS HeatOmp, TLAPS

(* The matrix that is read in one iteration is the next one's target, and  *)
(* the one that is returned when the loop ends with it.                    *)
LEMMA MatricesTakeTurns ==
  ASSUME NEW k \in Nat
  PROVE  /\ CurrentMatrix(k) \in {"a", "b"} /\ NextMatrix(k) \in {"a", "b"}
         /\ CurrentMatrix(k) # NextMatrix(k)
         /\ ResultMatrix(k) \in {"a", "b"}
         /\ ResultMatrix(k + 1) = CurrentMatrix(k)
<1>1. k % 2 \in {0, 1} /\ (k + 1) % 2 = 1 - (k % 2)
  BY SMT
<1>2. QED
  BY <1>1 DEF CurrentMatrix, NextMatrix, ResultMatrix

(* A new temperature is a temperature.                                     *)
LEMMA HeatedIsTemperature ==
  ASSUME NEW p \in Plates, NEW c \in Inner
  PROVE  Heated(p, c) \in Temperature /\ c \in Cells
<1>1. /\ c \in Cells /\ Up(c) \in Cells /\ Down(c) \in Cells
      /\ LeftOf(c) \in Cells /\ RightOf(c) \in Cells
  BY SizeAssumption DEF Inner, InnerRows, Cells, Up, Down, LeftOf, RightOf
<1>2. QED
  BY <1>1, TemperatureAssumption DEF Plates, Heated

(* Where the iteration is: the matrix it reads is untouched, the cells     *)
(* computed so far hold the next state, and the others what they held; the *)
(* point of balance says whether the computed cells have settled.          *)
Progress ==
  LET current == CurrentMatrix(statesK)
      next == NextMatrix(statesK)
  IN  IF phase = "computing"
      THEN /\ plates[current] = untouched[current]
           /\ \A c \in Cells : plates[next][c] =
                IF c \in computed THEN Heated(untouched[current], c) ELSE untouched[next][c]
           /\ balancePoint =
                (\A c \in computed : Change(untouched[current][c], Heated(untouched[current], c))
                                       <= Epsilon)
      ELSE plates = untouched

(* When the loop has ended the matrix to return has settled.               *)
Settled(p) == \A c \in Inner : Change(p[c], Heated(p, c)) <= Epsilon
WillReturnSettled ==
  /\ phase = "testing" /\ balancePoint => Settled(plates[ResultMatrix(statesK)])
  /\ phase = "returned" => Settled(matrix)

IInv == TypeOK /\ Progress /\ WillReturnSettled

(* The invariant holds initially and every step of a thread keeps it.      *)
THEOREM InductiveInvariant == Spec => []IInv
<1>1. Init => IInv
  <2> SUFFICES ASSUME Init PROVE IInv
    OBVIOUS
  <2>1. matrix \in Plates
    BY TemperatureAssumption DEF Init
  <2>2. TypeOK
    <3>1. plates \in [{"a", "b"} -> Plates] /\ untouched = plates
      BY <2>1 DEF Init
    <3>2. computed = {} /\ {} \subseteq Inner
      BY DEF Init
    <3>3. statesK \in Nat /\ ~(statesK > 0)
      BY DEF Init
    <3>4. balancePoint \in BOOLEAN
      BY Zenon DEF Init
    <3> QED
      BY <2>1, <3>1, <3>2, <3>3, <3>4, Zenon DEF Init, TypeOK
  <2>3. Progress
    BY DEF Init, Progress
  <2>4. WillReturnSettled
    BY DEF Init, WillReturnSettled
  <2> QED
    BY <2>2, <2>3, <2>4 DEF IInv
<1>2. IInv /\ [Next]_vars => IInv'
  <2> SUFFICES ASSUME IInv, [Next]_vars PROVE IInv'
    OBVIOUS
  <2> USE DEF IInv
  <2>1. CASE StartLoop
    <3>1. TypeOK'
      BY <2>1 DEF TypeOK, StartLoop
    <3>2. Progress'
      BY <2>1, MatricesTakeTurns DEF Progress, TypeOK, StartLoop
    <3>3. WillReturnSettled'
      BY <2>1 DEF WillReturnSettled, StartLoop
    <3> QED
      BY <3>1, <3>2, <3>3
  <2>2. ASSUME NEW c \in Inner, ComputeCell(c) PROVE IInv'
    <3> DEFINE current == CurrentMatrix(statesK)
               next == NextMatrix(statesK)
               new == Heated(plates[current], c)
    <3>1. /\ current \in {"a", "b"} /\ next \in {"a", "b"} /\ current # next
          /\ plates[current] \in Plates /\ new \in Temperature /\ c \in Cells
      BY MatricesTakeTurns, HeatedIsTemperature DEF TypeOK
    <3>2. /\ phase = "computing" /\ c \notin computed
          /\ plates' = [plates EXCEPT ![next][c] = new]
          /\ balancePoint' = Settles(c)
          /\ computed' = computed \cup {c}
          /\ UNCHANGED <<rowOwner, matrix, statesK, phase, untouched>>
      BY <2>2 DEF ComputeCell
    <3> HIDE DEF current, next, new
    <3>3. TypeOK'
      BY <3>1, <3>2 DEF TypeOK, Plates, Settles
    <3>4. /\ plates'[current] = plates[current]
          /\ \A d \in Cells : plates'[next][d] = IF d = c THEN new ELSE plates[next][d]
      BY <3>1, <3>2 DEF TypeOK, Plates
    <3>5. Progress'
      <4>1. /\ plates[current] = untouched[current]
            /\ \A d \in Cells : plates[next][d] =
                 IF d \in computed THEN Heated(untouched[current], d) ELSE untouched[next][d]
            /\ balancePoint =
                 (\A d \in computed : Change(untouched[current][d], Heated(untouched[current], d))
                                        <= Epsilon)
        BY <3>2 DEF Progress, current, next
      <4>2. plates'[current] = untouched[current]
        BY <3>4, <4>1
      <4>3. \A d \in Cells : plates'[next][d] =
              IF d \in computed' THEN Heated(untouched[current], d) ELSE untouched[next][d]
        BY <3>2, <3>4, <4>1 DEF new
      <4>4. balancePoint' =
              (\A d \in computed' : Change(untouched[current][d], Heated(untouched[current], d))
                                      <= Epsilon)
        BY <3>2, <4>1, Zenon DEF Settles, current
      <4> QED
        BY <3>2, <4>2, <4>3, <4>4 DEF Progress, current, next
    <3>6. WillReturnSettled'
      BY <3>2 DEF WillReturnSettled
    <3> QED
      BY <3>3, <3>5, <3>6
  <2>3. CASE EndLoop
    <3>1. TypeOK'
      BY <2>3 DEF TypeOK, EndLoop
    <3>2. Progress'
      BY <2>3 DEF Progress, EndLoop
    <3>3. WillReturnSettled'
      <4> SUFFICES ASSUME balancePoint
                   PROVE  Settled(plates[ResultMatrix(statesK + 1)])
        BY <2>3 DEF EndLoop, WillReturnSettled, Settled
      <4>1. Settled(plates[CurrentMatrix(statesK)])
        BY <2>3, Zenon DEF EndLoop, Progress, Settled
      <4> QED
        BY <4>1, MatricesTakeTurns DEF TypeOK
    <3> QED
      BY <3>1, <3>2, <3>3
  <2>4. CASE Return
    <3>1. TypeOK'
      BY <2>4, MatricesTakeTurns DEF TypeOK, Return
    <3>2. Progress'
      BY <2>4 DEF Progress, Return
    <3>3. WillReturnSettled'
      BY <2>4, Zenon DEF WillReturnSettled, Return, Settled
    <3> QED
      BY <3>1, <3>2, <3>3
  <2>5. CASE UNCHANGED vars
    <3>1. TypeOK'
      BY <2>5 DEF TypeOK, vars
    <3>2. Progress'
      BY <2>5 DEF Progress, vars
    <3>3. WillReturnSettled'
      BY <2>5, Zenon DEF WillReturnSettled, Settled, vars
    <3> QED
      BY <3>1, <3>2, <3>3
  <2> QED
    BY <2>1, <2>2, <2>3, <2>4, <2>5 DEF Next
<1> QED
  BY <1>1, <1>2, PTL DEF Spec

(* The variables keep their types, and the threads meet at the end of      *)
(* every loop with all of the inner cells computed.                        *)
THEOREM TypeCorrect == Spec => []TypeOK
BY InductiveInvariant, PTL DEF IInv

(* The plate that is returned has settled.                                 *)
THEOREM ReturnsSettledPlate == Spec => []ResultSettled
<1>1. IInv => ResultSettled
  BY DEF IInv, WillReturnSettled, Settled, ResultSettled
<1> QED
  BY <1>1, InductiveInvariant, PTL

(* The serial program's operators are those of the team's.                 *)
LEMMA SameOperators ==
  /\ Serial!Cells = Cells /\ Serial!Inner = Inner
  /\ \A p, c : Serial!Heated(p, c) = Heated(p, c)
  /\ \A k : /\ Serial!CurrentMatrix(k) = CurrentMatrix(k)
            /\ Serial!NextMatrix(k) = NextMatrix(k)
            /\ Serial!ResultMatrix(k) = ResultMatrix(k)
BY DEF Serial!Cells, Cells, Serial!Inner, Inner, Serial!InnerRows, InnerRows,
       Serial!Heated, Heated, Serial!Up, Up, Serial!Down, Down, Serial!LeftOf, LeftOf,
       Serial!RightOf, RightOf, Serial!CurrentMatrix, CurrentMatrix,
       Serial!NextMatrix, NextMatrix, Serial!ResultMatrix, ResultMatrix

(* The end of the loop is one round of the serial program, its return is   *)
(* the serial program's, and the threads' steps change nothing of it.      *)
LEMMA SerialStep ==
  ASSUME IInv, [Next]_vars
  PROVE  [Serial!Next]_(Serial!vars)
<1> USE DEF IInv
<1>1. CASE StartLoop
  <2>1. UNCHANGED Serial!vars
    BY <1>1 DEF StartLoop, Serial!vars
  <2> QED
    BY <2>1
<1>2. ASSUME NEW c \in Inner, ComputeCell(c) PROVE UNCHANGED Serial!vars
  BY <1>2 DEF ComputeCell, Serial!vars
<1>3. CASE EndLoop
  <2> DEFINE current == CurrentMatrix(statesK)
             next == NextMatrix(statesK)
             row == [c \in Cells |-> IF c \in Inner THEN Heated(untouched[current], c)
                                     ELSE untouched[next][c]]
  <2>1. /\ phase = "computing" /\ computed = Inner /\ phase' = "testing"
        /\ statesK' = statesK + 1 /\ untouched' = plates
        /\ UNCHANGED <<rowOwner, matrix, plates, balancePoint, computed>>
    BY <1>3 DEF EndLoop
  <2>2. /\ current \in {"a", "b"} /\ next \in {"a", "b"} /\ current # next
        /\ plates \in [{"a", "b"} -> Plates] /\ untouched \in [{"a", "b"} -> Plates]
    BY MatricesTakeTurns DEF TypeOK
  <2>3. /\ plates[current] = untouched[current]
        /\ \A c \in Cells : plates[next][c] =
             IF c \in Inner THEN Heated(untouched[current], c) ELSE untouched[next][c]
        /\ balancePoint = (\A c \in Inner : Change(untouched[current][c],
                                               Heated(untouched[current], c)) <= Epsilon)
    BY <2>1 DEF Progress
  <2> HIDE DEF current, next
  <2>4. plates[next] = row
    BY <2>2, <2>3 DEF Plates
  <2>5. plates = [untouched EXCEPT ![next] = row]
    BY <2>2, <2>3, <2>4
  <2>6. Serial!Iterate
    <3>1. /\ Serial!CurrentMatrix(statesK) = current /\ Serial!NextMatrix(statesK) = next
          /\ Serial!Cells = Cells /\ Serial!Inner = Inner
      BY SameOperators DEF current, next
    <3>2. untouched' = [untouched EXCEPT ![Serial!NextMatrix(statesK)] =
                          [c \in Serial!Cells |->
                             IF c \in Serial!Inner
                             THEN Serial!Heated(untouched[Serial!CurrentMatrix(statesK)], c)
                             ELSE @[c]]]
      BY <2>1, <2>5, <3>1, SameOperators
    <3>3. (phase' # "computing" /\ balancePoint') =
            (\A c \in Serial!Inner :
               Change(untouched[Serial!CurrentMatrix(statesK)][c],
                      Serial!Heated(untouched[Serial!CurrentMatrix(statesK)], c)) <= Epsilon)
      BY <2>1, <2>3, <3>1, SameOperators, Zenon DEF TypeOK
    <3> QED
      BY <2>1, <3>2, <3>3 DEF Serial!Iterate
  <2> QED
    BY <2>6 DEF Serial!Next
<1>4. CASE Return
  <2>1. Serial!Return
    BY <1>4 DEF Return, Progress, Serial!Return, ResultMatrix, Serial!ResultMatrix
  <2> QED
    BY <2>1 DEF Serial!Next
<1>5. CASE UNCHANGED vars
  BY <1>5 DEF vars, Serial!vars
<1> QED
  BY <1>1, <1>2, <1>3, <1>4, <1>5 DEF Next

(* Every behaviour of the team is a behaviour of the serial program.       *)
THEOREM Refinement == Spec => ImplementsSerial
<1>1. Init => Serial!Init
  BY DEF Init, Serial!Init
<1> QED
  BY <1>1, SerialStep, InductiveInvariant, PTL DEF Spec, ImplementsSerial, Serial!Spec
=============================================================================
