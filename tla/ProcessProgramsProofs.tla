------------------------- MODULE ProcessProgramsProofs -------------------------
(***************************************************************************)
(* The MPI programs of collective calls, the heat simulation, and all of   *)
(* them together: they keep their types, take turns, agree on their        *)
(* results and divide their work, for any number of processes, any         *)
(* arguments and any choice of which sends and calls wait.                 *)
(*                                                                         *)
(* The invariants are as those of the programs of single messages.  That   *)
(* of the heat simulation says that there is a world: which states and     *)
(* plates all processes are done with.                                     *)
(***************************************************************************)
EXTENDS MessageProgramsProofs

-----------------------------------------------------------------------------
(* The lucky numbers: Entries(p) is the number of reductions that p has    *)
(* entered, and those who ask for the results know them one by one.        *)
LuckyPoints == {"start", "min", "max", "sum", "tell", "ended"}
LuckyWords == {"minimum", "maximum", "less", "equal", "greater"}
LuckyRecord == [number : LuckyNumbers, all_min : Int, all_max : Int, all_sum : Int,
                tells : SUBSET LuckyWords]

Values(n, num) == {num[q] : q \in Procs(n)}
Least(n, num) == Collectives!Min(Values(n, num))
Greatest(n, num) == Collectives!Max(Values(n, num))
Total(num) == Collectives!SumFunction(num)

Telling(n, number, min, max, sum) ==
  (IF number = min THEN {"minimum"} ELSE {}) \cup (IF number = max THEN {"maximum"} ELSE {})
    \cup (IF number * n < sum THEN {"less"}
          ELSE IF number * n > sum THEN {"greater"} ELSE {"equal"})

Entries(p) == IF at[p] \in {"start", "min"} THEN 0
              ELSE IF at[p] = "max" THEN 1 ELSE IF at[p] = "sum" THEN 2 ELSE 3
Asks(p) == program = "lucky_number_who" \/ p = 0

LuckyKnows(n, num, p) ==
  /\ at[p] \in {"max", "sum", "tell"} => waits[p].entry = Procs(n)
  /\ at[p] \in {"sum", "tell", "ended"} =>
       local[p].all_min = Least(n, num) /\ \A q \in Procs(n) : at[q] # "start"
  /\ at[p] \in {"tell", "ended"} => local[p].all_max = Greatest(n, num)
  /\ at[p] = "ended" =>
       /\ local[p].all_sum = Total(num)
       /\ program = "lucky_number_who" =>
            local[p].tells = Telling(n, num[p], Least(n, num), Greatest(n, num), Total(num))

LuckyData(n, num, p) ==
  /\ Len(entered[p]) = Entries(p) /\ \A k \in 1..Len(entered[p]) : entered[p][k] = num[p]
  /\ at[p] # "start" => local[p] \in LuckyRecord /\ local[p].number = num[p]
  /\ Asks(p) => LuckyKnows(n, num, p)

LuckyGoes(n, num) == num \in [Procs(n) -> Int] /\ \A p \in Procs(n) : LuckyData(n, num, p)

LuckyInv(n) ==
  /\ program \in Collectives!Lucky
  /\ Runs(program, n, LuckyPoints, Nothing, Int, Nothing)
  /\ \E num : LuckyGoes(n, num)

(* Some number is the least, and some number the greatest.                 *)
LEMMA Extremes ==
  ASSUME NEW n \in Nat \ {0}, NEW num \in [Procs(n) -> Int]
  PROVE  /\ Least(n, num) \in Values(n, num) /\ Greatest(n, num) \in Values(n, num)
         /\ Least(n, num) \in Int /\ Greatest(n, num) \in Int
         /\ \A q \in Procs(n) : Least(n, num) <= num[q] /\ num[q] <= Greatest(n, num)
<1> DEFINE Low(k, q) == \A r \in 0..k : num[q] <= num[r]
           High(k, q) == \A r \in 0..k : num[r] <= num[q]
           Known == {k \in Nat : k < n => \E q, s \in 0..k : Low(k, q) /\ High(k, s)}
<1>0. \A k \in Nat : k < n => k \in Procs(n) /\ num[k] \in Int
  BY DEF Procs
<1>1. 0 \in Known
  <2>1. 0 < n => Low(0, 0) /\ High(0, 0)
    BY <1>0
  <2> QED BY <2>1
<1>2. ASSUME NEW k \in Nat, k \in Known PROVE k + 1 \in Known
  <2> SUFFICES ASSUME k + 1 < n PROVE \E q, s \in 0..k + 1 : Low(k + 1, q) /\ High(k + 1, s)
    OBVIOUS
  <2>1. PICK q, s \in 0..k : Low(k, q) /\ High(k, s)
    BY <1>2
  <2>2. \A r \in 0..k + 1 : num[r] \in Int
    BY <1>0
  <2>3. \A r \in 0..k + 1 : r \in 0..k \/ r = k + 1
    OBVIOUS
  <2>4. \E a \in 0..k + 1 : Low(k + 1, a)
    <3>1. CASE num[q] <= num[k + 1]
      <4>1. Low(k + 1, q)
        BY ONLY <2>1, <2>3, <3>1
      <4> QED BY <4>1
    <3>2. CASE num[k + 1] <= num[q]
      <4>1. Low(k + 1, k + 1)
        <5>1. \A r \in 0..k : num[k + 1] <= num[r]
          BY <2>1, <2>2, <3>2
        <5> QED BY <2>2, <2>3, <5>1
      <4> QED BY <4>1
    <3> QED BY <2>2, <3>1, <3>2
  <2>5. \E a \in 0..k + 1 : High(k + 1, a)
    <3>1. CASE num[k + 1] <= num[s]
      <4>1. High(k + 1, s)
        BY ONLY <2>1, <2>3, <3>1
      <4> QED BY <4>1
    <3>2. CASE num[s] <= num[k + 1]
      <4>1. High(k + 1, k + 1)
        <5>1. \A r \in 0..k : num[r] <= num[k + 1]
          BY <2>1, <2>2, <3>2
        <5> QED BY <2>2, <2>3, <5>1
      <4> QED BY <4>1
    <3> QED BY <2>2, <3>1, <3>2
  <2> HIDE DEF Low, High
  <2> QED BY <2>4, <2>5
<1> HIDE DEF Known
<1>3. Nat \subseteq Known
  BY <1>1, <1>2, Induction
<1>4. PICK q, s \in Procs(n) : Low(n - 1, q) /\ High(n - 1, s)
  <2>1. n - 1 \in Known
    BY <1>3
  <2> QED BY <2>1 DEF Known, Procs
<1>5. /\ num[q] \in Values(n, num) /\ \A v \in Values(n, num) : num[q] <= v
      /\ num[s] \in Values(n, num) /\ \A v \in Values(n, num) : v <= num[s]
  BY <1>4 DEF Values, Procs
<1>6. \A v \in Values(n, num) : v \in Int
  BY DEF Values
<1>7. Least(n, num) \in Values(n, num) /\ \A v \in Values(n, num) : Least(n, num) <= v
  <2>1. Least(n, num) = CHOOSE x \in Values(n, num) : \A y \in Values(n, num) : x <= y
    BY DEF Least, Collectives!Min
  <2> QED BY ONLY <1>5, <2>1
<1>8. Greatest(n, num) \in Values(n, num) /\ \A v \in Values(n, num) : Greatest(n, num) >= v
  <2>1. Greatest(n, num) = CHOOSE x \in Values(n, num) : \A y \in Values(n, num) : x >= y
    BY DEF Greatest, Collectives!Max
  <2>2. \A v \in Values(n, num) : num[s] >= v
    BY ONLY <1>5, <1>6
  <2> QED BY ONLY <1>5, <2>1, <2>2
<1>9. \A x \in Procs(n) : num[x] \in Values(n, num)
  BY DEF Values
<1> QED BY ONLY <1>6, <1>7, <1>8, <1>9

(* The total lies between as many times the least and the greatest number; *)
(* it is the lower bound only if all numbers are equal.                    *)
LEMMA TotalIs ==
  ASSUME NEW n \in Nat \ {0}, NEW num \in [Procs(n) -> Int]
  PROVE  /\ Total(num) \in Int
         /\ n * Least(n, num) <= Total(num) /\ Total(num) <= n * Greatest(n, num)
         /\ Total(num) = n * Least(n, num) => \A q \in Procs(n) : num[q] = Least(n, num)
<1>1. IsFiniteSet(Procs(n)) /\ Cardinality(Procs(n)) = n /\ DOMAIN num = Procs(n)
  BY ProcsCount
<1>2. Total(num) = Sums(num, Procs(n))[Procs(n)]
  BY <1>1, SumIs DEF Total
<1>3. /\ Least(n, num) \in Int /\ Greatest(n, num) \in Int
      /\ \A q \in Procs(n) : Least(n, num) <= num[q] /\ num[q] <= Greatest(n, num)
  BY Extremes
<1> QED BY ONLY <1>1, <1>2, <1>3, num \in [Procs(n) -> Int], SumBounds

(* A step of x alone.                                                      *)
LuckyApart(n, num, x) ==
  /\ LuckyGoes(n, num) /\ x \in Procs(n) /\ program' = program
  /\ at'[x] # "start"
  /\ \A q \in Procs(n) : q # x =>
       at'[q] = at[q] /\ local'[q] = local[q] /\ entered'[q] = entered[q] /\ waits'[q] = waits[q]

(* The data of the others stays right.                                     *)
LEMMA LuckyOthers ==
  ASSUME NEW n, NEW num, NEW x, LuckyApart(n, num, x), NEW q \in Procs(n), q # x
  PROVE  LuckyData(n, num, q)'
<1>1. /\ LuckyData(n, num, q) /\ program' = program
      /\ at'[q] = at[q] /\ local'[q] = local[q] /\ entered'[q] = entered[q] /\ waits'[q] = waits[q]
      /\ \A r \in Procs(n) : at[r] # "start" => at'[r] # "start"
  BY DEF LuckyApart, LuckyGoes
<1>2. Entries(q)' = Entries(q) /\ (Asks(q)' <=> Asks(q))
  BY <1>1 DEF Entries, Asks
<1>3. LuckyKnows(n, num, q) => LuckyKnows(n, num, q)'
  BY ONLY <1>1 DEF LuckyKnows
<1> QED BY ONLY <1>1, <1>2, <1>3 DEF LuckyData

(* Who draws its number has not drawn it before, so nobody knows anything. *)
LEMMA LuckyDraws ==
  ASSUME NEW n, NEW num, NEW x, LuckyApart(n, num, x), at[x] = "start", at'[x] = "min",
         NEW d, local'[x] = d, d \in LuckyRecord, entered'[x] = entered[x], d.number \in Int
  PROVE  \E new : LuckyGoes(n, new)'
<1> DEFINE new == [num EXCEPT ![x] = d.number]
<1>1. /\ new \in [Procs(n) -> Int] /\ new[x] = d.number /\ x \in Procs(n)
      /\ \A q \in Procs(n) : q # x => new[q] = num[q]
  BY DEF LuckyApart, LuckyGoes
<1> HIDE DEF new
<1>2. LuckyData(n, new, x)'
  <2>1. Len(entered'[x]) = 0
    BY DEF LuckyApart, LuckyGoes, LuckyData, Entries
  <2>2. Entries(x)' = 0 /\ LuckyKnows(n, new, x)'
    BY DEF Entries, LuckyKnows
  <2> QED BY <1>1, <2>1, <2>2 DEF LuckyData
<1>3. ASSUME NEW q \in Procs(n), q # x PROVE LuckyData(n, new, q)'
  <2>1. LuckyData(n, num, q)'
    BY ONLY <1>3, LuckyApart(n, num, x), LuckyOthers
  <2>2. new[q] = num[q]
    BY <1>1, <1>3
  <2>3. Asks(q)' => at'[q] \notin {"sum", "tell", "ended"}
    <3>1. LuckyData(n, num, q) /\ at'[q] = at[q] /\ program' = program
      BY <1>3 DEF LuckyApart, LuckyGoes
    <3>2. Asks(q)' => Asks(q)
      BY <3>1 DEF Asks
    <3> QED BY <1>1, <3>1, <3>2 DEF LuckyData, LuckyKnows
  <2>4. LuckyKnows(n, num, q)' /\ Asks(q)' => LuckyKnows(n, new, q)'
    BY ONLY <2>3 DEF LuckyKnows
  <2> QED BY ONLY <2>1, <2>2, <2>4 DEF LuckyData
<1>4. LuckyGoes(n, new)'
  BY <1>1, <1>2, <1>3 DEF LuckyGoes
<1> QED BY <1>4

(* Who may leave a reduction it asks about finds the numbers of all.       *)
LEMMA LuckyGiven ==
  ASSUME NEW n, NEW num, LuckyGoes(n, num), Collectives!Processes = Procs(n),
         NEW x \in Procs(n), Asks(x), at[x] \in {"max", "sum", "tell"}, Collectives!Returned(x)
  PROVE  /\ \A q \in Procs(n) : at[q] # "start"
         /\ Collectives!FromAll(x) = num /\ Collectives!Given(x) = Values(n, num)
<1>1. num \in [Procs(n) -> Int] /\ \A q \in Procs(n) : LuckyData(n, num, q)
  BY DEF LuckyGoes
<1>2. waits[x].entry = Procs(n) /\ Len(entered[x]) \in 1..3
  <2>1. LuckyData(n, num, x)
    BY <1>1
  <2> QED BY ONLY <2>1, Asks(x), at[x] \in {"max", "sum", "tell"} DEF LuckyData, LuckyKnows, Entries
<1>3. ASSUME NEW q \in Procs(n)
      PROVE  at[q] # "start" /\ entered[q][Len(entered[x])] = num[q]
  <2>1. Len(entered[q]) >= Len(entered[x])
    BY <1>2, <1>3 DEF Collectives!Returned, Collectives!AllEntered
  <2>2. Len(entered[q]) = Entries(q) /\ \A k \in 1..Len(entered[q]) : entered[q][k] = num[q]
    BY <1>1 DEF LuckyData
  <2>3. Entries(q) \in 0..3 /\ (at[q] = "start" => Entries(q) = 0)
    BY DEF Entries
  <2> HIDE DEF Entries
  <2>4. Len(entered[x]) \in 1..Len(entered[q]) /\ Entries(q) # 0
    <3>1. Len(entered[q]) = Entries(q) /\ Entries(q) \in 0..3
      BY <2>2, <2>3
    <3>2. PICK l : l = Len(entered[x])
      OBVIOUS
    <3>3. PICK e : e = Entries(q)
      OBVIOUS
    <3>4. l \in 1..3 /\ e \in 0..3 /\ e >= l
      BY ONLY <1>2, <2>1, <3>1, <3>2, <3>3
    <3>5. l \in 1..e /\ e # 0
      BY ONLY <3>4
    <3> QED BY ONLY <3>1, <3>2, <3>3, <3>5
  <2> QED BY ONLY <2>2, <2>3, <2>4
<1>4. Collectives!FromAll(x) = num
  <2>1. \A q \in Procs(n) : entered[q][Len(entered[x])] = num[q]
    BY <1>3
  <2>2. Collectives!FromAll(x) = [q \in Procs(n) |-> entered[q][Len(entered[x])]]
    BY DEF Collectives!FromAll
  <2> QED
BY ONLY <1>1, <2>1, <2>2
<1>5. Collectives!Given(x) = Values(n, num)
  BY <1>4 DEF Collectives!Given, Values
<1> QED BY <1>3, <1>4, <1>5

(* One reduction after the other.                                          *)
LuckyReducing(n, num, x, to, d) ==
  /\ LuckyApart(n, num, x) /\ at'[x] = to
  /\ <<at[x], to>> \in {<<"min", "max">>, <<"max", "sum">>, <<"sum", "tell">>}
  /\ local'[x] = d /\ d \in LuckyRecord /\ d.number = num[x]
  /\ Len(entered'[x]) = Len(entered[x]) + 1 /\ entered'[x][Len(entered[x]) + 1] = num[x]
  /\ \A k \in 1..Len(entered[x]) : entered'[x][k] = entered[x][k]
  /\ Asks(x) =>
       /\ waits'[x].entry = Procs(n)
       /\ to # "max" => d.all_min = Least(n, num) /\ \A q \in Procs(n) : at[q] # "start"
       /\ to = "tell" => d.all_max = Greatest(n, num)

(* A process takes part in a reduction.                                    *)
LEMMA LuckyReduces ==
  ASSUME NEW n, NEW num, NEW x, NEW to, NEW d, LuckyReducing(n, num, x, to, d)
  PROVE  LuckyGoes(n, num)'
<1>1. /\ LuckyApart(n, num, x) /\ num \in [Procs(n) -> Int] /\ LuckyData(n, num, x)
      /\ x \in Procs(n) /\ program' = program
  BY DEF LuckyReducing, LuckyApart, LuckyGoes
<1>2. \A q \in Procs(n) : q # x => LuckyData(n, num, q)'
  BY ONLY <1>1, LuckyOthers
<1>3. \A q \in Procs(n) : at[q] # "start" => at'[q] # "start"
  BY DEF LuckyReducing, LuckyApart
<1>4. Len(entered'[x]) = Entries(x)' /\ \A k \in 1..Len(entered'[x]) : entered'[x][k] = num[x]
  <2>1. Len(entered[x]) = Entries(x) /\ Entries(x) \in 0..2 /\ Entries(x)' = Entries(x) + 1
    BY <1>1 DEF LuckyReducing, LuckyData, Entries
  <2>2. /\ Len(entered'[x]) = Len(entered[x]) + 1 /\ entered'[x][Len(entered[x]) + 1] = num[x]
        /\ \A k \in 1..Len(entered[x]) : entered'[x][k] = entered[x][k]
    BY DEF LuckyReducing
  <2>3. \A k \in 1..Len(entered[x]) : entered[x][k] = num[x]
    BY <1>1 DEF LuckyData
  <2> HIDE DEF Entries
  <2>4. \A k \in 1..Len(entered'[x]) : k \in 1..Len(entered[x]) \/ k = Len(entered[x]) + 1
    BY ONLY <2>1, <2>2
  <2> QED BY ONLY <2>1, <2>2, <2>3, <2>4
<1>5. Asks(x)' => LuckyKnows(n, num, x)'
  <2>1. Asks(x)' => Asks(x)
    BY <1>1 DEF Asks
  <2>2. /\ at'[x] = to /\ to \in {"max", "sum", "tell"} /\ local'[x] = d
        /\ Asks(x) =>
             /\ waits'[x].entry = Procs(n)
             /\ to # "max" => d.all_min = Least(n, num) /\ \A q \in Procs(n) : at[q] # "start"
             /\ to = "tell" => d.all_max = Greatest(n, num)
    BY DEF LuckyReducing
  <2> QED BY ONLY <1>3, <2>1, <2>2 DEF LuckyKnows
<1>6. LuckyData(n, num, x)'
  <2>1. local'[x] \in LuckyRecord /\ local'[x].number = num[x]
    BY DEF LuckyReducing
  <2> QED BY ONLY <1>4, <1>5, <2>1 DEF LuckyData
<1> QED BY <1>1, <1>2, <1>6 DEF LuckyGoes

(* ... and the end.                                                        *)
LuckyTelling(n, num, x, d) ==
  /\ LuckyApart(n, num, x) /\ at[x] = "tell" /\ at'[x] = "ended"
  /\ local'[x] = d /\ d \in LuckyRecord /\ d.number = num[x]
  /\ entered'[x] = entered[x]
  /\ Asks(x) =>
       /\ d.all_min = local[x].all_min /\ d.all_max = local[x].all_max /\ d.all_sum = Total(num)
       /\ program = "lucky_number_who" =>
            d.tells = Telling(n, num[x], local[x].all_min, local[x].all_max, Total(num))

(* A process tells what its number is.                                     *)
LEMMA LuckyTells ==
  ASSUME NEW n, NEW num, NEW x, NEW d, LuckyTelling(n, num, x, d)
  PROVE  LuckyGoes(n, num)'
<1>1. /\ LuckyApart(n, num, x) /\ num \in [Procs(n) -> Int] /\ LuckyData(n, num, x)
      /\ x \in Procs(n) /\ program' = program
  BY DEF LuckyTelling, LuckyApart, LuckyGoes
<1>2. \A q \in Procs(n) : q # x => LuckyData(n, num, q)'
  BY ONLY <1>1, LuckyOthers
<1>3. \A q \in Procs(n) : at[q] # "start" => at'[q] # "start"
  BY DEF LuckyTelling, LuckyApart
<1>4. Len(entered'[x]) = Entries(x)' /\ \A k \in 1..Len(entered'[x]) : entered'[x][k] = num[x]
  <2>1. Len(entered[x]) = Entries(x) /\ Entries(x)' = Entries(x)
    BY <1>1 DEF LuckyTelling, LuckyData, Entries
  <2> HIDE DEF Entries
  <2> QED BY <1>1, <2>1 DEF LuckyTelling, LuckyData
<1>5. Asks(x)' => LuckyKnows(n, num, x)'
  <2>1. Asks(x)' => Asks(x) /\ LuckyKnows(n, num, x)
    BY <1>1 DEF Asks, LuckyData
  <2>2. /\ at[x] = "tell" /\ at'[x] = "ended" /\ local'[x] = d
        /\ Asks(x) =>
             /\ d.all_min = local[x].all_min /\ d.all_max = local[x].all_max /\ d.all_sum = Total(num)
             /\ program = "lucky_number_who" =>
                  d.tells = Telling(n, num[x], local[x].all_min, local[x].all_max, Total(num))
    BY DEF LuckyTelling
  <2> QED BY ONLY <1>1, <1>3, <2>1, <2>2 DEF LuckyKnows
<1>6. LuckyData(n, num, x)'
  <2>1. local'[x] \in LuckyRecord /\ local'[x].number = num[x]
    BY DEF LuckyTelling
  <2> QED BY ONLY <1>4, <1>5, <2>1 DEF LuckyData
<1> QED BY <1>1, <1>2, <1>6 DEF LuckyGoes

(* What a step of a process does, in the terms used here.                  *)
LEMMA CollectivesMoves ==
  ASSUME NEW p, NEW from, NEW to, Collectives!Goes(p, from, to)
  PROVE  at[p] = from /\ Collectives!Returned(p) /\ Moves(p, to)
BY DEF Collectives!Goes, Moves

(* A collective call, as the programs of collective calls make it; what    *)
(* is known of it is one thing.                                            *)
Calling(n, M, E, p, what, needed) ==
  /\ Talks(n, M, E) /\ p \in Procs(n) /\ what \in E /\ needed \subseteq Procs(n)
  /\ Collectives!Processes = Procs(n) /\ Collectives!Enters(p, what, needed)

Called(n, M, E, p, what, needed) ==
  /\ Talks(n, M, E)'
  /\ Len(entered[p]) \in Nat /\ Len(entered'[p]) = Len(entered[p]) + 1
  /\ entered'[p][Len(entered[p]) + 1] = what
  /\ \A k \in 1..Len(entered[p]) : entered'[p][k] = entered[p][k]
  /\ \A a \in Procs(n) : a # p => entered'[a] = entered[a]
  /\ waits'[p].receipt = {} /\ needed \subseteq waits'[p].entry /\ waits'[p].entry \subseteq Procs(n)
  /\ \A a \in Procs(n) : a # p => waits'[a] = waits[a]
  /\ mail' = mail

(* A process enters a collective call.                                     *)
LEMMA CollectivesCall ==
  ASSUME NEW n, NEW M, NEW E, NEW p, NEW what, NEW needed, Calling(n, M, E, p, what, needed)
  PROVE  Called(n, M, E, p, what, needed)
<1>1. PICK others \in {needed, Procs(n)} : Calls(p, what, others)
  BY DEF Calling, Collectives!Enters, Calls
<1>2. /\ others \in SUBSET Procs(n) /\ needed \subseteq others /\ p \in Procs(n) /\ what \in E
      /\ Talks(n, M, E)
  BY <1>1 DEF Calling
<1>3. entered[p] \in Seq(E)
  BY <1>2 DEF Talks
<1>4. Len(entered[p]) \in Nat
  BY <1>3, LenProperties
<1>5. /\ Talks(n, M, E)'
      /\ Len(entered'[p]) = Len(entered[p]) + 1
      /\ entered'[p][Len(entered[p]) + 1] = what
      /\ \A k \in 1..Len(entered[p]) : entered'[p][k] = entered[p][k]
      /\ \A a \in Procs(n) : a # p => entered'[a] = entered[a]
      /\ waits'[p].receipt = {} /\ waits'[p].entry = others
      /\ \A a \in Procs(n) : a # p => waits'[a] = waits[a]
      /\ mail' = mail
  BY ONLY <1>1, <1>2, CallsTogether
<1> QED BY ONLY <1>2, <1>4, <1>5 DEF Called

(* A step of a process: what it has to do with others, and with its place. *)
Standing(n, points, R, p, to) ==
  /\ Stands(n, points, R) /\ p \in Procs(n) /\ to \in points /\ Moves(p, to)
  /\ output' = output /\ (local' = local \/ \E data : Keeps(p, data))

(* A process goes on; the others stay where they are.                      *)
LEMMA StandingMoved ==
  ASSUME NEW n, NEW points, NEW R, NEW p, NEW to, Standing(n, points, R, p, to)
  PROVE  /\ Stands(n, points, R)' /\ at'[p] = to
         /\ \A q \in Procs(n) : q # p => at'[q] = at[q] /\ local'[q] = local[q]
         /\ \A data : Keeps(p, data) => local'[p] = data
<1>1. /\ Stands(n, points, R) /\ p \in Procs(n) /\ to \in points /\ Moves(p, to)
      /\ output' = output /\ (local' = local \/ \E data : Keeps(p, data))
  BY DEF Standing
<1>2. /\ Stands(n, points, R)' /\ at'[p] = to
      /\ \A q \in Procs(n) : q # p => at'[q] = at[q]
      /\ \A q \in Procs(n) : q # p => local'[q] = local[q]
  BY ONLY <1>1, StandsMoved
<1>3. \A data : Keeps(p, data) => local'[p] = data
  BY ONLY <1>1, KeepsData
<1> QED BY ONLY <1>2, <1>3

-----------------------------------------------------------------------------
(* What becomes of the data.                                               *)
LEMMA LuckyRecords ==
  ASSUME NEW d, d \in LuckyRecord
  PROVE  /\ \A v \in Int :
              /\ [d EXCEPT !.all_min = v] \in LuckyRecord /\ [d EXCEPT !.all_min = v].number = d.number
              /\ [d EXCEPT !.all_min = v].all_min = v
         /\ \A v \in Int :
              /\ [d EXCEPT !.all_max = v] \in LuckyRecord /\ [d EXCEPT !.all_max = v].number = d.number
              /\ [d EXCEPT !.all_max = v].all_max = v /\ [d EXCEPT !.all_max = v].all_min = d.all_min
         /\ \A v \in Int :
              /\ [d EXCEPT !.all_sum = v] \in LuckyRecord /\ [d EXCEPT !.all_sum = v].number = d.number
              /\ [d EXCEPT !.all_sum = v].all_sum = v /\ [d EXCEPT !.all_sum = v].all_min = d.all_min
              /\ [d EXCEPT !.all_sum = v].all_max = d.all_max
         /\ \A t \in SUBSET LuckyWords :
              /\ [d EXCEPT !.tells = t] \in LuckyRecord /\ [d EXCEPT !.tells = t].number = d.number
              /\ [d EXCEPT !.tells = t].all_sum = d.all_sum /\ [d EXCEPT !.tells = t].all_min = d.all_min
              /\ [d EXCEPT !.tells = t].all_max = d.all_max /\ [d EXCEPT !.tells = t].tells = t
<1>1. \A v \in Int :
        /\ [d EXCEPT !.all_min = v] \in LuckyRecord /\ [d EXCEPT !.all_min = v].number = d.number
        /\ [d EXCEPT !.all_min = v].all_min = v
  BY DEF LuckyRecord
<1>2. \A v \in Int :
        /\ [d EXCEPT !.all_max = v] \in LuckyRecord /\ [d EXCEPT !.all_max = v].number = d.number
        /\ [d EXCEPT !.all_max = v].all_max = v /\ [d EXCEPT !.all_max = v].all_min = d.all_min
  BY DEF LuckyRecord
<1>3. \A v \in Int :
        /\ [d EXCEPT !.all_sum = v] \in LuckyRecord /\ [d EXCEPT !.all_sum = v].number = d.number
        /\ [d EXCEPT !.all_sum = v].all_sum = v /\ [d EXCEPT !.all_sum = v].all_min = d.all_min
        /\ [d EXCEPT !.all_sum = v].all_max = d.all_max
  BY DEF LuckyRecord
<1>4. \A t \in SUBSET LuckyWords :
        /\ [d EXCEPT !.tells = t] \in LuckyRecord /\ [d EXCEPT !.tells = t].number = d.number
        /\ [d EXCEPT !.tells = t].all_sum = d.all_sum /\ [d EXCEPT !.tells = t].all_min = d.all_min
        /\ [d EXCEPT !.tells = t].all_max = d.all_max /\ [d EXCEPT !.tells = t].tells = t
  BY DEF LuckyRecord
<1> QED BY ONLY <1>1, <1>2, <1>3, <1>4

LuckyTo(x, n, num, to, d) ==
  /\ Stands(n, LuckyPoints, Nothing)' /\ LuckyApart(n, num, x) /\ at'[x] = to /\ local'[x] = d

(* A step of the lucky numbers keeps their invariant.                      *)
LEMMA LuckyStep ==
  ASSUME NEW n, LuckyInv(n), NEW p \in Procs(n), program' = program,
         \/ program = "lucky_number_who" /\ Collectives!LuckyWho(p)
         \/ program = "lucky_number_reduce" /\ Collectives!LuckyReduce(p)
  PROVE  LuckyInv(n)'
<1>0. /\ Talks(n, Nothing, Int) /\ Stands(n, LuckyPoints, Nothing)
      /\ {"start", "min", "max", "sum", "tell", "ended"} = LuckyPoints
      /\ Collectives!Count = n /\ Collectives!Processes = Procs(n) /\ n \in Nat \ {0}
      /\ program \in Collectives!Lucky
      /\ Runs(program, n, LuckyPoints, Nothing, Int, Nothing)
  BY CountIs DEF LuckyInv, Runs, LuckyPoints
<1>1. PICK num : LuckyGoes(n, num)
  BY DEF LuckyInv
<1>2. num \in [Procs(n) -> Int] /\ LuckyData(n, num, p)
  BY <1>1 DEF LuckyGoes
<1>3. ASSUME NEW new, LuckyGoes(n, new)', Talks(n, Nothing, Int)', Stands(n, LuckyPoints, Nothing)'
      PROVE  LuckyInv(n)'
  BY <1>0, <1>3 DEF LuckyInv, Runs
<1>4. ASSUME NEW to \in LuckyPoints, to # "start", Moves(p, to), output' = output, NEW d, Keeps(p, d),
             \A q \in Procs(n) : q # p => entered'[q] = entered[q] /\ waits'[q] = waits[q]
      PROVE  LuckyTo(p, n, num, to, d)
  <2>1. Standing(n, LuckyPoints, Nothing, p, to)
    BY ONLY <1>0, <1>4, p \in Procs(n) DEF Standing
  <2>2. /\ Stands(n, LuckyPoints, Nothing)' /\ at'[p] = to
        /\ \A q \in Procs(n) : q # p => at'[q] = at[q] /\ local'[q] = local[q]
        /\ local'[p] = d
    BY ONLY <1>4, <2>1, StandingMoved
  <2> QED BY ONLY <1>1, <1>4, <2>2, program' = program, p \in Procs(n) DEF LuckyTo, LuckyApart
<1>5. CASE \E unknown \in {-1, 0} : Collectives!Draw(p, unknown)
  <2>1. PICK unknown \in {-1, 0}, number \in LuckyNumbers :
          /\ Collectives!Goes(p, "start", "min") /\ output' = output /\ Alone
          /\ Keeps(p, [number |-> number, all_min |-> unknown, all_max |-> unknown,
                       all_sum |-> unknown, tells |-> {}])
    BY <1>5 DEF Collectives!Draw, Collectives!Quietly, Collectives!Computes,
       Collectives!communication, Collectives!Keep, Keeps, Alone
  <2>2. PICK d : /\ d = [number |-> number, all_min |-> unknown, all_max |-> unknown,
                         all_sum |-> unknown, tells |-> {}]
                 /\ Keeps(p, d)
    BY <2>1
  <2>3. d \in LuckyRecord /\ d.number \in Int
    BY <2>2, NumbersAssumption DEF LuckyRecord
  <2>4. at[p] = "start" /\ Moves(p, "min")
    BY <2>1, CollectivesMoves
  <2>5. mail' = mail /\ entered' = entered /\ waits' = waits
    BY <2>1 DEF Alone
  <2>6. LuckyTo(p, n, num, "min", d)
    BY ONLY <1>0, <1>4, <2>1, <2>2, <2>4, <2>5
  <2>7. \E new : LuckyGoes(n, new)'
    BY ONLY <2>3, <2>4, <2>5, <2>6, LuckyDraws DEF LuckyTo
  <2>8. Talks(n, Nothing, Int)'
    BY <1>0, <2>1, StaysAlone
  <2> QED BY <1>3, <2>6, <2>7, <2>8 DEF LuckyTo
<1>6. ASSUME NEW from, NEW to, NEW d, <<from, to>> \in {<<"min", "max">>, <<"max", "sum">>, <<"sum", "tell">>},
             Collectives!Goes(p, from, to), output' = output, Keeps(p, d),
             \/ Collectives!ReducesToAll(p, num[p])
             \/ ~Asks(p) /\ Collectives!Reduces(p, num[p])
             \/ p = 0 /\ Collectives!Reduces(p, num[p]),
             d \in LuckyRecord, d.number = num[p],
             Asks(p) => /\ to # "max" => d.all_min = Least(n, num) /\ \A q \in Procs(n) : at[q] # "start"
                        /\ to = "tell" => d.all_max = Greatest(n, num)
      PROVE  LuckyInv(n)'
  <2>1. PICK needed : /\ needed \subseteq Procs(n) /\ Collectives!Enters(p, num[p], needed)
                      /\ Asks(p) => needed = Procs(n)
    <3>1. CASE Collectives!ReducesToAll(p, num[p])
      BY <1>0, <3>1 DEF Collectives!ReducesToAll
    <3>2. CASE ~Asks(p) /\ Collectives!Reduces(p, num[p])
      BY <1>0, <3>2 DEF Collectives!Reduces
    <3>3. CASE p = 0 /\ Collectives!Reduces(p, num[p])
      BY <1>0, <3>3 DEF Collectives!Reduces
    <3> QED BY <1>6, <3>1, <3>2, <3>3
  <2>2. Calling(n, Nothing, Int, p, num[p], needed)
    BY <1>0, <1>2, <2>1 DEF Calling
  <2>3. Called(n, Nothing, Int, p, num[p], needed)
    BY ONLY <2>2, CollectivesCall
  <2>4. /\ Talks(n, Nothing, Int)'
        /\ \A q \in Procs(n) : q # p => entered'[q] = entered[q] /\ waits'[q] = waits[q]
    BY ONLY <2>3 DEF Called
  <2>5. at[p] = from /\ Moves(p, to) /\ to \in LuckyPoints /\ to # "start"
    BY <1>0, <1>6, CollectivesMoves
  <2>6. LuckyTo(p, n, num, to, d)
    BY ONLY <1>4, <1>6, <2>4, <2>5
  <2>7. LuckyReducing(n, num, p, to, d)
    <3>1. /\ Len(entered'[p]) = Len(entered[p]) + 1 /\ entered'[p][Len(entered[p]) + 1] = num[p]
          /\ \A k \in 1..Len(entered[p]) : entered'[p][k] = entered[p][k]
          /\ Asks(p) => waits'[p].entry = Procs(n)
      BY ONLY <2>1, <2>3 DEF Called
    <3> QED BY ONLY <1>6, <2>5, <2>6, <3>1 DEF LuckyReducing, LuckyTo
  <2>8. LuckyGoes(n, num)'
    BY ONLY <2>7, LuckyReduces
  <2> QED BY ONLY <1>3, <2>4, <2>6, <2>8 DEF LuckyTo
<1>7. ASSUME NEW d, Collectives!Goes(p, "tell", "ended"), output' = output, Keeps(p, d), Alone,
             d \in LuckyRecord, d.number = num[p],
             Asks(p) =>
               /\ d.all_min = local[p].all_min /\ d.all_max = local[p].all_max /\ d.all_sum = Total(num)
               /\ program = "lucky_number_who" =>
                    d.tells = Telling(n, num[p], local[p].all_min, local[p].all_max, Total(num))
      PROVE  LuckyInv(n)'
  <2>1. at[p] = "tell" /\ Moves(p, "ended")
    BY <1>7, CollectivesMoves
  <2>2. mail' = mail /\ entered' = entered /\ waits' = waits
    BY <1>7 DEF Alone
  <2>3. LuckyTo(p, n, num, "ended", d)
    BY ONLY <1>0, <1>4, <1>7, <2>1, <2>2
  <2>4. LuckyTelling(n, num, p, d)
    BY ONLY <1>7, <2>1, <2>2, <2>3 DEF LuckyTo, LuckyTelling
  <2>5. LuckyGoes(n, num)'
    BY ONLY <2>4, LuckyTells
  <2>6. Talks(n, Nothing, Int)'
    BY <1>0, <1>7, StaysAlone
  <2> QED BY ONLY <1>3, <2>3, <2>5, <2>6 DEF LuckyTo
<1>8. /\ at[p] # "start" => local[p] \in LuckyRecord /\ local[p].number = num[p]
      /\ Asks(p) => LuckyKnows(n, num, p)
  BY <1>2 DEF LuckyData
<1>9. ASSUME Asks(p), at[p] \in {"max", "sum", "tell"}, Collectives!Returned(p)
      PROVE  /\ \A q \in Procs(n) : at[q] # "start"
             /\ Collectives!Min(Collectives!Given(p)) = Least(n, num)
             /\ Collectives!Max(Collectives!Given(p)) = Greatest(n, num)
             /\ Collectives!SumFunction(Collectives!FromAll(p)) = Total(num)
  BY ONLY <1>0, <1>1, <1>9, p \in Procs(n), LuckyGiven DEF Least, Greatest, Total
<1>10. Least(n, num) \in Int /\ Greatest(n, num) \in Int /\ Total(num) \in Int
  BY ONLY <1>0, <1>2, Extremes, TotalIs
<1>11. CASE program = "lucky_number_who" /\ Collectives!LuckyWho(p)
  <2>1. Asks(p)
    BY <1>11 DEF Asks
  <2>2. CASE Collectives!Draw(p, -1)
    BY <1>5, <2>2
  <2>3. CASE Collectives!Reduction(p, "min", "max", local[p], Collectives!ReducesToAll(p, Collectives!Number(p)))
    <3>1. /\ Collectives!Goes(p, "min", "max") /\ Keeps(p, local[p]) /\ output' = output
          /\ Collectives!ReducesToAll(p, local[p].number)
      BY <2>3 DEF Collectives!Reduction, Collectives!Keep, Keeps, Collectives!Quietly, Collectives!Number
    <3>2. local[p] \in LuckyRecord /\ local[p].number = num[p]
      BY <1>8, <3>1, CollectivesMoves
    <3>3. Collectives!ReducesToAll(p, num[p])
      BY <3>1, <3>2
    <3> QED BY ONLY <1>6, <3>1, <3>2, <3>3
  <2>4. CASE Collectives!Reduction(p, "max", "sum", [local[p] EXCEPT !.all_min = Collectives!Min(Collectives!Given(p))],
               Collectives!ReducesToAll(p, Collectives!Number(p)))
    <3>1. /\ Collectives!Goes(p, "max", "sum") /\ output' = output
          /\ Keeps(p, [local[p] EXCEPT !.all_min = Collectives!Min(Collectives!Given(p))])
          /\ Collectives!ReducesToAll(p, local[p].number)
      BY <2>4 DEF Collectives!Reduction, Collectives!Keep, Keeps, Collectives!Quietly, Collectives!Number
    <3>2. at[p] = "max" /\ Collectives!Returned(p)
      BY <3>1, CollectivesMoves
    <3>3. local[p] \in LuckyRecord /\ local[p].number = num[p]
      BY <1>8, <3>2
    <3>4. /\ Collectives!Min(Collectives!Given(p)) = Least(n, num)
          /\ \A q \in Procs(n) : at[q] # "start"
      BY ONLY <1>9, <2>1, <3>2
    <3>5. PICK d : d = [local[p] EXCEPT !.all_min = Least(n, num)]
      OBVIOUS
    <3>6. d \in LuckyRecord /\ d.number = num[p] /\ d.all_min = Least(n, num)
      BY ONLY <1>10, <3>3, <3>5, LuckyRecords
    <3>7. Keeps(p, d) /\ Collectives!ReducesToAll(p, num[p])
      BY <3>1, <3>3, <3>4, <3>5
    <3> QED BY ONLY <1>6, <3>1, <3>4, <3>6, <3>7
  <2>5. CASE Collectives!Reduction(p, "sum", "tell", [local[p] EXCEPT !.all_max = Collectives!Max(Collectives!Given(p))],
               Collectives!ReducesToAll(p, Collectives!Number(p)))
    <3>1. /\ Collectives!Goes(p, "sum", "tell") /\ output' = output
          /\ Keeps(p, [local[p] EXCEPT !.all_max = Collectives!Max(Collectives!Given(p))])
          /\ Collectives!ReducesToAll(p, local[p].number)
      BY <2>5 DEF Collectives!Reduction, Collectives!Keep, Keeps, Collectives!Quietly, Collectives!Number
    <3>2. at[p] = "sum" /\ Collectives!Returned(p)
      BY <3>1, CollectivesMoves
    <3>3. local[p] \in LuckyRecord /\ local[p].number = num[p] /\ local[p].all_min = Least(n, num)
      BY <1>8, <2>1, <3>2 DEF LuckyKnows
    <3>4. /\ Collectives!Max(Collectives!Given(p)) = Greatest(n, num)
          /\ \A q \in Procs(n) : at[q] # "start"
      BY ONLY <1>9, <2>1, <3>2
    <3>5. PICK d : d = [local[p] EXCEPT !.all_max = Greatest(n, num)]
      OBVIOUS
    <3>6. d \in LuckyRecord /\ d.number = num[p] /\ d.all_min = Least(n, num) /\ d.all_max = Greatest(n, num)
      BY ONLY <1>10, <3>3, <3>5, LuckyRecords
    <3>7. Keeps(p, d) /\ Collectives!ReducesToAll(p, num[p])
      BY <3>1, <3>3, <3>4, <3>5
    <3> QED BY ONLY <1>6, <3>1, <3>4, <3>6, <3>7
  <2>6. CASE Collectives!Reduction(p, "tell", "ended",
               [local[p] EXCEPT !.all_sum = Collectives!SumFunction(Collectives!FromAll(p)),
                  !.tells = Collectives!Statements(Collectives!Number(p), local[p].all_min, local[p].all_max,
                                                   Collectives!SumFunction(Collectives!FromAll(p)))],
               Collectives!Computes)
    <3>1. /\ Collectives!Goes(p, "tell", "ended") /\ output' = output /\ Alone
          /\ Keeps(p, [local[p] EXCEPT !.all_sum = Collectives!SumFunction(Collectives!FromAll(p)),
                  !.tells = Collectives!Statements(local[p].number, local[p].all_min, local[p].all_max,
                                                   Collectives!SumFunction(Collectives!FromAll(p)))])
      BY <2>6 DEF Collectives!Reduction, Collectives!Keep, Keeps, Collectives!Quietly, Collectives!Number,
         Collectives!Computes, Collectives!communication, Alone
    <3>2. at[p] = "tell" /\ Collectives!Returned(p)
      BY <3>1, CollectivesMoves
    <3>3. local[p] \in LuckyRecord /\ local[p].number = num[p]
      BY <1>8, <3>2
    <3>4. Collectives!SumFunction(Collectives!FromAll(p)) = Total(num)
      BY ONLY <1>9, <2>1, <3>2
    <3>5. PICK t : t = Telling(n, num[p], local[p].all_min, local[p].all_max, Total(num))
      OBVIOUS
    <3>6. t \in SUBSET LuckyWords
      BY <3>5 DEF Telling, LuckyWords
    <3>7. Collectives!Statements(local[p].number, local[p].all_min, local[p].all_max, Total(num)) = t
      BY <1>0, <3>3, <3>5 DEF Collectives!Statements, Telling
    <3>8. PICK first : first = [local[p] EXCEPT !.all_sum = Total(num)]
      OBVIOUS
    <3>9. PICK d : d = [first EXCEPT !.tells = t]
      OBVIOUS
    <3>10. /\ first \in LuckyRecord /\ first.number = num[p] /\ first.all_sum = Total(num)
           /\ first.all_min = local[p].all_min /\ first.all_max = local[p].all_max
      BY ONLY <1>10, <3>3, <3>8, LuckyRecords
    <3>11. /\ d \in LuckyRecord /\ d.number = num[p] /\ d.all_sum = Total(num) /\ d.tells = t
           /\ d.all_min = local[p].all_min /\ d.all_max = local[p].all_max
      BY ONLY <3>6, <3>9, <3>10, LuckyRecords
    <3>12. Keeps(p, d)
      BY <3>1, <3>4, <3>7, <3>8, <3>9
    <3> QED BY ONLY <1>7, <3>1, <3>5, <3>11, <3>12
  <2> QED BY ONLY <1>11, <2>2, <2>3, <2>4, <2>5, <2>6 DEF Collectives!LuckyWho
<1>12. CASE program = "lucky_number_reduce" /\ Collectives!LuckyReduce(p)
  <2>1. Asks(p) <=> p = 0
    BY <1>12 DEF Asks
  <2>2. CASE Collectives!Draw(p, 0)
    BY <1>5, <2>2
  <2>3. CASE Collectives!Reduction(p, "min", "max", local[p], Collectives!Reduces(p, Collectives!Number(p)))
    <3>1. /\ Collectives!Goes(p, "min", "max") /\ Keeps(p, local[p]) /\ output' = output
          /\ Collectives!Reduces(p, local[p].number)
      BY <2>3 DEF Collectives!Reduction, Collectives!Keep, Keeps, Collectives!Quietly, Collectives!Number
    <3>2. local[p] \in LuckyRecord /\ local[p].number = num[p]
      BY <1>8, <3>1, CollectivesMoves
    <3>3. Collectives!Reduces(p, num[p])
      BY <3>1, <3>2
    <3> QED BY ONLY <1>6, <2>1, <3>1, <3>2, <3>3
  <2>4. CASE Collectives!Reduction(p, "max", "sum",
               [local[p] EXCEPT !.all_min = IF p = 0 THEN Collectives!Min(Collectives!Given(p)) ELSE 0],
               Collectives!Reduces(p, Collectives!Number(p)))
    <3>1. /\ Collectives!Goes(p, "max", "sum") /\ output' = output
          /\ Keeps(p, [local[p] EXCEPT !.all_min = IF p = 0 THEN Collectives!Min(Collectives!Given(p)) ELSE 0])
          /\ Collectives!Reduces(p, local[p].number)
      BY <2>4 DEF Collectives!Reduction, Collectives!Keep, Keeps, Collectives!Quietly, Collectives!Number
    <3>2. at[p] = "max" /\ Collectives!Returned(p)
      BY <3>1, CollectivesMoves
    <3>3. local[p] \in LuckyRecord /\ local[p].number = num[p]
      BY <1>8, <3>2
    <3>4. p = 0 => /\ Collectives!Min(Collectives!Given(p)) = Least(n, num)
                   /\ \A q \in Procs(n) : at[q] # "start"
      BY ONLY <1>9, <2>1, <3>2
    <3>5. PICK v \in Int : v = IF p = 0 THEN Least(n, num) ELSE 0
      BY <1>10
    <3>6. PICK d : d = [local[p] EXCEPT !.all_min = v]
      OBVIOUS
    <3>7. d \in LuckyRecord /\ d.number = num[p] /\ d.all_min = v
      BY ONLY <3>3, <3>5, <3>6, LuckyRecords
    <3>8. Keeps(p, d) /\ Collectives!Reduces(p, num[p])
      BY <3>1, <3>3, <3>4, <3>5, <3>6
    <3>9. Asks(p) => d.all_min = Least(n, num) /\ \A q \in Procs(n) : at[q] # "start"
      BY ONLY <2>1, <3>4, <3>5, <3>7
    <3> QED BY ONLY <1>6, <2>1, <3>1, <3>7, <3>8, <3>9
  <2>5. CASE Collectives!Reduction(p, "sum", "tell",
               [local[p] EXCEPT !.all_max = IF p = 0 THEN Collectives!Max(Collectives!Given(p)) ELSE 0],
               Collectives!Reduces(p, Collectives!Number(p)))
    <3>1. /\ Collectives!Goes(p, "sum", "tell") /\ output' = output
          /\ Keeps(p, [local[p] EXCEPT !.all_max = IF p = 0 THEN Collectives!Max(Collectives!Given(p)) ELSE 0])
          /\ Collectives!Reduces(p, local[p].number)
      BY <2>5 DEF Collectives!Reduction, Collectives!Keep, Keeps, Collectives!Quietly, Collectives!Number
    <3>2. at[p] = "sum" /\ Collectives!Returned(p)
      BY <3>1, CollectivesMoves
    <3>3. /\ local[p] \in LuckyRecord /\ local[p].number = num[p]
          /\ Asks(p) => local[p].all_min = Least(n, num)
      BY <1>8, <3>2 DEF LuckyKnows
    <3>4. p = 0 => /\ Collectives!Max(Collectives!Given(p)) = Greatest(n, num)
                   /\ \A q \in Procs(n) : at[q] # "start"
      BY ONLY <1>9, <2>1, <3>2
    <3>5. PICK v \in Int : v = IF p = 0 THEN Greatest(n, num) ELSE 0
      BY <1>10
    <3>6. PICK d : d = [local[p] EXCEPT !.all_max = v]
      OBVIOUS
    <3>7. d \in LuckyRecord /\ d.number = num[p] /\ d.all_max = v /\ d.all_min = local[p].all_min
      BY ONLY <3>3, <3>5, <3>6, LuckyRecords
    <3>8. Keeps(p, d) /\ Collectives!Reduces(p, num[p])
      BY <3>1, <3>3, <3>4, <3>5, <3>6
    <3>9. Asks(p) => /\ d.all_min = Least(n, num) /\ d.all_max = Greatest(n, num)
                     /\ \A q \in Procs(n) : at[q] # "start"
      BY ONLY <2>1, <3>3, <3>4, <3>5, <3>7
    <3> QED BY ONLY <1>6, <2>1, <3>1, <3>7, <3>8, <3>9
  <2>6. CASE Collectives!Reduction(p, "tell", "ended",
               [local[p] EXCEPT !.all_sum = IF p = 0 THEN Collectives!SumFunction(Collectives!FromAll(p)) ELSE 0],
               Collectives!Computes)
    <3>1. /\ Collectives!Goes(p, "tell", "ended") /\ output' = output /\ Alone
          /\ Keeps(p, [local[p] EXCEPT !.all_sum = IF p = 0 THEN Collectives!SumFunction(Collectives!FromAll(p)) ELSE 0])
      BY <2>6 DEF Collectives!Reduction, Collectives!Keep, Keeps, Collectives!Quietly,
         Collectives!Computes, Collectives!communication, Alone
    <3>2. at[p] = "tell" /\ Collectives!Returned(p)
      BY <3>1, CollectivesMoves
    <3>3. local[p] \in LuckyRecord /\ local[p].number = num[p]
      BY <1>8, <3>2
    <3>4. p = 0 => Collectives!SumFunction(Collectives!FromAll(p)) = Total(num)
      BY ONLY <1>9, <2>1, <3>2
    <3>5. PICK v \in Int : v = IF p = 0 THEN Total(num) ELSE 0
      BY <1>10
    <3>6. PICK d : d = [local[p] EXCEPT !.all_sum = v]
      OBVIOUS
    <3>7. /\ d \in LuckyRecord /\ d.number = num[p] /\ d.all_sum = v
          /\ d.all_min = local[p].all_min /\ d.all_max = local[p].all_max
      BY ONLY <3>3, <3>5, <3>6, LuckyRecords
    <3>8. Keeps(p, d)
      BY <3>1, <3>4, <3>5, <3>6
    <3>9. Asks(p) => d.all_sum = Total(num) /\ program # "lucky_number_who"
      BY <1>12, <2>1, <3>5, <3>7
    <3> QED BY ONLY <1>7, <3>1, <3>7, <3>8, <3>9
  <2> QED BY <1>12, <2>2, <2>3, <2>4, <2>5, <2>6 DEF Collectives!LuckyReduce
<1> QED BY <1>11, <1>12

-----------------------------------------------------------------------------
(* The division of work: Part(k, size, w) is where the part of worker k of *)
(* w workers begins, and its end is where the next one begins.             *)
Part(k, size, w) == k * (size \div w) + (IF k <= size % w THEN k ELSE size % w)

(* Division with a remainder.                                              *)
LEMMA Euclid ==
  ASSUME NEW m \in Nat, NEW d \in Nat \ {0}
  PROVE  \E q, r \in Nat : q = m \div d /\ r = m % d /\ r < d /\ m = d * q + r
<1>1. m \div d \in Int /\ m % d \in Int
  OBVIOUS
<1>2. PICK q, r \in Int : q = m \div d /\ r = m % d
  BY <1>1
<1>3. m = d * q + r
  BY ONLY <1>2, m \in Nat, d \in Nat \ {0}, Z3
<1>4. m \div d >= 0
  BY Z3
<1>5. 0 <= m % d /\ m % d < d
  BY Z3
<1>6. q \in Nat /\ r \in Nat /\ r < d /\ m = d * q + r
  <2>1. q >= 0 /\ r >= 0 /\ r < d
    BY ONLY <1>2, <1>4, <1>5
  <2> QED BY ONLY <1>3, <2>1, q \in Int, r \in Int
<1> QED BY ONLY <1>2, <1>6

(* Multiplication keeps the order.                                         *)
LEMMA Monotone ==
  ASSUME NEW a \in Int, NEW b \in Int, NEW q \in Nat, a <= b
  PROVE  a * q <= b * q
<1>1. PICK d \in Nat : b = a + d
  BY b - a \in Nat, b = a + (b - a)
<1>2. b * q = a * q + d * q /\ d * q >= 0
  BY <1>1
<1> QED BY <1>2

(* The parts start at 0, end at the size, and each is the quotient long or *)
(* one longer.                                                             *)
LEMMA PartIs ==
  ASSUME NEW size \in Nat, NEW w \in Nat \ {0}
  PROVE  /\ \A k \in Nat : Part(k, size, w) \in Nat
         /\ Part(0, size, w) = 0 /\ Part(w, size, w) = size
         /\ \A k \in Nat : Part(k + 1, size, w) =
                Part(k, size, w) + (size \div w) + (IF k < size % w THEN 1 ELSE 0)
         /\ size \div w \in Nat
<1>1. PICK q, r \in Nat : q = size \div w /\ r = size % w /\ r < w /\ size = w * q + r
  BY ONLY Euclid, size \in Nat, w \in Nat \ {0}
<1>2. \A k : Part(k, size, w) = k * q + (IF k <= r THEN k ELSE r)
  BY ONLY <1>1 DEF Part
<1>3. ASSUME NEW k \in Nat PROVE k * q \in Nat /\ (k + 1) * q = k * q + q
  BY ONLY q \in Nat, k \in Nat
<1>4. ASSUME NEW k \in Nat
      PROVE  /\ Part(k, size, w) \in Nat
             /\ Part(k + 1, size, w) = Part(k, size, w) + q + (IF k < r THEN 1 ELSE 0)
  <2>1. PICK x \in Nat : x = k * q /\ (k + 1) * q = x + q
    BY <1>3
  <2>2. Part(k, size, w) = x + (IF k <= r THEN k ELSE r)
    BY ONLY <1>2, <2>1
  <2>3. Part(k + 1, size, w) = (x + q) + (IF k + 1 <= r THEN k + 1 ELSE r)
    BY ONLY <1>2, <2>1
  <2> QED BY ONLY <2>2, <2>3, x \in Nat, q \in Nat, r \in Nat, k \in Nat
<1>5. Part(0, size, w) = 0
  BY ONLY <1>2, q \in Nat, r \in Nat
<1>6. Part(w, size, w) = size
  <2>1. Part(w, size, w) = w * q + r
    BY ONLY <1>1, <1>2, w \in Nat, r \in Nat
  <2> QED BY ONLY <1>1, <2>1
<1> QED BY ONLY <1>1, <1>4, <1>5, <1>6

(* Every piece of the work is in the part of one worker.                   *)
InPart(i, k, size, w) == Part(k, size, w) <= i /\ i < Part(k + 1, size, w)

(* The parts come one after the other.                                     *)
LEMMA PartsGrow ==
  ASSUME NEW size \in Nat, NEW w \in Nat \ {0}, NEW a \in Nat, NEW b \in Nat, a <= b
  PROVE  Part(a, size, w) <= Part(b, size, w)
<1>1. PICK q, r \in Nat : q = size \div w /\ r = size % w
  BY ONLY Euclid, size \in Nat, w \in Nat \ {0}
<1>2. \A k : Part(k, size, w) = k * q + (IF k <= r THEN k ELSE r)
  BY ONLY <1>1 DEF Part
<1>3. a * q <= b * q /\ a * q \in Nat /\ b * q \in Nat
  BY ONLY a \in Nat, b \in Nat, q \in Nat, a <= b, Monotone
<1>4. PICK x, y \in Nat : x = a * q /\ y = b * q /\ x <= y
  BY <1>3
<1>5. Part(a, size, w) = x + (IF a <= r THEN a ELSE r) /\ Part(b, size, w) = y + (IF b <= r THEN b ELSE r)
  BY ONLY <1>2, <1>4
<1> QED BY ONLY <1>4, <1>5, a \in Nat, b \in Nat, r \in Nat, a <= b

(* Every number is in one part, and in no other.                           *)
LEMMA PartsOnce ==
  ASSUME NEW size \in Nat, NEW w \in Nat \ {0}, NEW i \in 0..size - 1
  PROVE  \E k \in 0..w - 1 : \A j \in 0..w - 1 : InPart(i, j, size, w) <=> j = k
<1> DEFINE Known == {k \in Nat : i < Part(k, size, w) => \E j \in 0..k - 1 : InPart(i, j, size, w)}
<1>0. /\ \A k \in Nat : Part(k, size, w) \in Nat
      /\ Part(0, size, w) = 0 /\ Part(w, size, w) = size
  BY PartIs
<1>1. 0 \in Known
  BY <1>0
<1>2. ASSUME NEW k \in Nat, k \in Known PROVE k + 1 \in Known
  <2>1. CASE i < Part(k, size, w)
    <3>1. PICK j \in 0..k - 1 : InPart(i, j, size, w)
      BY <1>2, <2>1
    <3> QED BY <3>1, j \in 0..(k + 1) - 1
  <2>2. CASE ~(i < Part(k, size, w))
    <3>1. i < Part(k + 1, size, w) => InPart(i, k, size, w)
      BY <1>0, <2>2 DEF InPart
    <3> QED BY <3>1, k \in 0..(k + 1) - 1
  <2> QED BY <2>1, <2>2
<1> HIDE DEF Known
<1>3. w \in Known
  BY <1>1, <1>2, Induction
<1>4. PICK k \in 0..w - 1 : InPart(i, k, size, w)
  BY <1>0, <1>3 DEF Known
<1>5. ASSUME NEW j \in 0..w - 1, InPart(i, j, size, w) PROVE j = k
  <2>0. /\ Part(j, size, w) \in Nat /\ Part(k, size, w) \in Nat
        /\ Part(j + 1, size, w) \in Nat /\ Part(k + 1, size, w) \in Nat
    BY <1>0
  <2>1. ~(j < k)
    <3> SUFFICES ASSUME j < k PROVE FALSE
      OBVIOUS
    <3>1. Part(j + 1, size, w) <= Part(k, size, w)
      <4>1. PICK c \in Nat : c = j + 1 /\ c <= k
        OBVIOUS
      <4>2. Part(c, size, w) <= Part(k, size, w)
        BY ONLY <4>1, size \in Nat, w \in Nat \ {0}, k \in 0..w - 1, PartsGrow
      <4> QED BY <4>1, <4>2
    <3> QED BY ONLY <1>4, <1>5, <2>0, <3>1, i \in 0..size - 1 DEF InPart
  <2>2. ~(k < j)
    <3> SUFFICES ASSUME k < j PROVE FALSE
      OBVIOUS
    <3>1. Part(k + 1, size, w) <= Part(j, size, w)
      <4>1. PICK c \in Nat : c = k + 1 /\ c <= j
        OBVIOUS
      <4>2. Part(c, size, w) <= Part(j, size, w)
        BY ONLY <4>1, size \in Nat, w \in Nat \ {0}, j \in 0..w - 1, PartsGrow
      <4> QED BY <4>1, <4>2
    <3> QED BY ONLY <1>4, <1>5, <2>0, <3>1, i \in 0..size - 1 DEF InPart
  <2> QED BY <2>1, <2>2
<1> QED BY <1>4, <1>5

(* The modules of the programs divide like that.                           *)
LEMMA HybridParts ==
  ASSUME NEW k \in Nat, NEW begin \in Int, NEW end \in Int, begin <= end, NEW w \in Nat \ {0}
  PROVE  /\ Collectives!calculate_start(k, end, w, begin) = Part(k, end - begin, w)
         /\ Collectives!calculate_finish(k, end, w, begin) = Part(k + 1, end - begin, w)
<1>1. ASSUME NEW a \in Nat, NEW b \in Nat PROVE Collectives!Min({a, b}) = IF a <= b THEN a ELSE b
  <2>1. Collectives!Min({a, b}) = CHOOSE x \in {a, b} : \A y \in {a, b} : x <= y
    BY DEF Collectives!Min
  <2>2. \E x \in {a, b} : \A y \in {a, b} : x <= y
    <3>1. a <= b \/ b <= a
      OBVIOUS
    <3> QED BY <3>1
  <2>3. \A x \in {a, b} : (\A y \in {a, b} : x <= y) => x = IF a <= b THEN a ELSE b
    OBVIOUS
  <2> QED BY ONLY <2>1, <2>2, <2>3
<1>2. PICK size \in Nat : size = end - begin
  OBVIOUS
<1>3. size % w \in Nat
  <2>1. \E q, r \in Nat : q = size \div w /\ r = size % w
    BY ONLY size \in Nat, w \in Nat \ {0}, Euclid
  <2> QED BY ONLY <2>1
<1>4. \A j \in Nat : Collectives!calculate_start(j, end, w, begin) = Part(j, size, w)
  BY ONLY <1>1, <1>2, <1>3 DEF Collectives!calculate_start, Part
<1>5. Collectives!calculate_start(k + 1, end, w, begin) = Part(k + 1, size, w)
  BY ONLY <1>4, k \in Nat
<1> QED BY ONLY <1>2, <1>4, <1>5, k \in Nat DEF Collectives!calculate_finish

(* The processes of the programs of collective calls start.                *)
LEMMA CollectivesStart ==
  ASSUME Collectives!Init
  PROVE  \E n \in CountsOf[program] : n \in Nat \ {0} /\ Started(n)
<1>1. PICK count \in CountsOf[program] : Collectives!Starts(count)
  BY DEF Collectives!Init
<1>2. program \in Messages!Programs \cup Collectives!Programs
  BY DEF Collectives!Init
<1>3. count \in 1..MostProcesses /\ MostProcesses \in Nat
  BY <1>1, <1>2, CountsAssumption
<1>4. Started(count)
  BY <1>1 DEF Collectives!Starts, Started, Procs
<1> QED BY <1>1, <1>3, <1>4

(* The lucky numbers start in their invariant ...                          *)
LEMMA LuckyBegins ==
  ASSUME NEW n \in Nat \ {0}, n \in CountsOf[program], Started(n), program \in Collectives!Lucky
  PROVE  LuckyInv(n)
<1>1. "start" \in LuckyPoints
  BY DEF LuckyPoints
<1>2. /\ Talks(n, Nothing, Int) /\ Stands(n, LuckyPoints, Nothing)
      /\ \A p \in Procs(n) : at[p] = "start" /\ entered[p] = <<>>
  BY ONLY <1>1, Started(n), StartedTalks
<1>3. PICK num : num = [p \in Procs(n) |-> 0]
  OBVIOUS
<1>4. num \in [Procs(n) -> Int]
  BY <1>3
<1>5. ASSUME NEW p \in Procs(n) PROVE LuckyData(n, num, p)
  <2>1. Entries(p) = 0 /\ LuckyKnows(n, num, p)
    BY <1>2 DEF Entries, LuckyKnows
  <2>2. Len(entered[p]) = 0
    BY <1>2, EmptySeq
  <2> QED BY <1>2, <2>1, <2>2 DEF LuckyData
<1> QED BY <1>2, <1>4, <1>5 DEF LuckyInv, LuckyGoes, Runs

(* ... and keep it while nothing happens.                                  *)
LEMMA LuckyStutter ==
  ASSUME NEW n, LuckyInv(n), UNCHANGED programVars
  PROVE  LuckyInv(n)'
<1>0. /\ program' = program /\ input' = input /\ at' = at /\ local' = local /\ mail' = mail
      /\ entered' = entered /\ waits' = waits /\ output' = output
  BY DEF programVars
<1>1. Runs(program, n, LuckyPoints, Nothing, Int, Nothing)'
  BY <1>0 DEF LuckyInv, Runs, Talks, Stands
<1>2. \A num : LuckyGoes(n, num) => LuckyGoes(n, num)'
  BY <1>0 DEF LuckyGoes, LuckyData, LuckyKnows, Entries, Asks
<1> QED BY <1>0, <1>1, <1>2 DEF LuckyInv

(* What is said of the numbers follows from what the processes know.       *)
LEMMA LuckyTypes ==
  ASSUME NEW n, LuckyInv(n)
  PROVE  \A p \in Collectives!Processes : at[p] # "start" =>
           local[p].number \in LuckyNumbers /\ local[p].tells \subseteq LuckyWords
<1>1. PICK num : LuckyGoes(n, num)
  BY DEF LuckyInv
<1>2. Collectives!Processes = Procs(n)
  BY CountIs DEF LuckyInv
<1>3. \A p \in Procs(n) : at[p] # "start" => local[p] \in LuckyRecord
  BY <1>1 DEF LuckyGoes, LuckyData
<1>4. \A d \in LuckyRecord : d.number \in LuckyNumbers /\ d.tells \subseteq LuckyWords
  BY DEF LuckyRecord
<1> QED BY ONLY <1>2, <1>3, <1>4

(* What a process tells of its number.                                     *)
LEMMA TellingIs ==
  ASSUME NEW n, NEW number, NEW min, NEW max, NEW sum
  PROVE  /\ "minimum" \in Telling(n, number, min, max, sum) <=> number = min
         /\ "maximum" \in Telling(n, number, min, max, sum) <=> number = max
         /\ "less" \in Telling(n, number, min, max, sum) <=> number * n < sum
         /\ "greater" \in Telling(n, number, min, max, sum) <=> ~(number * n < sum) /\ number * n > sum
BY DEF Telling

(* The statistics that are told are right.                                 *)
LEMMA LuckyMeans ==
  ASSUME NEW n, LuckyInv(n)
  PROVE  Collectives!StatisticsRight
<1>0. /\ Collectives!Processes = Procs(n) /\ n \in Nat \ {0}
      /\ \A p \in Procs(n) : at[p] \in LuckyPoints
  BY CountIs, RunsTypes DEF LuckyInv, Runs
<1> SUFFICES ASSUME Collectives!AllEnded
             PROVE  LET numbers == [p \in Collectives!Processes |-> Collectives!Number(p)]
                        least == Collectives!Min(Collectives!Range(numbers))
                        greatest == Collectives!Max(Collectives!Range(numbers))
                        Tell(what) == {p \in Collectives!Processes : what \in local[p].tells} IN
                    /\ local[0].all_min = least /\ local[0].all_max = greatest
                    /\ local[0].all_sum = Collectives!SumFunction(numbers)
                    /\ program = "lucky_number_who" =>
                         /\ Tell("minimum") = {p \in Collectives!Processes : Collectives!Number(p) = least}
                         /\ Tell("maximum") = {p \in Collectives!Processes : Collectives!Number(p) = greatest}
                         /\ Tell("less") = {} <=> least = greatest
                         /\ Tell("minimum") \cap Tell("greater") = {}
  BY DEF Collectives!StatisticsRight
<1>1. PICK num : LuckyGoes(n, num)
  BY DEF LuckyInv
<1>2. num \in [Procs(n) -> Int] /\ \A p \in Procs(n) : LuckyData(n, num, p)
  BY <1>1 DEF LuckyGoes
<1>3. \A p \in Procs(n) : at[p] = "ended"
  BY <1>0 DEF Collectives!AllEnded, Collectives!Ended, LuckyPoints
<1>4. \A p \in Procs(n) : local[p].number = num[p]
  BY <1>2, <1>3 DEF LuckyData
<1>5. ASSUME NEW p \in Procs(n), Asks(p)
      PROVE  /\ local[p].all_min = Least(n, num) /\ local[p].all_max = Greatest(n, num)
             /\ local[p].all_sum = Total(num)
             /\ program = "lucky_number_who" =>
                  local[p].tells = Telling(n, num[p], Least(n, num), Greatest(n, num), Total(num))
  <2>1. LuckyData(n, num, p) /\ at[p] = "ended"
    BY <1>2, <1>3
  <2> QED BY ONLY <1>5, <2>1 DEF LuckyData, LuckyKnows
<1>6. [p \in Collectives!Processes |-> Collectives!Number(p)] = num
  BY ONLY <1>0, <1>2, <1>4 DEF Collectives!Number
<1>7. Collectives!Range(num) = Values(n, num)
  BY <1>2 DEF Collectives!Range, Values
<1>8. 0 \in Procs(n) /\ Asks(0)
  BY <1>0 DEF Procs, Asks
<1>9. /\ local[0].all_min = Least(n, num) /\ local[0].all_max = Greatest(n, num)
      /\ local[0].all_sum = Total(num)
  BY ONLY <1>5, <1>8
<1>10. ASSUME program = "lucky_number_who", NEW p \in Procs(n)
       PROVE  /\ "minimum" \in local[p].tells <=> num[p] = Least(n, num)
              /\ "maximum" \in local[p].tells <=> num[p] = Greatest(n, num)
              /\ "less" \in local[p].tells <=> num[p] * n < Total(num)
              /\ "greater" \in local[p].tells <=> ~(num[p] * n < Total(num)) /\ num[p] * n > Total(num)
  <2>1. Asks(p)
    BY <1>10 DEF Asks
  <2>2. local[p].tells = Telling(n, num[p], Least(n, num), Greatest(n, num), Total(num))
    BY ONLY <1>5, <1>10, <2>1
  <2> QED BY ONLY <2>2, TellingIs
<1>11. PICK low, high, total \in Int :
         /\ low = Least(n, num) /\ high = Greatest(n, num) /\ total = Total(num)
         /\ n * low <= total /\ total <= n * high
         /\ total = n * low => \A q \in Procs(n) : num[q] = low
         /\ \A q \in Procs(n) : low <= num[q] /\ num[q] <= high
         /\ \E q \in Procs(n) : num[q] = low
         /\ \E q \in Procs(n) : num[q] = high
  <2>1. /\ Least(n, num) \in Int /\ Greatest(n, num) \in Int /\ Total(num) \in Int
        /\ n * Least(n, num) <= Total(num) /\ Total(num) <= n * Greatest(n, num)
        /\ Total(num) = n * Least(n, num) => \A q \in Procs(n) : num[q] = Least(n, num)
        /\ \A q \in Procs(n) : Least(n, num) <= num[q] /\ num[q] <= Greatest(n, num)
        /\ Least(n, num) \in Values(n, num) /\ Greatest(n, num) \in Values(n, num)
    BY ONLY <1>0, <1>2, Extremes, TotalIs
  <2>2. /\ \E q \in Procs(n) : num[q] = Least(n, num)
        /\ \E q \in Procs(n) : num[q] = Greatest(n, num)
    BY <2>1 DEF Values
  <2> QED BY ONLY <2>1, <2>2
<1>12. (\A p \in Procs(n) : ~(num[p] * n < total)) <=> low = high
  <2>1. ASSUME \A p \in Procs(n) : ~(num[p] * n < total) PROVE low = high
    <3>1. PICK q \in Procs(n) : num[q] = low
      BY <1>11
    <3>2. ~(low * n < total)
      BY <2>1, <3>1
    <3>3. total = n * low
      BY ONLY <1>0, <1>11, <3>2, low \in Int, total \in Int, n * low = low * n, n * low \in Int
    <3>4. \A r \in Procs(n) : num[r] = low
      BY <1>11, <3>3
    <3> QED BY ONLY <1>11, <3>4
  <2>2. ASSUME low = high, NEW p \in Procs(n) PROVE ~(num[p] * n < total)
    <3>1. num[p] = low
      BY ONLY <1>2, <1>11, <2>2, low \in Int, high \in Int
    <3>2. total <= n * low /\ n * low = low * n /\ n * low \in Int
      BY ONLY <1>0, <1>11, <2>2, low \in Int
    <3> QED BY ONLY <3>1, <3>2, total \in Int
  <2> QED BY <2>1, <2>2
<1>13. \A p \in Procs(n) : num[p] = low => ~(num[p] * n > total)
  <2>1. n * low = low * n /\ n * low \in Int /\ n * low <= total
    BY ONLY <1>0, <1>11, low \in Int
  <2> QED BY ONLY <2>1, total \in Int
<1>14. program = "lucky_number_who" =>
         /\ {p \in Procs(n) : "minimum" \in local[p].tells} = {p \in Procs(n) : local[p].number = Least(n, num)}
         /\ {p \in Procs(n) : "maximum" \in local[p].tells} = {p \in Procs(n) : local[p].number = Greatest(n, num)}
         /\ {p \in Procs(n) : "less" \in local[p].tells} = {} <=> Least(n, num) = Greatest(n, num)
         /\ {p \in Procs(n) : "minimum" \in local[p].tells}
              \cap {p \in Procs(n) : "greater" \in local[p].tells} = {}
  <2> SUFFICES ASSUME program = "lucky_number_who"
               PROVE  /\ {p \in Procs(n) : "minimum" \in local[p].tells} = {p \in Procs(n) : local[p].number = Least(n, num)}
                      /\ {p \in Procs(n) : "maximum" \in local[p].tells} = {p \in Procs(n) : local[p].number = Greatest(n, num)}
                      /\ {p \in Procs(n) : "less" \in local[p].tells} = {} <=> Least(n, num) = Greatest(n, num)
                      /\ {p \in Procs(n) : "minimum" \in local[p].tells}
                           \cap {p \in Procs(n) : "greater" \in local[p].tells} = {}
    OBVIOUS
  <2>1. {p \in Procs(n) : "minimum" \in local[p].tells} = {p \in Procs(n) : local[p].number = Least(n, num)}
    BY <1>4, <1>10
  <2>2. {p \in Procs(n) : "maximum" \in local[p].tells} = {p \in Procs(n) : local[p].number = Greatest(n, num)}
    BY <1>4, <1>10
  <2>3. {p \in Procs(n) : "less" \in local[p].tells} = {} <=> Least(n, num) = Greatest(n, num)
    BY <1>10, <1>11, <1>12
  <2>4. \A p \in Procs(n) : "minimum" \in local[p].tells => "greater" \notin local[p].tells
    BY <1>10, <1>11, <1>13
  <2> QED BY <2>1, <2>2, <2>3, <2>4
<1> QED BY ONLY <1>0, <1>6, <1>7, <1>9, <1>14 DEF Least, Greatest, Total, Collectives!Number

-----------------------------------------------------------------------------
(* The division of a range: what process p is given, and what each of its  *)
(* threads tells of it.                                                    *)
HybridPoints == {"start", "finish", "divide", "part", "parts", "threads", "ended", "aborted"}
HybridCalls(n) == Int \cup [Procs(n) -> Int]

First(n, args, k) == Part(k, args.range[2] - args.range[1], n)
Width(n, args, p) == First(n, args, p + 1) - First(n, args, p)
Note(n, args, p, t) ==
  [thread |-> t,
   range |-> <<First(n, args, p) + Part(t, Width(n, args, p), ThreadCount),
               First(n, args, p) + Part(t + 1, Width(n, args, p), ThreadCount)>>]
Notes(n, args, p) == {Note(n, args, p, t) : t \in 0..ThreadCount - 1}
ShareRecord(n, args, p) == [start : {First(n, args, p)}, finish : {First(n, args, p + 1)},
                            told : SUBSET Notes(n, args, p)]
Firsts(n, args) == [q \in Procs(n) |-> First(n, args, q)]
Lasts(n, args) == [q \in Procs(n) |-> First(n, args, q + 1)]
HybridWord(n, args, k) == IF k = 1 THEN args.range[1] ELSE IF k = 2 THEN args.range[2]
                          ELSE IF k = 3 THEN Firsts(n, args) ELSE Lasts(n, args)

(* The data of process p at a place, and the calls it has made by then.    *)
HybridFits(n, args, p, place, data) ==
  /\ place \in {"divide", "part"} => data.overall_start = args.range[1]
  /\ place = "part" => data.overall_finish = args.range[2]
  /\ place = "parts" => data.start = First(n, args, p)
  /\ place = "threads" \/ (place = "ended" /\ args.proper) => data \in ShareRecord(n, args, p)
  /\ place = "ended" /\ args.proper => data.told = Notes(n, args, p)

HybridCount(place) == IF place = "start" THEN 0 ELSE IF place = "finish" THEN 1
                      ELSE IF place = "divide" THEN 2 ELSE IF place = "part" THEN 3 ELSE 4

HybridCall(n, args, p) ==
  /\ at[p] # "aborted" => Len(entered[p]) = HybridCount(at[p])
  /\ p # 0 /\ at[p] \in {"finish", "divide", "part", "parts"} => 0 \in waits[p].entry
  /\ p = 0 => \A k \in 1..Len(entered[p]) : entered[p][k] = HybridWord(n, args, k)

HybridGoes(n, args) ==
  /\ input = args /\ args.range \in Ranges
  /\ \A p \in Procs(n) : HybridFits(n, args, p, at[p], local[p])
  /\ program = "hybrid_distr_bcast" => \A p \in Procs(n) : HybridCall(n, args, p)

HybridInv(n) ==
  /\ program \in Collectives!Hybrid
  /\ Runs(program, n, HybridPoints, Nothing, HybridCalls(n), Nothing)
  /\ \E args : HybridGoes(n, args)

(* The part of a process, as the code computes it, is its part of the      *)
(* range; the widths differ by at most one.                                *)
LEMMA HybridFirst ==
  ASSUME NEW n \in Nat \ {0}, NEW args, args.range \in Ranges
  PROVE  /\ args.range[1] \in Int /\ args.range[2] \in Int
         /\ \A k \in Nat :
              /\ Collectives!calculate_start(k, args.range[2], n, args.range[1]) = First(n, args, k)
              /\ Collectives!calculate_finish(k, args.range[2], n, args.range[1]) = First(n, args, k + 1)
              /\ First(n, args, k) \in Nat
         /\ First(n, args, 0) = 0 /\ First(n, args, n) = args.range[2] - args.range[1]
         /\ \E size \in Nat : \A k \in Nat :
              First(n, args, k + 1) = First(n, args, k) + size \/ First(n, args, k + 1) = First(n, args, k) + size + 1
<1>1. PICK lo, hi \in Int : lo = args.range[1] /\ hi = args.range[2] /\ lo <= hi
  BY RangesAssumption
<1>2. PICK size \in Nat : size = hi - lo
  BY <1>1
<1>3. \A k : First(n, args, k) = Part(k, size, n)
  BY ONLY <1>1, <1>2 DEF First
<1>4. \A k \in Nat :
        /\ Collectives!calculate_start(k, hi, n, lo) = Part(k, size, n)
        /\ Collectives!calculate_finish(k, hi, n, lo) = Part(k + 1, size, n)
  BY ONLY <1>1, <1>2, HybridParts, n \in Nat \ {0}
<1>5. /\ \A k \in Nat : Part(k, size, n) \in Nat
      /\ Part(0, size, n) = 0 /\ Part(n, size, n) = size
      /\ \A k \in Nat : Part(k + 1, size, n) =
             Part(k, size, n) + (size \div n) + (IF k < size % n THEN 1 ELSE 0)
      /\ size \div n \in Nat
  BY ONLY PartIs, size \in Nat, n \in Nat \ {0}
<1>6. PICK q \in Nat : q = size \div n
  BY ONLY <1>5
<1>7. \A k \in Nat :
        Part(k + 1, size, n) = Part(k, size, n) + q \/ Part(k + 1, size, n) = Part(k, size, n) + q + 1
  BY ONLY <1>5, <1>6
<1>8. \E s \in Nat : \A k \in Nat :
         First(n, args, k + 1) = First(n, args, k) + s \/ First(n, args, k + 1) = First(n, args, k) + s + 1
  BY ONLY <1>3, <1>7, q \in Nat
<1>9. First(n, args, 0) = 0 /\ First(n, args, n) = args.range[2] - args.range[1]
  BY ONLY <1>1, <1>2, <1>3, <1>5
<1>10. ASSUME NEW k \in Nat
       PROVE  /\ Collectives!calculate_start(k, args.range[2], n, args.range[1]) = First(n, args, k)
              /\ Collectives!calculate_finish(k, args.range[2], n, args.range[1]) = First(n, args, k + 1)
              /\ First(n, args, k) \in Nat
  <2>1. /\ Collectives!calculate_start(k, hi, n, lo) = First(n, args, k)
        /\ Collectives!calculate_finish(k, hi, n, lo) = First(n, args, k + 1)
    BY ONLY <1>3, <1>4, k \in Nat
  <2>2. First(n, args, k) \in Nat
    BY ONLY <1>3, <1>5, k \in Nat
  <2> QED BY ONLY <1>1, <2>1, <2>2
<1>11. args.range[1] \in Int /\ args.range[2] \in Int
  BY ONLY <1>1
<1> QED BY ONLY <1>8, <1>9, <1>10, <1>11

(* The threads of a process: all have told when there are as many notes.   *)
LEMMA NotesAre ==
  ASSUME NEW n, NEW args, NEW p
  PROVE  /\ IsFiniteSet(Notes(n, args, p)) /\ Cardinality(Notes(n, args, p)) <= ThreadCount
         /\ \A told \in SUBSET Notes(n, args, p) :
              Cardinality(told) = ThreadCount => told = Notes(n, args, p)
         /\ \A note \in Notes(n, args, p) : note = Note(n, args, p, note.thread)
<1>1. ThreadCount \in Nat \ {0}
  BY NumbersAssumption
<1>2. PICK T : T = 0..ThreadCount - 1
  OBVIOUS
<1>3. IsFiniteSet(T) /\ Cardinality(T) = ThreadCount
  <2>1. /\ IsFiniteSet(0..ThreadCount - 1)
        /\ Cardinality(0..ThreadCount - 1) = IF 0 > ThreadCount - 1 THEN 0 ELSE (ThreadCount - 1) - 0 + 1
    BY <1>1, FS_Interval
  <2> QED BY <1>1, <1>2, <2>1
<1>4. PICK f : f = [t \in T |-> Note(n, args, p, t)]
  OBVIOUS
<1>5. f \in Surjection(T, Notes(n, args, p))
  <2>1. Notes(n, args, p) = {Note(n, args, p, t) : t \in T}
    BY ONLY <1>2 DEF Notes
  <2> QED BY ONLY <1>4, <2>1 DEF Surjection
<1>6. IsFiniteSet(Notes(n, args, p)) /\ Cardinality(Notes(n, args, p)) <= ThreadCount
  BY ONLY <1>3, <1>5, FS_Surjection
<1>7. ASSUME NEW told \in SUBSET Notes(n, args, p), Cardinality(told) = ThreadCount
      PROVE  told = Notes(n, args, p)
  <2>1. PICK S : S = Notes(n, args, p)
    OBVIOUS
  <2>2. /\ IsFiniteSet(told) /\ Cardinality(told) <= Cardinality(S)
        /\ Cardinality(told) = Cardinality(S) => told = S
    BY ONLY <1>6, <1>7, <2>1, FS_Subset
  <2>3. Cardinality(S) \in Nat
    BY ONLY <1>6, <2>1, FS_CardinalityType
  <2> QED BY ONLY <1>1, <1>6, <1>7, <2>1, <2>2, <2>3
<1>8. \A t : Note(n, args, p, t).thread = t
  BY DEF Note
<1>9. \A note \in Notes(n, args, p) : note = Note(n, args, p, note.thread)
  BY ONLY <1>8 DEF Notes
<1> QED BY ONLY <1>6, <1>7, <1>9

(* A step of process x alone: where it goes, and with what data.           *)
HybridTo(x, n, args, to, d) ==
  /\ HybridGoes(n, args) /\ x \in Procs(n) /\ program' = program /\ input' = input
  /\ at'[x] = to /\ local'[x] = d
  /\ \A q \in Procs(n) : q # x => at'[q] = at[q] /\ local'[q] = local[q]

(* A step of a process that keeps what is said in the calls.               *)
LEMMA HybridMoved ==
  ASSUME NEW n, NEW args, NEW x, NEW to, NEW d, HybridTo(x, n, args, to, d),
         HybridFits(n, args, x, to, d),
         program = "hybrid_distr_bcast" => \A p \in Procs(n) : HybridCall(n, args, p)'
  PROVE  HybridGoes(n, args)'
<1>1. \A q \in Procs(n) : HybridFits(n, args, q, at'[q], local'[q])
  <2>1. \A q \in Procs(n) : q # x => HybridFits(n, args, q, at'[q], local'[q])
    BY DEF HybridTo, HybridGoes
  <2>2. HybridFits(n, args, x, at'[x], local'[x])
    BY DEF HybridTo
  <2> QED BY <2>1, <2>2
<1>2. program' = program /\ input' = args /\ args.range \in Ranges
  BY DEF HybridTo, HybridGoes
<1> QED BY ONLY <1>1, <1>2, program = "hybrid_distr_bcast" => \A p \in Procs(n) : HybridCall(n, args, p)'
    DEF HybridGoes

(* The calls, when x makes one or none.                                    *)
LEMMA HybridQuiet ==
  ASSUME NEW n, NEW args, NEW x, NEW to, NEW d, HybridTo(x, n, args, to, d), Alone,
         program = "hybrid_distr_bcast" => HybridCount(to) = HybridCount(at[x]) /\ at[x] # "aborted",
         to \in {"threads", "ended"}
  PROVE  program = "hybrid_distr_bcast" => \A p \in Procs(n) : HybridCall(n, args, p)'
<1> SUFFICES ASSUME program = "hybrid_distr_bcast", NEW p \in Procs(n) PROVE HybridCall(n, args, p)'
  OBVIOUS
<1>1. HybridCall(n, args, p) /\ entered' = entered /\ waits' = waits
  BY DEF HybridTo, HybridGoes, Alone
<1>2. \/ at'[p] = at[p]
      \/ HybridCount(at'[p]) = HybridCount(at[p]) /\ at[p] # "aborted" /\ at'[p] \in {"threads", "ended"}
  BY DEF HybridTo
<1> QED BY ONLY <1>1, <1>2 DEF HybridCall

HybridCalling(n, args, x, to, d, what, needed) ==
  /\ HybridTo(x, n, args, to, d) /\ Called(n, Nothing, HybridCalls(n), x, what, needed)
  /\ at[x] # "aborted" /\ to # "aborted"
  /\ HybridCount(to) = HybridCount(at[x]) + 1 /\ HybridCount(at[x]) \in 0..3
  /\ what = HybridWord(n, args, HybridCount(to)) /\ (x # 0 => 0 \in needed)

(* What is given to the calls stays what it has to be.                     *)
LEMMA HybridSpoken ==
  ASSUME NEW n, NEW args, NEW x, NEW to, NEW d, NEW what, NEW needed,
         HybridCalling(n, args, x, to, d, what, needed), program = "hybrid_distr_bcast"
  PROVE  \A p \in Procs(n) : HybridCall(n, args, p)'
<1>1. ASSUME NEW p \in Procs(n), p # x PROVE HybridCall(n, args, p)'
  <2>1. HybridCall(n, args, p) /\ entered'[p] = entered[p] /\ waits'[p] = waits[p] /\ at'[p] = at[p]
    BY <1>1 DEF HybridCalling, HybridTo, HybridGoes, Called
  <2> QED BY ONLY <2>1 DEF HybridCall
<1>2. x \in Procs(n) => HybridCall(n, args, x)'
  <2>1. x \in Procs(n) /\ HybridCall(n, args, x) /\ at'[x] = to
    BY DEF HybridCalling, HybridTo, HybridGoes
  <2>2. /\ Len(entered'[x]) = Len(entered[x]) + 1 /\ entered'[x][Len(entered[x]) + 1] = what
        /\ \A k \in 1..Len(entered[x]) : entered'[x][k] = entered[x][k]
        /\ needed \subseteq waits'[x].entry
    BY DEF HybridCalling, Called
  <2>3. /\ at[x] # "aborted" /\ HybridCount(to) = HybridCount(at[x]) + 1 /\ HybridCount(at[x]) \in 0..3
        /\ what = HybridWord(n, args, HybridCount(to)) /\ (x # 0 => 0 \in needed)
    BY DEF HybridCalling
  <2>4. Len(entered[x]) = HybridCount(at[x])
    BY ONLY <2>1, <2>3 DEF HybridCall
  <2>5. Len(entered'[x]) = HybridCount(to)
    BY ONLY <2>2, <2>3, <2>4
  <2>6. x = 0 => \A k \in 1..Len(entered'[x]) : entered'[x][k] = HybridWord(n, args, k)
    <3> SUFFICES ASSUME x = 0, NEW k \in 1..Len(entered'[x])
                 PROVE  entered'[x][k] = HybridWord(n, args, k)
      OBVIOUS
    <3>1. k \in 1..Len(entered[x]) \/ k = HybridCount(to)
      BY ONLY <2>3, <2>4, <2>5, k \in 1..Len(entered'[x])
    <3>2. k \in 1..Len(entered[x]) => entered[x][k] = HybridWord(n, args, k)
      BY <2>1 DEF HybridCall
    <3>3. entered'[x][HybridCount(to)] = HybridWord(n, args, HybridCount(to))
      BY ONLY <2>2, <2>3, <2>4
    <3> QED BY ONLY <2>2, <3>1, <3>2, <3>3
  <2> QED BY ONLY <2>1, <2>2, <2>3, <2>5, <2>6 DEF HybridCall
<1> QED BY <1>1, <1>2

(* Who may leave a call finds what process 0 has given to it.              *)
LEMMA HybridGiven ==
  ASSUME NEW n, NEW args, HybridGoes(n, args), program = "hybrid_distr_bcast", n \in Nat \ {0},
         NEW x \in Procs(n), at[x] \in {"finish", "divide", "part", "parts"}, Collectives!Returned(x),
         entered[0] \in Seq(HybridCalls(n))
  PROVE  Collectives!FromRoot(x) = HybridWord(n, args, HybridCount(at[x]))
<1>1. 0 \in Procs(n)
  BY DEF Procs
<1>2. HybridCall(n, args, x) /\ HybridCall(n, args, 0)
  BY <1>1 DEF HybridGoes
<1>3. HybridCount(at[x]) \in 1..4
  BY DEF HybridCount
<1>4. Len(entered[x]) = HybridCount(at[x])
  BY <1>2 DEF HybridCall
<1>5. Len(entered[0]) >= Len(entered[x])
  <2>1. CASE x = 0
    BY <1>3, <1>4, <2>1
  <2>2. CASE x # 0
    BY <1>2, <2>2 DEF HybridCall, Collectives!Returned, Collectives!AllEntered
  <2> QED BY <2>1, <2>2
<1>6. Len(entered[0]) \in Nat
  BY LenProperties
<1>7. HybridCount(at[x]) \in 1..Len(entered[0])
  BY ONLY <1>3, <1>4, <1>5, <1>6
<1>8. \A k \in 1..Len(entered[0]) : entered[0][k] = HybridWord(n, args, k)
  BY ONLY <1>2 DEF HybridCall
<1> QED BY ONLY <1>4, <1>7, <1>8 DEF Collectives!FromRoot

(* What process 0 gives to its four calls.                                 *)
LEMMA HybridWords ==
  ASSUME NEW n \in Nat \ {0}, NEW args, args.range \in Ranges
  PROVE  /\ HybridWord(n, args, 1) = args.range[1] /\ HybridWord(n, args, 2) = args.range[2]
         /\ HybridWord(n, args, 3) = Firsts(n, args) /\ HybridWord(n, args, 4) = Lasts(n, args)
         /\ \A k \in 1..4 : HybridWord(n, args, k) \in HybridCalls(n)
         /\ \A p \in Procs(n) : Firsts(n, args)[p] = First(n, args, p)
         /\ \A p \in Procs(n) : Lasts(n, args)[p] = First(n, args, p + 1)
<1>1. /\ HybridWord(n, args, 1) = args.range[1] /\ HybridWord(n, args, 2) = args.range[2]
      /\ HybridWord(n, args, 3) = Firsts(n, args) /\ HybridWord(n, args, 4) = Lasts(n, args)
  BY DEF HybridWord
<1>2. /\ args.range[1] \in Int /\ args.range[2] \in Int
      /\ \A k \in Nat : First(n, args, k) \in Nat
  BY HybridFirst
<1>3. \A p \in Procs(n) : p \in Nat /\ p + 1 \in Nat
  BY DEF Procs
<1>4. Firsts(n, args) \in [Procs(n) -> Int] /\ Lasts(n, args) \in [Procs(n) -> Int]
  BY ONLY <1>2, <1>3 DEF Firsts, Lasts
<1>5. /\ \A p \in Procs(n) : Firsts(n, args)[p] = First(n, args, p)
      /\ \A p \in Procs(n) : Lasts(n, args)[p] = First(n, args, p + 1)
  BY DEF Firsts, Lasts
<1>6. /\ HybridWord(n, args, 1) \in HybridCalls(n) /\ HybridWord(n, args, 2) \in HybridCalls(n)
      /\ HybridWord(n, args, 3) \in HybridCalls(n) /\ HybridWord(n, args, 4) \in HybridCalls(n)
  BY ONLY <1>1, <1>2, <1>4 DEF HybridCalls
<1>7. \A k \in 1..4 : k = 1 \/ k = 2 \/ k = 3 \/ k = 4
  OBVIOUS
<1>8. \A k \in 1..4 : HybridWord(n, args, k) \in HybridCalls(n)
  BY ONLY <1>6, <1>7, Zenon
<1> QED BY ONLY <1>1, <1>5, <1>8

(* The part of a thread, as the code computes it, is its part of the part  *)
(* of the process.                                                         *)
LEMMA WidthIs ==
  ASSUME NEW n \in Nat \ {0}, NEW args, args.range \in Ranges, NEW p \in Procs(n)
  PROVE  /\ Width(n, args, p) \in Nat /\ First(n, args, p) \in Nat /\ First(n, args, p + 1) \in Nat
         /\ \A t \in Nat :
              /\ Collectives!calculate_start(t, Width(n, args, p), ThreadCount, 0)
                   = Part(t, Width(n, args, p), ThreadCount)
              /\ Collectives!calculate_finish(t, Width(n, args, p), ThreadCount, 0)
                   = Part(t + 1, Width(n, args, p), ThreadCount)
<1>1. p \in Nat /\ p + 1 \in Nat
  BY DEF Procs
<1>2. /\ First(n, args, p) \in Nat /\ First(n, args, p + 1) \in Nat
      /\ \E size \in Nat : \/ First(n, args, p + 1) = First(n, args, p) + size
                           \/ First(n, args, p + 1) = First(n, args, p) + size + 1
  BY ONLY <1>1, HybridFirst, n \in Nat \ {0}, args.range \in Ranges
<1>3. PICK w \in Nat : w = Width(n, args, p)
  BY <1>2 DEF Width
<1>4. ThreadCount \in Nat \ {0}
  BY NumbersAssumption
<1>5. \A t \in Nat : /\ Collectives!calculate_start(t, w, ThreadCount, 0) = Part(t, w - 0, ThreadCount)
                     /\ Collectives!calculate_finish(t, w, ThreadCount, 0) = Part(t + 1, w - 0, ThreadCount)
  BY ONLY <1>4, w \in Nat, 0 <= w, 0 \in Int, w \in Int, HybridParts
<1>6. w - 0 = w
  OBVIOUS
<1> QED BY ONLY <1>2, <1>3, <1>5, <1>6

(* A thread adds its note to those of its process.                         *)
LEMMA NoteTaken ==
  ASSUME NEW n \in Nat \ {0}, NEW args, args.range \in Ranges, NEW p \in Procs(n),
         NEW s, s \in ShareRecord(n, args, p), NEW t \in 0..ThreadCount - 1
  PROVE  LET size == s.finish - s.start
             part == <<s.start + Collectives!calculate_start(t, size, ThreadCount, 0),
                       s.start + Collectives!calculate_finish(t, size, ThreadCount, 0)>> IN
         [s EXCEPT !.told = @ \cup {[thread |-> t, range |-> part]}] \in ShareRecord(n, args, p)
<1>1. s.start = First(n, args, p) /\ s.finish = First(n, args, p + 1)
  BY DEF ShareRecord
<1>2. ThreadCount \in Nat \ {0} /\ t \in Nat
  BY NumbersAssumption
<1>3. s.finish - s.start = Width(n, args, p)
  BY ONLY <1>1 DEF Width
<1>4. PICK note : note = Note(n, args, p, t)
  OBVIOUS
<1>5. [thread |-> t,
       range |-> <<s.start + Collectives!calculate_start(t, s.finish - s.start, ThreadCount, 0),
                   s.start + Collectives!calculate_finish(t, s.finish - s.start, ThreadCount, 0)>>] = note
  <2>1. /\ Collectives!calculate_start(t, Width(n, args, p), ThreadCount, 0)
             = Part(t, Width(n, args, p), ThreadCount)
        /\ Collectives!calculate_finish(t, Width(n, args, p), ThreadCount, 0)
             = Part(t + 1, Width(n, args, p), ThreadCount)
    BY ONLY <1>2, WidthIs, n \in Nat \ {0}, args.range \in Ranges, p \in Procs(n)
  <2> QED BY ONLY <1>1, <1>3, <1>4, <2>1 DEF Note
<1>6. note \in Notes(n, args, p)
  BY ONLY <1>4, t \in 0..ThreadCount - 1 DEF Notes
<1>7. [s EXCEPT !.told = @ \cup {note}] \in ShareRecord(n, args, p)
  BY <1>6 DEF ShareRecord
<1> QED BY ONLY <1>5, <1>7

(* A step of the hybrid distribution keeps its invariant.                  *)
LEMMA HybridStep ==
  ASSUME NEW n, HybridInv(n), NEW p \in Procs(n), program' = program, input' = input,
         \/ program = "hybrid_distr_arg" /\ Collectives!HybridArg(p)
         \/ program = "hybrid_distr_bcast" /\ Collectives!HybridBcast(p)
  PROVE  HybridInv(n)'
<1>0. /\ Talks(n, Nothing, HybridCalls(n)) /\ Stands(n, HybridPoints, Nothing)
      /\ {"start", "finish", "divide", "part", "parts", "threads", "ended", "aborted"} = HybridPoints
      /\ Collectives!Count = n /\ Collectives!Processes = Procs(n) /\ n \in Nat \ {0}
      /\ program \in Collectives!Hybrid
      /\ Runs(program, n, HybridPoints, Nothing, HybridCalls(n), Nothing)
  BY CountIs DEF HybridInv, Runs, HybridPoints
<1>1. PICK args : HybridGoes(n, args)
  BY DEF HybridInv
<1>2. /\ input = args /\ args.range \in Ranges /\ HybridFits(n, args, p, at[p], local[p])
      /\ program = "hybrid_distr_bcast" => HybridCall(n, args, p)
  BY <1>1 DEF HybridGoes
<1>3. ASSUME HybridGoes(n, args)', Talks(n, Nothing, HybridCalls(n))', Stands(n, HybridPoints, Nothing)'
      PROVE  HybridInv(n)'
  BY <1>0, <1>3 DEF HybridInv, Runs
<1>4. ASSUME NEW to \in HybridPoints, Moves(p, to), output' = output,
             local' = local \/ \E data : Keeps(p, data)
      PROVE  /\ Stands(n, HybridPoints, Nothing)' /\ HybridTo(p, n, args, to, local'[p])
             /\ \A data : Keeps(p, data) => local'[p] = data
  <2>1. Standing(n, HybridPoints, Nothing, p, to)
    BY ONLY <1>0, <1>4, p \in Procs(n) DEF Standing
  <2>2. /\ Stands(n, HybridPoints, Nothing)' /\ at'[p] = to
        /\ \A q \in Procs(n) : q # p => at'[q] = at[q] /\ local'[q] = local[q]
        /\ \A data : Keeps(p, data) => local'[p] = data
    BY ONLY <2>1, StandingMoved
  <2> QED BY ONLY <1>1, <2>2, program' = program, input' = input, p \in Procs(n) DEF HybridTo
<1>5. ASSUME NEW from, NEW to \in {"threads", "ended"}, Collectives!Goes(p, from, to), output' = output,
             Alone, from \in HybridPoints, NEW d, local'[p] = d,
             local' = local \/ \E data : Keeps(p, data),
             program = "hybrid_distr_bcast" => from \in {"parts", "threads"},
             HybridFits(n, args, p, to, d)
      PROVE  HybridInv(n)'
  <2>1. at[p] = from /\ Moves(p, to) /\ to \in HybridPoints
    BY <1>0, <1>5, CollectivesMoves
  <2>2. Stands(n, HybridPoints, Nothing)' /\ HybridTo(p, n, args, to, d)
    BY ONLY <1>4, <1>5, <2>1
  <2>3. Talks(n, Nothing, HybridCalls(n))'
    BY <1>0, <1>5, StaysAlone
  <2>4. program = "hybrid_distr_bcast" => HybridCount(to) = HybridCount(at[p]) /\ at[p] # "aborted"
    BY ONLY <1>5, <2>1 DEF HybridCount
  <2>5. program = "hybrid_distr_bcast" => \A q \in Procs(n) : HybridCall(n, args, q)'
    BY ONLY <1>5, <2>2, <2>4, HybridQuiet
  <2>6. HybridGoes(n, args)'
    BY ONLY <1>5, <2>2, <2>5, HybridMoved
  <2> QED BY <1>3, <2>2, <2>3, <2>6
<1>6. ASSUME NEW from, NEW to, NEW what, Collectives!Goes(p, from, to), output' = output,
             <<from, to>> \in {<<"start", "finish">>, <<"finish", "divide">>, <<"divide", "part">>,
                               <<"part", "parts">>},
             NEW d, Keeps(p, d), HybridFits(n, args, p, to, d),
             what = HybridWord(n, args, HybridCount(to)), Collectives!Enters(p, what, {0} \ {p})
      PROVE  HybridInv(n)'
  <2>1. at[p] = from /\ Moves(p, to) /\ to \in HybridPoints
    BY <1>0, <1>6, CollectivesMoves
  <2>2. /\ Stands(n, HybridPoints, Nothing)' /\ HybridTo(p, n, args, to, d)
    BY ONLY <1>4, <1>6, <2>1
  <2>3. /\ HybridCount(to) = HybridCount(at[p]) + 1 /\ HybridCount(at[p]) \in 0..3
        /\ HybridCount(to) \in 1..4 /\ at[p] # "aborted" /\ to # "aborted"
    BY ONLY <1>6, <2>1 DEF HybridCount
  <2>4. PICK needed : needed = {0} \ {p} /\ needed \subseteq Procs(n) /\ (p # 0 => 0 \in needed)
    <3>1. 0 \in Procs(n)
      BY <1>0 DEF Procs
    <3>2. PICK needed : needed = {0} \ {p}
      OBVIOUS
    <3>3. needed \subseteq Procs(n) /\ (p # 0 => 0 \in needed)
      BY ONLY <3>1, <3>2
    <3> QED BY <3>2, <3>3
  <2>5. what \in HybridCalls(n)
    BY ONLY <1>0, <1>2, <1>6, <2>3, HybridWords
  <2>6. Calling(n, Nothing, HybridCalls(n), p, what, needed)
    BY ONLY <1>0, <1>6, <2>4, <2>5, p \in Procs(n) DEF Calling
  <2>7. Called(n, Nothing, HybridCalls(n), p, what, needed)
    BY ONLY <2>6, CollectivesCall
  <2>8. HybridCalling(n, args, p, to, d, what, needed)
    BY ONLY <1>6, <2>2, <2>3, <2>4, <2>7 DEF HybridCalling
  <2>9. program = "hybrid_distr_bcast" => \A q \in Procs(n) : HybridCall(n, args, q)'
    BY ONLY <2>8, HybridSpoken
  <2>10. HybridGoes(n, args)'
    BY ONLY <1>6, <2>2, <2>9, HybridMoved
  <2>11. Talks(n, Nothing, HybridCalls(n))'
    BY ONLY <2>7 DEF Called
  <2> QED BY ONLY <1>3, <2>2, <2>10, <2>11
<1>7. ASSUME program = "hybrid_distr_bcast", NEW from \in {"finish", "divide", "part", "parts"},
             Collectives!Goes(p, from, at'[p])
      PROVE  Collectives!FromRoot(p) = HybridWord(n, args, HybridCount(from))
  <2>1. at[p] = from /\ Collectives!Returned(p)
    BY <1>7, CollectivesMoves
  <2>2. entered[0] \in Seq(HybridCalls(n))
    <3>1. 0 \in Procs(n)
      BY <1>0 DEF Procs
    <3> QED BY <1>0, <3>1 DEF Talks
  <2> QED BY ONLY <1>0, <1>1, <1>7, <2>1, <2>2, p \in Procs(n), HybridGiven
<1>8. p \in Nat /\ p + 1 \in Nat
  BY <1>0 DEF Procs
<1>9. ASSUME Collectives!ThreadsTell(p) PROVE HybridInv(n)'
  <2>1. CASE Collectives!AllTold(p)
    <3>1. /\ Collectives!Goes(p, "threads", "ended") /\ output' = output /\ Alone /\ local' = local
          /\ Collectives!Cardinality(local[p].told) = ThreadCount
      BY <2>1 DEF Collectives!AllTold, Collectives!Quietly, Collectives!Computes,
         Collectives!communication, Alone
    <3>2. at[p] = "threads"
      BY <3>1, CollectivesMoves
    <3>3. local[p] \in ShareRecord(n, args, p)
      BY ONLY <1>2, <3>2 DEF HybridFits
    <3>4. local[p].told \in SUBSET Notes(n, args, p)
      BY <3>3 DEF ShareRecord
    <3>5. local[p].told = Notes(n, args, p)
      <4>1. Cardinality(local[p].told) = ThreadCount
        BY <3>1, SameCounts
      <4> QED BY ONLY <3>4, <4>1, NotesAre
    <3>6. HybridFits(n, args, p, "ended", local[p])
      BY ONLY <3>3, <3>5 DEF HybridFits
    <3>7. local'[p] = local[p]
      BY <3>1
    <3> QED BY ONLY <1>0, <1>5, <3>1, <3>6, <3>7
  <2>2. ASSUME NEW t \in 0..ThreadCount - 1, Collectives!TellsPart(p, t) PROVE HybridInv(n)'
    <3> DEFINE size == local[p].finish - local[p].start
               part == <<local[p].start + Collectives!calculate_start(t, size, ThreadCount, 0),
                         local[p].start + Collectives!calculate_finish(t, size, ThreadCount, 0)>>
               data == [local[p] EXCEPT !.told = @ \cup {[thread |-> t, range |-> part]}]
    <3>1. /\ Collectives!Goes(p, "threads", "threads") /\ output' = output /\ Alone /\ Keeps(p, data)
      BY <2>2 DEF Collectives!TellsPart, Collectives!Quietly, Collectives!Computes,
         Collectives!communication, Alone, Collectives!Keep, Keeps
    <3>2. at[p] = "threads"
      BY <3>1, CollectivesMoves
    <3>3. local[p] \in ShareRecord(n, args, p)
      BY ONLY <1>2, <3>2 DEF HybridFits
    <3>4. data \in ShareRecord(n, args, p)
      BY ONLY <1>0, <1>2, <3>3, NoteTaken, p \in Procs(n), t \in 0..ThreadCount - 1
    <3> HIDE DEF data
    <3>5. HybridFits(n, args, p, "threads", data)
      BY ONLY <3>4 DEF HybridFits
    <3>6. local'[p] = data
      BY <1>0, <3>1, KeepsData
    <3> QED BY ONLY <1>0, <1>5, <3>1, <3>5, <3>6
  <2> QED BY <1>9, <2>1, <2>2 DEF Collectives!ThreadsTell
<1>10. ASSUME program = "hybrid_distr_arg", Collectives!HybridArg(p) PROVE HybridInv(n)'
  <2>1. ASSUME Collectives!Goes(p, "start", "threads"), output' = output, Alone,
               Keeps(p, Collectives!PartOf(p, input.range[2], input.range[1]))
        PROVE  HybridInv(n)'
    <3>1. PICK d : d = [start |-> First(n, args, p), finish |-> First(n, args, p + 1), told |-> {}]
      OBVIOUS
    <3>2. Collectives!PartOf(p, input.range[2], input.range[1]) = d
      <4>1. /\ Collectives!calculate_start(p, args.range[2], n, args.range[1]) = First(n, args, p)
            /\ Collectives!calculate_finish(p, args.range[2], n, args.range[1]) = First(n, args, p + 1)
        BY ONLY <1>0, <1>2, <1>8, HybridFirst
      <4> QED BY ONLY <1>0, <1>2, <3>1, <4>1 DEF Collectives!PartOf
    <3>3. Keeps(p, d)
      BY ONLY <2>1, <3>2
    <3>4. local'[p] = d
      BY <1>0, <3>3, KeepsData
    <3>5. HybridFits(n, args, p, "threads", d)
      <4>1. d \in ShareRecord(n, args, p)
        BY ONLY <3>1 DEF ShareRecord
      <4> QED BY ONLY <4>1 DEF HybridFits
    <3>6. "start" \in HybridPoints /\ program # "hybrid_distr_bcast"
      BY <1>0, <1>10
    <3> QED BY ONLY <1>5, <2>1, <3>3, <3>4, <3>5, <3>6
  <2>2. ASSUME Collectives!Goes(p, "start", "ended"), ~input.proper, output' = output, Alone, local' = local
        PROVE  HybridInv(n)'
    <3>1. HybridFits(n, args, p, "ended", local[p])
      BY ONLY <1>2, <2>2 DEF HybridFits
    <3>2. "start" \in HybridPoints /\ program # "hybrid_distr_bcast" /\ local'[p] = local[p]
      BY <1>0, <1>10, <2>2
    <3> QED BY ONLY <1>5, <2>2, <3>1, <3>2
  <2> QED BY <1>9, <1>10, <2>1, <2>2 DEF Collectives!HybridArg, Collectives!Quietly,
             Collectives!Computes, Collectives!communication, Alone, Collectives!Keep, Keeps
<1>11. ASSUME program = "hybrid_distr_bcast", Collectives!HybridBcast(p) PROVE HybridInv(n)'
  <2>0. /\ HybridWord(n, args, 1) = args.range[1] /\ HybridWord(n, args, 2) = args.range[2]
        /\ HybridWord(n, args, 3) = Firsts(n, args) /\ HybridWord(n, args, 4) = Lasts(n, args)
        /\ Firsts(n, args)[p] = First(n, args, p) /\ Lasts(n, args)[p] = First(n, args, p + 1)
    BY ONLY <1>0, <1>2, p \in Procs(n), HybridWords
  <2>1. CASE Collectives!AbortAll(p)
    <3>1. /\ at' = [q \in Procs(n) |-> "aborted"] /\ local' = local /\ output' = output /\ Alone
      BY <1>0, <2>1 DEF Collectives!AbortAll, Collectives!Computes, Collectives!communication, Alone
    <3>2. Stands(n, HybridPoints, Nothing)'
      <4>1. "aborted" \in HybridPoints
        BY <1>0
      <4> QED BY <1>0, <3>1, <4>1 DEF Stands
    <3>3. Talks(n, Nothing, HybridCalls(n))'
      BY <1>0, <3>1, StaysAlone
    <3>4. \A q \in Procs(n) : HybridFits(n, args, q, at'[q], local'[q])
      BY <3>1 DEF HybridFits
    <3>5. \A q \in Procs(n) : HybridCall(n, args, q)'
      <4>1. \A q \in Procs(n) : HybridCall(n, args, q)
        BY <1>1, <1>11 DEF HybridGoes
      <4>2. \A q \in Procs(n) : at'[q] = "aborted"
        BY <3>1
      <4>3. entered' = entered
        BY <3>1 DEF Alone
      <4> QED BY ONLY <4>1, <4>2, <4>3 DEF HybridCall
    <3>6. HybridGoes(n, args)'
      BY ONLY <1>2, <3>4, <3>5, input' = input DEF HybridGoes
    <3> QED BY ONLY <1>3, <3>2, <3>3, <3>6
  <2>2. ASSUME Collectives!Goes(p, "start", "finish"), Keeps(p, [overall_start |-> 0]),
               Collectives!Enters(p, input.range[1], {0} \ {p}), output' = output
        PROVE  HybridInv(n)'
    <3>1. PICK d : d = [overall_start |-> 0] /\ Keeps(p, d)
      BY <2>2
    <3>2. HybridFits(n, args, p, "finish", d) /\ HybridCount("finish") = 1
      BY ONLY TRUE DEF HybridFits, HybridCount
    <3>3. Collectives!Enters(p, args.range[1], {0} \ {p}) /\ args.range[1] = HybridWord(n, args, HybridCount("finish"))
      BY ONLY <1>2, <2>0, <2>2, <3>2
    <3> QED BY ONLY <1>6, <2>2, <3>1, <3>2, <3>3
  <2>3. ASSUME Collectives!Goes(p, "finish", "divide"), Keeps(p, [overall_start |-> Collectives!FromRoot(p)]),
               Collectives!Enters(p, input.range[2], {0} \ {p}), output' = output
        PROVE  HybridInv(n)'
    <3>1. PICK d : d = [overall_start |-> Collectives!FromRoot(p)] /\ Keeps(p, d)
      BY <2>3
    <3>2. HybridCount("finish") = 1 /\ HybridCount("divide") = 2
      BY ONLY TRUE DEF HybridCount
    <3>3. Collectives!FromRoot(p) = args.range[1]
      <4>1. at'[p] = "divide"
        BY <1>0, <2>3 DEF Collectives!Goes, Stands
      <4> QED BY ONLY <1>7, <1>11, <2>0, <2>3, <3>2, <4>1
    <3>4. HybridFits(n, args, p, "divide", d)
      BY ONLY <3>1, <3>3 DEF HybridFits
    <3>5. Collectives!Enters(p, args.range[2], {0} \ {p}) /\ args.range[2] = HybridWord(n, args, HybridCount("divide"))
      BY ONLY <1>2, <2>0, <2>3, <3>2
    <3> QED BY ONLY <1>6, <2>3, <3>1, <3>4, <3>5
  <2>4. ASSUME Collectives!Goes(p, "divide", "part"), output' = output,
               Keeps(p, [overall_start |-> local[p].overall_start, overall_finish |-> Collectives!FromRoot(p)]),
               Collectives!Enters(p, [q \in Procs(n) |->
                   Collectives!calculate_start(q, Collectives!FromRoot(p), n, local[p].overall_start)], {0} \ {p})
        PROVE  HybridInv(n)'
    <3>1. PICK d : d = [overall_start |-> local[p].overall_start, overall_finish |-> Collectives!FromRoot(p)]
                   /\ Keeps(p, d)
      BY <2>4
    <3>2. HybridCount("divide") = 2 /\ HybridCount("part") = 3
      BY ONLY TRUE DEF HybridCount
    <3>3. Collectives!FromRoot(p) = args.range[2]
      <4>1. at'[p] = "part"
        BY <1>0, <2>4 DEF Collectives!Goes, Stands
      <4> QED BY ONLY <1>7, <1>11, <2>0, <2>4, <3>2, <4>1
    <3>4. local[p].overall_start = args.range[1]
      <4>1. at[p] = "divide"
        BY <2>4, CollectivesMoves
      <4> QED BY ONLY <1>2, <4>1 DEF HybridFits
    <3>5. HybridFits(n, args, p, "part", d)
      BY ONLY <3>1, <3>3, <3>4 DEF HybridFits
    <3>6. [q \in Procs(n) |-> Collectives!calculate_start(q, args.range[2], n, args.range[1])]
            = HybridWord(n, args, HybridCount("part"))
      <4>1. \A q \in Procs(n) : q \in Nat
        BY DEF Procs
      <4>2. \A q \in Procs(n) :
              Collectives!calculate_start(q, args.range[2], n, args.range[1]) = First(n, args, q)
        BY ONLY <1>0, <1>2, <4>1, HybridFirst
      <4> QED BY ONLY <2>0, <3>2, <4>2 DEF Firsts
    <3> QED BY ONLY <1>6, <2>4, <3>1, <3>3, <3>4, <3>5, <3>6
  <2>5. ASSUME Collectives!Goes(p, "part", "parts"), output' = output,
               Keeps(p, [start |-> Collectives!FromRoot(p)[p]]),
               Collectives!Enters(p, [q \in Procs(n) |->
                   Collectives!calculate_finish(q, local[p].overall_finish, n, local[p].overall_start)], {0} \ {p})
        PROVE  HybridInv(n)'
    <3>1. PICK d : d = [start |-> Collectives!FromRoot(p)[p]] /\ Keeps(p, d)
      BY <2>5
    <3>2. HybridCount("part") = 3 /\ HybridCount("parts") = 4
      BY ONLY TRUE DEF HybridCount
    <3>3. Collectives!FromRoot(p) = Firsts(n, args)
      <4>1. at'[p] = "parts"
        BY <1>0, <2>5 DEF Collectives!Goes, Stands
      <4> QED BY ONLY <1>7, <1>11, <2>0, <2>5, <3>2, <4>1
    <3>4. local[p].overall_start = args.range[1] /\ local[p].overall_finish = args.range[2]
      <4>1. at[p] = "part"
        BY <2>5, CollectivesMoves
      <4> QED BY ONLY <1>2, <4>1 DEF HybridFits
    <3>5. HybridFits(n, args, p, "parts", d)
      BY ONLY <2>0, <3>1, <3>3 DEF HybridFits
    <3>6. [q \in Procs(n) |-> Collectives!calculate_finish(q, args.range[2], n, args.range[1])]
            = HybridWord(n, args, HybridCount("parts"))
      <4>1. \A q \in Procs(n) : q \in Nat
        BY DEF Procs
      <4>2. \A q \in Procs(n) :
              Collectives!calculate_finish(q, args.range[2], n, args.range[1]) = First(n, args, q + 1)
        BY ONLY <1>0, <1>2, <4>1, HybridFirst
      <4> QED BY ONLY <2>0, <3>2, <4>2 DEF Lasts
    <3> QED BY ONLY <1>6, <2>5, <3>1, <3>4, <3>5, <3>6
  <2>6. ASSUME Collectives!Goes(p, "parts", "threads"), output' = output, Alone,
               Keeps(p, [start |-> local[p].start, finish |-> Collectives!FromRoot(p)[p], told |-> {}])
        PROVE  HybridInv(n)'
    <3>1. PICK d : d = [start |-> local[p].start, finish |-> Collectives!FromRoot(p)[p], told |-> {}]
                   /\ Keeps(p, d)
      BY <2>6
    <3>2. HybridCount("parts") = 4
      BY ONLY TRUE DEF HybridCount
    <3>3. Collectives!FromRoot(p) = Lasts(n, args)
      <4>1. at'[p] = "threads"
        BY <1>0, <2>6 DEF Collectives!Goes, Stands
      <4> QED BY ONLY <1>7, <1>11, <2>0, <2>6, <3>2, <4>1
    <3>4. local[p].start = First(n, args, p)
      <4>1. at[p] = "parts"
        BY <2>6, CollectivesMoves
      <4> QED BY ONLY <1>2, <4>1 DEF HybridFits
    <3>5. HybridFits(n, args, p, "threads", d)
      <4>1. d \in ShareRecord(n, args, p)
        BY ONLY <2>0, <3>1, <3>3, <3>4 DEF ShareRecord
      <4> QED BY ONLY <4>1 DEF HybridFits
    <3>6. local'[p] = d
      BY <1>0, <3>1, KeepsData
    <3> QED BY ONLY <1>0, <1>5, <2>6, <3>1, <3>5, <3>6
  <2> QED BY <1>0, <1>9, <1>11, <2>1, <2>2, <2>3, <2>4, <2>5, <2>6 DEF Collectives!HybridBcast,
             Collectives!Quietly, Collectives!Computes, Collectives!communication, Alone, Collectives!Keep,
             Keeps, Collectives!Broadcasts, Collectives!Scatters
<1> QED BY <1>10, <1>11

(* The hybrid distribution starts in its invariant ...                     *)
LEMMA HybridBegins ==
  ASSUME NEW n \in Nat \ {0}, n \in CountsOf[program], Started(n), program \in Collectives!Hybrid,
         input.range \in Ranges
  PROVE  HybridInv(n)
<1>1. "start" \in HybridPoints
  BY DEF HybridPoints
<1>2. /\ Talks(n, Nothing, HybridCalls(n)) /\ Stands(n, HybridPoints, Nothing)
      /\ \A p \in Procs(n) : at[p] = "start" /\ entered[p] = <<>>
  BY ONLY <1>1, Started(n), StartedTalks
<1>3. PICK args : args = input
  OBVIOUS
<1>4. \A p \in Procs(n) : HybridFits(n, args, p, at[p], local[p])
  BY <1>2 DEF HybridFits
<1>5. \A p \in Procs(n) : HybridCall(n, args, p)
  <2> SUFFICES ASSUME NEW p \in Procs(n) PROVE HybridCall(n, args, p)
    OBVIOUS
  <2>1. at[p] = "start" /\ Len(entered[p]) = 0
    BY <1>2, EmptySeq
  <2>2. 1..Len(entered[p]) = {}
    BY <2>1
  <2> QED BY ONLY <2>1, <2>2 DEF HybridCall, HybridCount
<1> QED BY <1>2, <1>3, <1>4, <1>5 DEF HybridInv, HybridGoes, Runs

(* ... and keeps it while nothing happens.                                 *)
LEMMA HybridStutter ==
  ASSUME NEW n, HybridInv(n), UNCHANGED programVars
  PROVE  HybridInv(n)'
<1>0. /\ program' = program /\ input' = input /\ at' = at /\ local' = local /\ mail' = mail
      /\ entered' = entered /\ waits' = waits /\ output' = output
  BY DEF programVars
<1>1. Runs(program, n, HybridPoints, Nothing, HybridCalls(n), Nothing)'
  BY <1>0 DEF HybridInv, Runs, Talks, Stands
<1>2. \A args : HybridGoes(n, args) => HybridGoes(n, args)'
  BY <1>0 DEF HybridGoes, HybridCall
<1> QED BY <1>0, <1>1, <1>2 DEF HybridInv

(* The parts follow from what every process has been given.                *)
Told(s, t) == (CHOOSE told \in s.told : told.thread = t).range

(* The threads of a process take its part one after the other.             *)
LEMMA HybridThreads ==
  ASSUME NEW n \in Nat \ {0}, NEW args, args.range \in Ranges, NEW p \in Procs(n),
         NEW s, s \in ShareRecord(n, args, p), s.told = Notes(n, args, p)
  PROVE  /\ Told(s, 0)[1] = s.start
         /\ Told(s, ThreadCount - 1)[2] = s.finish
         /\ \A t \in 1..ThreadCount - 1 : Told(s, t)[1] = Told(s, t - 1)[2]
<1>1. PICK w \in Nat : w = Width(n, args, p)
  BY WidthIs
<1>2. PICK a, b \in Nat : a = First(n, args, p) /\ b = First(n, args, p + 1) /\ w = b - a
  BY <1>1, WidthIs DEF Width
<1>3. s.start = a /\ s.finish = b
  BY <1>2 DEF ShareRecord
<1>4. ThreadCount \in Nat \ {0}
  BY NumbersAssumption
<1>5. ASSUME NEW t \in 0..ThreadCount - 1
      PROVE  Told(s, t) = <<a + Part(t, w, ThreadCount), a + Part(t + 1, w, ThreadCount)>>
  <2>1. PICK note : note = Note(n, args, p, t)
    OBVIOUS
  <2>2. note \in s.told /\ note.thread = t
    BY <2>1 DEF Notes, Note
  <2>3. \A told \in s.told : told.thread = t => told = note
    <3>1. \A told \in Notes(n, args, p) : told = Note(n, args, p, told.thread)
      BY ONLY NotesAre
    <3> QED BY ONLY <2>1, <3>1, s.told = Notes(n, args, p)
  <2>4. (CHOOSE told \in s.told : told.thread = t) = note
    BY ONLY <2>2, <2>3
  <2>5. note.range = <<a + Part(t, w, ThreadCount), a + Part(t + 1, w, ThreadCount)>>
    BY ONLY <1>1, <1>2, <2>1 DEF Note
  <2> QED BY ONLY <2>4, <2>5 DEF Told
<1>6. /\ Part(0, w, ThreadCount) = 0 /\ Part(ThreadCount, w, ThreadCount) = w
  BY ONLY <1>4, w \in Nat, PartIs
<1>7. Told(s, 0)[1] = s.start
  <2>1. Told(s, 0) = <<a + Part(0, w, ThreadCount), a + Part(0 + 1, w, ThreadCount)>>
    BY <1>4, <1>5
  <2> QED BY ONLY <1>3, <1>6, <2>1, a \in Nat
<1>8. Told(s, ThreadCount - 1)[2] = s.finish
  <2>1. PICK t \in 0..ThreadCount - 1 : t = ThreadCount - 1 /\ t + 1 = ThreadCount
    BY ONLY <1>4
  <2>2. Told(s, t) = <<a + Part(t, w, ThreadCount), a + Part(ThreadCount, w, ThreadCount)>>
    BY ONLY <1>5, <2>1
  <2>3. a + w = b
    BY ONLY <1>2, a \in Nat, b \in Nat
  <2> QED BY ONLY <1>3, <1>6, <2>1, <2>2, <2>3
<1>9. ASSUME NEW t \in 1..ThreadCount - 1 PROVE Told(s, t)[1] = Told(s, t - 1)[2]
  <2>1. PICK u \in 0..ThreadCount - 1 : u = t - 1 /\ u + 1 = t
    BY ONLY <1>4, t \in 1..ThreadCount - 1
  <2>2. t \in 0..ThreadCount - 1
    BY ONLY <1>4, t \in 1..ThreadCount - 1
  <2>3. Told(s, u) = <<a + Part(u, w, ThreadCount), a + Part(t, w, ThreadCount)>>
    BY ONLY <1>5, <2>1
  <2>4. Told(s, t) = <<a + Part(t, w, ThreadCount), a + Part(t + 1, w, ThreadCount)>>
    BY ONLY <1>5, <2>2
  <2> QED BY ONLY <2>1, <2>3, <2>4
<1> QED BY ONLY <1>7, <1>8, <1>9

(* The parts of the processes, and of their threads, cover the range.      *)
LEMMA HybridMeans ==
  ASSUME NEW n, HybridInv(n)
  PROVE  Collectives!PartsCoverRange
<1>0. Collectives!Processes = Procs(n) /\ Collectives!Count = n /\ n \in Nat \ {0}
  BY CountIs DEF HybridInv, Runs
<1>1. PICK args : HybridGoes(n, args)
  BY DEF HybridInv
<1>2. input = args /\ args.range \in Ranges
  BY <1>1 DEF HybridGoes
<1> DEFINE Known(p) == at[p] = "threads" \/ (at[p] = "ended" /\ input.proper)
           Size(p) == local[p].finish - local[p].start
           RangeOf(p, t) == (CHOOSE told \in local[p].told : told.thread = t).range
<1>3. ASSUME NEW p \in Procs(n), Known(p)
      PROVE  local[p].start = First(n, args, p) /\ local[p].finish = First(n, args, p + 1)
  <2>1. local[p] \in ShareRecord(n, args, p)
    BY <1>1, <1>2, <1>3 DEF HybridGoes, HybridFits
  <2> QED BY <2>1 DEF ShareRecord
<1>4. ASSUME \A p \in Procs(n) : Known(p)
      PROVE  /\ local[n - 1].finish - local[0].start = input.range[2] - input.range[1]
             /\ \A p \in Procs(n) \ {0} : local[p].start = local[p - 1].finish
             /\ \A p, q \in Procs(n) : Size(p) <= Size(q) + 1
  <2>0. \A p \in Procs(n) : local[p].start = First(n, args, p) /\ local[p].finish = First(n, args, p + 1)
    BY <1>3, <1>4
  <2>1. /\ \A k \in Nat : First(n, args, k) \in Nat
        /\ First(n, args, 0) = 0 /\ First(n, args, n) = args.range[2] - args.range[1]
    BY ONLY <1>0, <1>2, HybridFirst
  <2>2. local[0].start = 0
    <3>1. 0 \in Procs(n)
      BY <1>0 DEF Procs
    <3>2. local[0].start = First(n, args, 0)
      BY ONLY <2>0, <3>1
    <3> QED BY ONLY <2>1, <3>2
  <2>3. local[n - 1].finish - local[0].start = input.range[2] - input.range[1]
    <3>1. PICK k \in Procs(n) : k = n - 1 /\ k + 1 = n
      BY <1>0 DEF Procs
    <3>2. local[n - 1].finish = First(n, args, n) /\ First(n, args, n) \in Int
      BY ONLY <1>0, <2>0, <2>1, <3>1
    <3> QED BY ONLY <1>2, <2>1, <2>2, <3>2
  <2>4. ASSUME NEW p \in Procs(n) \ {0} PROVE local[p].start = local[p - 1].finish
    <3>1. PICK k \in Procs(n) : k = p - 1 /\ k + 1 = p
      BY ONLY <1>0, <2>4 DEF Procs
    <3> QED BY ONLY <2>0, <3>1, p \in Procs(n) \ {0}
  <2>5. PICK size \in Nat : \A k \in Nat : \/ First(n, args, k + 1) = First(n, args, k) + size
                                           \/ First(n, args, k + 1) = First(n, args, k) + size + 1
    <3>1. \E size \in Nat : \A k \in Nat : \/ First(n, args, k + 1) = First(n, args, k) + size
                                           \/ First(n, args, k + 1) = First(n, args, k) + size + 1
      BY ONLY <1>0, <1>2, <2>1, HybridFirst
    <3> QED BY ONLY <3>1
  <2>6. ASSUME NEW p \in Procs(n) PROVE Size(p) \in size..size + 1
    <3>1. p \in Nat
      BY DEF Procs
    <3>2. First(n, args, p) \in Nat
      BY ONLY <2>1, <3>1
    <3>3. PICK a, b : a = local[p].start /\ b = local[p].finish
      OBVIOUS
    <3>4. a \in Nat /\ (b = a + size \/ b = a + size + 1)
      BY ONLY <2>0, <2>5, <3>1, <3>2, <3>3, p \in Procs(n)
    <3>5. b - a \in size..size + 1
      BY ONLY <3>4, size \in Nat
    <3> QED BY ONLY <3>3, <3>5
  <2>7. ASSUME NEW p \in Procs(n), NEW q \in Procs(n) PROVE Size(p) <= Size(q) + 1
    <3>1. Size(p) \in size..size + 1 /\ Size(q) \in size..size + 1
      BY <2>6
    <3> HIDE DEF Size
    <3> QED BY ONLY <3>1, size \in Nat
  <2> QED BY ONLY <2>3, <2>4, <2>7
<1>5. ASSUME NEW p \in Procs(n), Known(p), at[p] = "ended"
      PROVE  /\ RangeOf(p, 0)[1] = local[p].start
             /\ RangeOf(p, ThreadCount - 1)[2] = local[p].finish
             /\ \A t \in 1..ThreadCount - 1 : RangeOf(p, t)[1] = RangeOf(p, t - 1)[2]
  <2>1. local[p] \in ShareRecord(n, args, p) /\ local[p].told = Notes(n, args, p)
    BY <1>1, <1>2, <1>5 DEF HybridGoes, HybridFits
  <2>2. PICK s : s = local[p]
    OBVIOUS
  <2>3. /\ Told(s, 0)[1] = s.start
        /\ Told(s, ThreadCount - 1)[2] = s.finish
        /\ \A t \in 1..ThreadCount - 1 : Told(s, t)[1] = Told(s, t - 1)[2]
    BY ONLY <1>0, <1>2, <2>1, <2>2, p \in Procs(n), HybridThreads
  <2> QED BY ONLY <2>2, <2>3 DEF Told
<1> QED BY ONLY <1>0, <1>4, <1>5 DEF Collectives!PartsCoverRange

-----------------------------------------------------------------------------
(* The programs of collective calls together.                              *)
CollectivesInv(n) == LuckyInv(n) \/ HybridInv(n)

(* Every program of collective calls starts in the invariant ...           *)
LEMMA CollectivesBegin ==
  ASSUME Collectives!Init
  PROVE  \E n : CollectivesInv(n)
<1>1. PICK n \in CountsOf[program] : n \in Nat \ {0} /\ Started(n)
  BY CollectivesStart
<1>2. program \in Collectives!Programs /\ input.range \in Ranges
  BY DEF Collectives!Init
<1>3. CollectivesInv(n)
  BY <1>1, <1>2, LuckyBegins, HybridBegins DEF Collectives!Programs, CollectivesInv
<1> QED BY <1>3

(* ... keeps it with every step ...                                        *)
LEMMA CollectivesStep ==
  ASSUME NEW n, CollectivesInv(n), NEW p \in Procs(n), Collectives!Step(Collectives!ProcessStep(p))
  PROVE  CollectivesInv(n)'
<1>1. program' = program /\ input' = input /\ Collectives!ProcessStep(p)
  BY DEF Collectives!Step
<1>2. CASE LuckyInv(n)
  <2>1. program \in {"lucky_number_who", "lucky_number_reduce"}
    BY <1>2 DEF LuckyInv, Collectives!Lucky
  <2>2. \/ program = "lucky_number_who" /\ Collectives!LuckyWho(p)
        \/ program = "lucky_number_reduce" /\ Collectives!LuckyReduce(p)
    BY <1>1, <2>1 DEF Collectives!ProcessStep
  <2> QED BY <1>1, <1>2, <2>2, LuckyStep DEF CollectivesInv
<1>3. CASE HybridInv(n)
  <2>1. program \in {"hybrid_distr_arg", "hybrid_distr_bcast"}
    BY <1>3 DEF HybridInv, Collectives!Hybrid
  <2>2. \/ program = "hybrid_distr_arg" /\ Collectives!HybridArg(p)
        \/ program = "hybrid_distr_bcast" /\ Collectives!HybridBcast(p)
    BY <1>1, <2>1 DEF Collectives!ProcessStep
  <2> QED BY <1>1, <1>3, <2>2, HybridStep DEF CollectivesInv
<1> QED BY <1>2, <1>3 DEF CollectivesInv

(* ... and while nothing happens.                                          *)
LEMMA CollectivesStutter ==
  ASSUME NEW n, CollectivesInv(n), UNCHANGED programVars
  PROVE  CollectivesInv(n)'
BY LuckyStutter, HybridStutter DEF CollectivesInv

(* It says which program runs and the types all of them have.              *)
LEMMA CollectivesRun ==
  ASSUME NEW n, CollectivesInv(n)
  PROVE  /\ program \in Collectives!Programs
         /\ \E name, points, M, E, R : Runs(name, n, points, M, E, R)
         /\ Collectives!CommonTypes({"min", "max", "sum", "tell", "finish", "divide", "part",
                                     "parts", "threads"})
<1>1. /\ program \in Collectives!Programs
      /\ \E name, points, M, E, R :
           /\ Runs(name, n, points, M, E, R)
           /\ points \subseteq {"min", "max", "sum", "tell", "finish", "divide", "part", "parts", "threads"}
                 \cup {"start", "ended", "failed", "aborted"}
  <2>1. CASE LuckyInv(n)
    BY <2>1 DEF LuckyInv, LuckyPoints, Collectives!Programs
  <2>2. CASE HybridInv(n)
    BY <2>2 DEF HybridInv, HybridPoints, Collectives!Programs
  <2> QED BY <2>1, <2>2 DEF CollectivesInv
<1>2. PICK name, points, M, E, R :
        /\ Runs(name, n, points, M, E, R)
        /\ points \subseteq {"min", "max", "sum", "tell", "finish", "divide", "part", "parts", "threads"}
              \cup {"start", "ended", "failed", "aborted"}
  BY <1>1
<1>3. /\ DOMAIN at = Procs(n)
      /\ \A p \in Procs(n) :
              /\ at[p] \in points
              /\ waits[p].receipt \subseteq Procs(n) /\ waits[p].entry \subseteq Procs(n)
              /\ waits[p].receipt = {} \/ waits[p].entry = {}
      /\ \A i \in DOMAIN output : output[i].by \in Procs(n)
  BY <1>2, RunsTypes
<1>4. Collectives!CommonTypes({"min", "max", "sum", "tell", "finish", "divide", "part", "parts", "threads"})
  BY ONLY <1>2, <1>3 DEF Collectives!CommonTypes, Collectives!Processes
<1> QED BY <1>1, <1>2, <1>4

(* The variables have their types.                                         *)
LEMMA CollectivesTypes ==
  ASSUME NEW n, CollectivesInv(n)
  PROVE  Collectives!TypeOK
<1>1. program \in Collectives!Lucky => LuckyInv(n)
  BY DEF CollectivesInv, HybridInv, Collectives!Lucky, Collectives!Hybrid
<1>2. program \in Collectives!Lucky =>
        \A p \in Collectives!Processes : at[p] # "start" =>
           local[p].number \in LuckyNumbers /\ local[p].tells \subseteq LuckyWords
  BY <1>1, LuckyTypes
<1> QED BY <1>2, CollectivesRun DEF Collectives!TypeOK, LuckyWords

(* The statistics of the lucky numbers are right.                          *)
LEMMA CollectivesStatistics ==
  ASSUME NEW n, CollectivesInv(n)
  PROVE  Collectives!StatisticsRight
<1>1. CASE LuckyInv(n)
  BY <1>1, LuckyMeans
<1>2. CASE HybridInv(n)
  <2>1. program \notin Collectives!Lucky
    BY <1>2 DEF HybridInv, Collectives!Lucky, Collectives!Hybrid
  <2> QED BY <2>1 DEF Collectives!StatisticsRight
<1> QED BY <1>1, <1>2 DEF CollectivesInv

(* The parts of the hybrid distribution cover the range.                   *)
LEMMA CollectivesParts ==
  ASSUME NEW n, CollectivesInv(n)
  PROVE  Collectives!PartsCoverRange
<1>1. CASE HybridInv(n)
  BY <1>1, HybridMeans
<1>2. CASE LuckyInv(n)
  <2>1. program \notin Collectives!Hybrid
    BY <1>2 DEF LuckyInv, Collectives!Lucky, Collectives!Hybrid
  <2> QED BY <2>1 DEF Collectives!PartsCoverRange
<1> QED BY <1>1, <1>2 DEF CollectivesInv

-----------------------------------------------------------------------------
(* The heat simulation: what process q of n has of a number of things.     *)
HeatShare(n, size, q) == [i \in 1..Part(q + 1, size, n) - Part(q, size, n) |-> Part(q, size, n) + i - 1]

(* The lesser of two numbers.                                              *)
LEMMA HeatMin ==
  ASSUME NEW a \in Nat, NEW b \in Nat
  PROVE  Heat!Min({a, b}) = IF a <= b THEN a ELSE b
<1>1. Heat!Min({a, b}) = CHOOSE x \in {a, b} : \A y \in {a, b} : x <= y
  BY DEF Heat!Min
<1>2. \E x \in {a, b} : \A y \in {a, b} : x <= y
  <2>1. a <= b \/ b <= a
    OBVIOUS
  <2> QED BY <2>1
<1>3. \A x \in {a, b} : (\A y \in {a, b} : x <= y) => x = IF a <= b THEN a ELSE b
  OBVIOUS
<1> QED BY ONLY <1>1, <1>2, <1>3

(* StartOf and CountOf divide as the parts do.                             *)
LEMMA HeatParts ==
  ASSUME NEW n \in Nat \ {0}, Heat!Count = n, NEW q \in Procs(n), NEW size \in Nat
  PROVE  /\ Heat!StartOf(q, size) = Part(q, size, n)
         /\ Heat!CountOf(q, size) = Part(q + 1, size, n) - Part(q, size, n)
         /\ Part(q, size, n) \in Nat /\ Part(q + 1, size, n) \in Nat
         /\ Part(q, size, n) <= Part(q + 1, size, n)
<1>1. q \in Nat /\ n \in Nat \ {0}
  BY DEF Procs
<1>2. PICK d, r \in Nat : d = size \div n /\ r = size % n
  BY ONLY <1>1, size \in Nat, Euclid
<1>3. /\ \A k \in Nat : Part(k, size, n) \in Nat
      /\ \A k \in Nat : Part(k + 1, size, n) = Part(k, size, n) + (size \div n) + (IF k < size % n THEN 1 ELSE 0)
  BY ONLY <1>1, size \in Nat, PartIs
<1>4. Heat!StartOf(q, size) = Part(q, size, n)
  <2>1. Heat!Min({q, r}) = IF q <= r THEN q ELSE r
    BY ONLY <1>1, r \in Nat, HeatMin
  <2> QED BY ONLY <1>2, <2>1, Heat!Count = n DEF Heat!StartOf, Part
<1>5. PICK a, b \in Nat : a = Part(q, size, n) /\ b = Part(q + 1, size, n)
  BY ONLY <1>1, <1>3
<1>6. b = a + d + (IF q < r THEN 1 ELSE 0)
  BY ONLY <1>1, <1>2, <1>3, <1>5
<1>7. Heat!CountOf(q, size) = b - a
  <2>1. Heat!CountOf(q, size) = d + (IF q < r THEN 1 ELSE 0)
    BY ONLY <1>2, Heat!Count = n DEF Heat!CountOf
  <2> QED BY ONLY <1>6, <2>1, a \in Nat, d \in Nat
<1>8. a <= b
  BY ONLY <1>6, a \in Nat, d \in Nat
<1> QED BY ONLY <1>4, <1>5, <1>7, <1>8

(* The lines that are dealt to a process are those of its part.            *)
LEMMA HeatShares ==
  ASSUME NEW n \in Nat \ {0}, Heat!Count = n, NEW q \in Procs(n), NEW size \in Nat, input.lines = size
  PROVE  /\ Heat!Share(q) = HeatShare(n, size, q)
         /\ HeatShare(n, size, q) \in Seq(Int)
         /\ \A i \in Int : i \in Heat!Range(HeatShare(n, size, q)) <=> InPart(i, q, size, n)
<1>1. PICK a, b \in Nat : a = Part(q, size, n) /\ b = Part(q + 1, size, n) /\ a <= b
  BY HeatParts
<1>2. HeatShare(n, size, q) = [i \in 1..b - a |-> a + i - 1]
  BY ONLY <1>1 DEF HeatShare
<1>3. Heat!Share(q) = HeatShare(n, size, q)
  <2>1. Heat!StartOf(q, size) = a /\ Heat!CountOf(q, size) = b - a
    BY ONLY <1>1, HeatParts, n \in Nat \ {0}, Heat!Count = n, q \in Procs(n), size \in Nat
  <2> QED BY ONLY <1>2, <2>1, input.lines = size DEF Heat!Share
<1>4. HeatShare(n, size, q) \in Seq(Int)
  <2>1. b - a \in Nat
    BY <1>1
  <2>2. [i \in 1..b - a |-> a + i - 1] \in [1..b - a -> Int]
    BY <1>1
  <2> QED BY ONLY <1>2, <2>1, <2>2, SeqDef
<1>5. ASSUME NEW i \in Int
      PROVE  i \in Heat!Range(HeatShare(n, size, q)) <=> InPart(i, q, size, n)
  <2>1. Heat!Range(HeatShare(n, size, q)) = {a + j - 1 : j \in 1..b - a}
    BY ONLY <1>2 DEF Heat!Range
  <2>2. i \in {a + j - 1 : j \in 1..b - a} <=> a <= i /\ i < b
    <3>1. ASSUME a <= i, i < b PROVE \E j \in 1..b - a : i = a + j - 1
      <4>1. i - a + 1 \in 1..b - a /\ i = a + (i - a + 1) - 1
        BY <1>1, <3>1
      <4> QED BY <4>1
    <3>2. \A j \in 1..b - a : a <= a + j - 1 /\ a + j - 1 < b
      BY <1>1
    <3> QED BY <3>1, <3>2
  <2> QED BY ONLY <1>1, <2>1, <2>2 DEF InPart
<1> QED BY ONLY <1>3, <1>4, <1>5

(* The rows of a process are those of its part of the plate.               *)
LEMMA HeatRowsOf ==
  ASSUME NEW n \in Nat \ {0}, Heat!Count = n, NEW q \in Procs(n)
  PROVE  /\ Heat!RowsOf(q) = {i \in 0..PlateRows - 1 : InPart(i, q, PlateRows, n)}
         /\ Heat!Cardinality(Heat!RowsOf(q)) \in 0..PlateRows
<1>0. PlateRows \in Nat
  BY NumbersAssumption
<1>1. PICK a, b \in Nat : a = Part(q, PlateRows, n) /\ b = Part(q + 1, PlateRows, n) /\ a <= b
  BY <1>0, HeatParts
<1>2. b <= PlateRows
  <2>1. Part(n, PlateRows, n) = PlateRows
    BY <1>0, PartIs
  <2>2. PICK c \in Nat : c = q + 1 /\ c <= n
    BY DEF Procs
  <2>3. Part(c, PlateRows, n) <= Part(n, PlateRows, n)
    BY ONLY <1>0, <2>2, n \in Nat \ {0}, PartsGrow
  <2> QED BY ONLY <1>1, <2>1, <2>2, <2>3
<1>3. Heat!RowsOf(q) = a..b - 1
  <2>1. Heat!StartOf(q, PlateRows) = a /\ Heat!CountOf(q, PlateRows) = b - a
    BY ONLY <1>0, <1>1, HeatParts, n \in Nat \ {0}, Heat!Count = n, q \in Procs(n)
  <2>2. a + (b - a) - 1 = b - 1
    BY <1>1
  <2> QED BY ONLY <2>1, <2>2 DEF Heat!RowsOf
<1>4. a..b - 1 = {i \in 0..PlateRows - 1 : a <= i /\ i < b}
  BY <1>0, <1>1, <1>2
<1>5. Heat!RowsOf(q) = {i \in 0..PlateRows - 1 : InPart(i, q, PlateRows, n)}
  BY ONLY <1>1, <1>3, <1>4 DEF InPart
<1>6. Heat!Cardinality(Heat!RowsOf(q)) \in 0..PlateRows
  <2>1. /\ IsFiniteSet(0..PlateRows - 1)
        /\ Cardinality(0..PlateRows - 1) = IF 0 > PlateRows - 1 THEN 0 ELSE (PlateRows - 1) - 0 + 1
    BY <1>0, FS_Interval
  <2>2. Cardinality(0..PlateRows - 1) = PlateRows
    BY <1>0, <2>1
  <2>3. PICK S : S = 0..PlateRows - 1
    OBVIOUS
  <2>4. PICK T \in SUBSET S : T = Heat!RowsOf(q)
    BY <1>5, <2>3
  <2>5. IsFiniteSet(T) /\ Cardinality(T) <= Cardinality(S)
    BY ONLY <2>1, <2>3, T \in SUBSET S, FS_Subset
  <2>6. Cardinality(T) \in Nat
    BY ONLY <2>5, FS_CardinalityType
  <2>7. Heat!Cardinality(T) = Cardinality(T)
    BY ONLY SameCounts
  <2>8. Cardinality(T) \in 0..PlateRows
    BY ONLY <1>0, <2>2, <2>3, <2>5, <2>6
  <2> QED BY ONLY <2>4, <2>7, <2>8
<1> QED BY <1>5, <1>6

(* Every row of a plate is one process's.                                  *)
LEMMA HeatRowsOnce ==
  ASSUME NEW n \in Nat \ {0}, Heat!Count = n, Heat!Processes = Procs(n)
  PROVE  Heat!EachRowOnce
<1>0. PlateRows \in Nat /\ Procs(n) = 0..n - 1
  BY NumbersAssumption DEF Procs
<1>1. \A q \in Procs(n) : Heat!RowsOf(q) = {i \in 0..PlateRows - 1 : InPart(i, q, PlateRows, n)}
  BY HeatRowsOf
<1>2. ASSUME NEW i \in 0..PlateRows - 1
      PROVE  \E k \in Procs(n) : \A j \in Procs(n) : InPart(i, j, PlateRows, n) <=> j = k
  <2>1. \E k \in 0..n - 1 : \A j \in 0..n - 1 : InPart(i, j, PlateRows, n) <=> j = k
    BY ONLY <1>0, n \in Nat \ {0}, i \in 0..PlateRows - 1, PartsOnce
  <2> QED BY ONLY <2>1 DEF Procs
<1>3. UNION {Heat!RowsOf(p) : p \in Procs(n)} = 0..PlateRows - 1
  <2>1. PICK S : S = 0..PlateRows - 1
    OBVIOUS
  <2>2. \A q \in Procs(n) : Heat!RowsOf(q) \subseteq S
    BY ONLY <1>1, <2>1
  <2>3. \A i \in S : \E q \in Procs(n) : i \in Heat!RowsOf(q)
    BY ONLY <1>1, <1>2, <2>1
  <2>4. UNION {Heat!RowsOf(p) : p \in Procs(n)} = S
    BY ONLY <2>2, <2>3
  <2> QED BY ONLY <2>1, <2>4
<1>4. ASSUME NEW p \in Procs(n), NEW q \in Procs(n), p # q
      PROVE  Heat!RowsOf(p) \cap Heat!RowsOf(q) = {}
  BY ONLY <1>1, <1>2, <1>4
<1> QED BY ONLY <1>3, <1>4, Heat!Processes = Procs(n) DEF Heat!EachRowOnce

-----------------------------------------------------------------------------
(* How far the simulation is: all have taken part in `level' reductions.   *)
(* The numbers of states of the plates that settled before the last of     *)
(* them and the state it was about are `past' and `before'; those after it *)
(* are `done' and `now'.  Who has entered the next one waits for somebody. *)
HeatPoints == {"start", "deal", "plate", "exchange", "above", "lower", "below", "compute",
               "agree", "gather", "ended", "failed", "aborted"}
HeatStates == 0..MostStates - 1
HeatInputs == [proper : BOOLEAN, readable : BOOLEAN, lines : Nat]
HeatWorlds == [level : Nat, past : Seq(Nat), before : HeatStates, done : Seq(Nat), now : HeatStates,
               settled : BOOLEAN, job : HeatInputs]
HeatLetters(n) == [lines : Seq(Int)] \cup [from : Procs(n), plate : Nat, state : 0..MostStates]
HeatWords == Nat \cup BOOLEAN
HeatResults == [line : Int, states : Nat]
HeatRecord(n) ==
  [dealt : 1..n, lines : Seq(Int), above : HeatLetters(n) \cup {<<>>}, below : HeatLetters(n) \cup {<<>>},
   state : 0..MostStates, settled : BOOLEAN, row : 0..PlateRows, results : Seq(HeatResults)]

HeatRow(w, p) == [from |-> p, plate |-> Len(w.done) + 1, state |-> w.now]
HeatDeal(n, w, q) == [lines |-> HeatShare(n, w.job.lines, q)]
Recorded(d, h) == Len(d.results) = Len(h) /\ \A i \in 1..Len(h) : d.results[i].states = h[i]

(* A process at a place, with its data d, its entries e, and its waits t.  *)
HeatBefore(w, d, e) == Len(e) = w.level + 1 /\ w.level # 0 /\ Recorded(d, w.past) /\ d.state = w.before
HeatBeyond(w, d, e) ==
  /\ Len(e) = w.level + 2 /\ Recorded(d, w.done) /\ d.state = w.now
  /\ e[w.level + 2] \in BOOLEAN
  /\ w.now + 1 < MostStates \/ e[w.level + 2] = TRUE

HeatFits(n, w, q, place, d, e, t) ==
  /\ place \in HeatPoints \ {"aborted"}
  /\ place \in {"start", "failed"} => Len(e) = 0 /\ d = <<>> /\ w.level = 0
  /\ place = "failed" /\ q # 0 => ~w.job.proper
  /\ place \notin {"start", "failed"} => d \in HeatRecord(n) /\ w.job.proper
  /\ place = "deal" => Len(e) = 1 /\ w.level = 0 /\ d.results = <<>>
  /\ place \notin {"start", "failed", "deal"} =>
       d.lines = HeatShare(n, w.job.lines, q) /\ (q = 0 => d.dealt = n)
  /\ place \in {"plate", "ended"} => Len(e) = w.level + 1 /\ Recorded(d, w.done) /\ w.now = 0
  /\ place \in {"exchange", "above", "lower", "below", "compute"} =>
       Len(e) = w.level + 1 /\ Recorded(d, w.done) /\ d.state = w.now
  /\ place = "agree" => t.entry = Procs(n) /\ (HeatBefore(w, d, e) \/ HeatBeyond(w, d, e))
  /\ place = "gather" =>
       /\ Len(e) = w.level + 1 /\ w.level # 0 /\ w.settled
       /\ Recorded(d, w.past) /\ d.state = w.before + 1
  /\ place \in {"exchange", "above", "lower", "below", "compute", "agree", "gather"} =>
       Len(d.results) < Len(d.lines)
  /\ place = "above" => q # 0
  /\ place = "below" => q # n - 1
  /\ place \in {"lower", "below", "compute"} /\ q # 0 => d.above = HeatRow(w, q - 1)
  /\ place = "compute" /\ q # n - 1 /\ (q # 0 \/ w.done = <<>>) => d.below = HeatRow(w, q + 1)

(* What the last reduction, about the state before, has made of it.        *)
HeatPast(w) ==
  /\ w.level = 0 => w.done = <<>> /\ w.now = 0
  /\ w.level # 0 => \/ w.settled /\ w.done = Append(w.past, w.before + 1) /\ w.now = 0
                    \/ ~w.settled /\ w.done = w.past /\ w.now = w.before + 1
HeatVoices(n, w, E) ==
  w.level # 0 => /\ \A q \in Procs(n) : E[q][w.level + 1] \in BOOLEAN
                 /\ w.settled <=> \A q \in Procs(n) : E[q][w.level + 1] = TRUE

(* Whether a process has sent its row of the state to the next one, has    *)
(* got that of the one before, and so for the way back.                    *)
Past(w, place, e) == place = "agree" /\ Len(e) = w.level + 2
SentDown(w, place, e) == place \in {"below", "compute"} \/ Past(w, place, e)
GotDown(w, place, e) == place \in {"lower", "below", "compute"} \/ Past(w, place, e)
SentUp(w, place, e) == place \in {"above", "lower", "below", "compute"} \/ Past(w, place, e)
GotUp(w, place, e) == place = "compute" \/ Past(w, place, e)

(* What is on its way from p to a later process q, and back from q to p:   *)
(* the lines that are dealt, and rows.                                     *)
HasDealt(q, place, d) == place \notin {"start", "failed"} /\ q < d.dealt
Due(p, q, A, L) == p = 0 /\ HasDealt(q, A[p], L[p]) /\ A[q] \in {"start", "deal"}
Owes(w, p, q, A, E) == q = p + 1 /\ SentDown(w, A[p], E[p]) /\ ~GotDown(w, A[q], E[q])
Lent(w, q, p, A, E) == SentUp(w, A[q], E[q]) /\ ~GotUp(w, A[p], E[p])

HeatDown(n, w, p, q, A, L, M, E) ==
  /\ q = p + 1 /\ GotDown(w, A[q], E[q]) => SentDown(w, A[p], E[p])
  /\ p = 0 /\ A[q] \notin {"start", "deal", "failed"} => HasDealt(q, A[p], L[p])
  /\ Due(p, q, A, L) /\ Owes(w, p, q, A, E) => M[p][q] = <<HeatDeal(n, w, q), HeatRow(w, p)>>
  /\ Due(p, q, A, L) /\ ~Owes(w, p, q, A, E) => M[p][q] = <<HeatDeal(n, w, q)>>
  /\ ~Due(p, q, A, L) /\ Owes(w, p, q, A, E) => M[p][q] = <<HeatRow(w, p)>>
  /\ ~Due(p, q, A, L) /\ ~Owes(w, p, q, A, E) => M[p][q] = <<>>

HeatUp(w, q, p, A, M, E) ==
  /\ GotUp(w, A[p], E[p]) => SentUp(w, A[q], E[q])
  /\ Lent(w, q, p, A, E) => M[q][p] = <<HeatRow(w, q)>>
  /\ ~Lent(w, q, p, A, E) => M[q][p] = <<>>

HeatKeeps(n, w, A, L, M, E, W) ==
  /\ w \in HeatWorlds /\ HeatPast(w) /\ HeatVoices(n, w, E)
  /\ \A q \in Procs(n) : HeatFits(n, w, q, A[q], L[q], E[q], W[q])
  /\ \A p, q \in Procs(n) : p < q => HeatDown(n, w, p, q, A, L, M, E)
  /\ \A p, q \in Procs(n) : q = p + 1 /\ (p # 0 \/ w.done = <<>>) => HeatUp(w, q, p, A, M, E)

HeatHolds(n, w, A, L, M, E, W) ==
  /\ HeatKeeps(n, w, A, L, M, E, W)
  /\ \E q \in Procs(n) : ~Past(w, A[q], E[q])

(* When the last one enters the reduction, all are one reduction further.  *)
LEMMA HeatFinalists ==
  ASSUME NEW n, NEW w, NEW A, NEW L, NEW M, NEW E, NEW W, HeatKeeps(n, w, A, L, M, E, W),
         \A q \in Procs(n) : Past(w, A[q], E[q])
  PROVE  /\ \A q \in Procs(n) :
              /\ A[q] = "agree" /\ Len(E[q]) = w.level + 2 /\ HeatBeyond(w, L[q], E[q])
              /\ HeatFits(n, w, q, A[q], L[q], E[q], W[q])
         /\ \A p, q \in Procs(n) : p < q => M[p][q] = <<>>
         /\ \A p, q \in Procs(n) : q = p + 1 /\ (p # 0 \/ w.done = <<>>) => M[q][p] = <<>>
<1>0. w \in HeatWorlds /\ w.level \in Nat
  BY DEF HeatKeeps, HeatWorlds
<1>1. \A q \in Procs(n) : A[q] = "agree" /\ Len(E[q]) = w.level + 2
  BY DEF Past
<1>2. ASSUME NEW q \in Procs(n)
      PROVE HeatFits(n, w, q, A[q], L[q], E[q], W[q]) /\ HeatBeyond(w, L[q], E[q])
  <2>1. HeatFits(n, w, q, A[q], L[q], E[q], W[q])
    BY DEF HeatKeeps
  <2>2. HeatBefore(w, L[q], E[q]) \/ HeatBeyond(w, L[q], E[q])
    BY ONLY <1>1, <2>1, q \in Procs(n) DEF HeatFits
  <2>3. ~HeatBefore(w, L[q], E[q])
    BY ONLY <1>0, <1>1, q \in Procs(n) DEF HeatBefore
  <2> QED BY <2>1, <2>2, <2>3
<1>3. \A q \in Procs(n) : /\ SentDown(w, A[q], E[q]) /\ GotDown(w, A[q], E[q])
                          /\ SentUp(w, A[q], E[q]) /\ GotUp(w, A[q], E[q])
  BY DEF SentDown, GotDown, SentUp, GotUp
<1>4. ASSUME NEW p \in Procs(n), NEW q \in Procs(n), p < q PROVE M[p][q] = <<>>
  <2>1. HeatDown(n, w, p, q, A, L, M, E)
    BY <1>4 DEF HeatKeeps
  <2>2. ~Due(p, q, A, L) /\ ~Owes(w, p, q, A, E)
    BY ONLY <1>1, <1>3, p \in Procs(n), q \in Procs(n) DEF Due, Owes
  <2> QED BY ONLY <2>1, <2>2 DEF HeatDown
<1>5. ASSUME NEW p \in Procs(n), NEW q \in Procs(n), q = p + 1, p # 0 \/ w.done = <<>>
      PROVE  M[q][p] = <<>>
  <2>1. HeatUp(w, q, p, A, M, E)
    BY <1>5 DEF HeatKeeps
  <2>2. ~Lent(w, q, p, A, E)
    BY ONLY <1>3, p \in Procs(n), q \in Procs(n) DEF Lent
  <2> QED BY ONLY <2>1, <2>2 DEF HeatUp
<1> QED BY ONLY <1>1, <1>2, <1>4, <1>5

(* So there is a world in which not all have entered the next one.         *)
LEMMA HeatTurn ==
  ASSUME NEW n \in Nat \ {0}, NEW w, NEW A, NEW L, NEW M, NEW E, NEW W, HeatKeeps(n, w, A, L, M, E, W)
  PROVE  \E v : v.job = w.job /\ HeatHolds(n, v, A, L, M, E, W)
<1>1. CASE \E q \in Procs(n) : ~Past(w, A[q], E[q])
  BY <1>1 DEF HeatHolds
<1>2. CASE \A q \in Procs(n) : Past(w, A[q], E[q])
  <2>0. /\ w \in HeatWorlds /\ w.level \in Nat /\ w.now \in HeatStates /\ w.done \in Seq(Nat)
        /\ w.job \in HeatInputs
    BY DEF HeatKeeps, HeatWorlds
  <2>1. /\ \A q \in Procs(n) :
             /\ A[q] = "agree" /\ Len(E[q]) = w.level + 2 /\ HeatBeyond(w, L[q], E[q])
             /\ HeatFits(n, w, q, A[q], L[q], E[q], W[q])
        /\ \A p, q \in Procs(n) : p < q => M[p][q] = <<>>
        /\ \A p, q \in Procs(n) : q = p + 1 /\ (p # 0 \/ w.done = <<>>) => M[q][p] = <<>>
    BY ONLY <1>2, HeatKeeps(n, w, A, L, M, E, W), HeatFinalists
  <2>2. \A q \in Procs(n) : /\ E[q][w.level + 2] \in BOOLEAN
                            /\ w.now + 1 < MostStates \/ E[q][w.level + 2] = TRUE
                            /\ Recorded(L[q], w.done) /\ L[q].state = w.now
    BY ONLY <2>1 DEF HeatBeyond
  <2>3. PICK v : /\ v \in HeatWorlds /\ v.level = w.level + 1 /\ v.past = w.done /\ v.before = w.now
                 /\ v.job = w.job /\ HeatPast(v)
                 /\ v.settled <=> \A q \in Procs(n) : E[q][w.level + 2] = TRUE
    <3>0. /\ MostStates \in Nat \ {0} /\ 0 \in HeatStates
      BY NumbersAssumption DEF HeatStates
    <3>1. CASE \A q \in Procs(n) : E[q][w.level + 2] = TRUE
      <4>1. PICK h \in Seq(Nat) : h = Append(w.done, w.now + 1)
        <5>1. w.now + 1 \in Nat
          BY <2>0 DEF HeatStates
        <5> QED BY <2>0, <5>1, AppendProperties
      <4>2. PICK v : v = [level |-> w.level + 1, past |-> w.done, before |-> w.now, done |-> h, now |-> 0,
                          settled |-> TRUE, job |-> w.job]
        OBVIOUS
      <4>3. v \in HeatWorlds
        BY <2>0, <3>0, <4>2 DEF HeatWorlds
      <4>4. HeatPast(v)
        BY <2>0, <4>1, <4>2 DEF HeatPast
      <4> QED BY <3>1, <4>2, <4>3, <4>4
    <3>2. CASE ~(\A q \in Procs(n) : E[q][w.level + 2] = TRUE)
      <4>1. w.now + 1 \in HeatStates
        BY <2>0, <2>2, <3>0, <3>2 DEF HeatStates
      <4>2. PICK v : v = [level |-> w.level + 1, past |-> w.done, before |-> w.now, done |-> w.done,
                          now |-> w.now + 1, settled |-> FALSE, job |-> w.job]
        OBVIOUS
      <4>3. v \in HeatWorlds
        BY <2>0, <4>1, <4>2 DEF HeatWorlds
      <4>4. HeatPast(v)
        BY <2>0, <4>2 DEF HeatPast
      <4> QED BY <3>2, <4>2, <4>3, <4>4
    <3> QED BY <3>1, <3>2
  <2>4. v.level # 0 /\ v.level + 1 = w.level + 2 /\ v.level \in Nat
    BY <2>0, <2>3
  <2>5. HeatVoices(n, v, E)
    BY ONLY <2>2, <2>3, <2>4 DEF HeatVoices
  <2>6. ASSUME NEW q \in Procs(n) PROVE HeatFits(n, v, q, A[q], L[q], E[q], W[q]) /\ ~Past(v, A[q], E[q])
    <3>1. A[q] = "agree" /\ Len(E[q]) = v.level + 1
      BY <2>1, <2>4
    <3>2. HeatBefore(v, L[q], E[q])
      BY ONLY <2>2, <2>3, <2>4, <3>1, q \in Procs(n) DEF HeatBefore
    <3>3. HeatFits(n, v, q, A[q], L[q], E[q], W[q])
      <4>1. HeatFits(n, w, q, A[q], L[q], E[q], W[q])
        BY <2>1
      <4> QED BY ONLY <2>3, <3>1, <3>2, <4>1 DEF HeatFits
    <3>4. ~Past(v, A[q], E[q])
      BY ONLY <2>4, <3>1 DEF Past
    <3> QED BY <3>3, <3>4
  <2>7. \A q \in Procs(n) : /\ ~SentDown(v, A[q], E[q]) /\ ~GotDown(v, A[q], E[q])
                            /\ ~SentUp(v, A[q], E[q]) /\ ~GotUp(v, A[q], E[q])
    BY ONLY <2>1, <2>6 DEF SentDown, GotDown, SentUp, GotUp
  <2>8. ASSUME NEW p \in Procs(n), NEW q \in Procs(n), p < q PROVE HeatDown(n, v, p, q, A, L, M, E)
    <3>1. ~Due(p, q, A, L) /\ ~Owes(v, p, q, A, E) /\ M[p][q] = <<>>
      BY ONLY <2>1, <2>7, <2>8, p \in Procs(n), q \in Procs(n) DEF Due, Owes
    <3>2. p = 0 => HasDealt(q, A[p], L[p])
      <4>1. HeatDown(n, w, p, q, A, L, M, E)
        BY <2>8 DEF HeatKeeps
      <4>2. A[q] = "agree"
        BY <2>1
      <4> QED BY ONLY <4>1, <4>2 DEF HeatDown
    <3> QED BY ONLY <2>7, <3>1, <3>2, q \in Procs(n) DEF HeatDown
  <2>9. ASSUME NEW p \in Procs(n), NEW q \in Procs(n), q = p + 1, p # 0 \/ v.done = <<>>
        PROVE  HeatUp(v, q, p, A, M, E)
    <3>1. p # 0 \/ w.done = <<>>
      <4>1. v.done = <<>> => w.done = <<>>
        <5>1. v.done = w.done \/ v.done = Append(w.done, w.now + 1)
          BY ONLY <2>3, <2>4 DEF HeatPast
        <5>2. Append(w.done, w.now + 1) # <<>>
          <6>1. w.now + 1 \in Nat
            BY <2>0 DEF HeatStates
          <6>2. PICK h \in Seq(Nat), k \in Nat : h = w.done /\ k = w.now + 1
            BY ONLY <2>0, <6>1
          <6>3. Append(h, k) # <<>>
            BY ONLY h \in Seq(Nat), k \in Nat, AppendProperties
          <6> QED BY ONLY <6>2, <6>3
        <5> QED BY ONLY <5>1, <5>2
      <4> QED BY <2>9, <4>1
    <3>2. M[q][p] = <<>> /\ ~Lent(v, q, p, A, E) /\ ~GotUp(v, A[p], E[p])
      BY ONLY <2>1, <2>7, <2>9, <3>1, p \in Procs(n), q \in Procs(n) DEF Lent
    <3> QED BY ONLY <3>2 DEF HeatUp
  <2>10. 0 \in Procs(n)
    BY DEF Procs
  <2>11. HeatKeeps(n, v, A, L, M, E, W)
    BY ONLY <2>3, <2>5, <2>6, <2>8, <2>9 DEF HeatKeeps
  <2>12. HeatHolds(n, v, A, L, M, E, W)
    BY ONLY <2>6, <2>10, <2>11 DEF HeatHolds
  <2> QED BY <2>3, <2>12
<1> QED BY <1>1, <1>2

(* A step of x alone, which leaves what all have entered as it is.         *)
HeatMade(n, w, x) ==
  /\ n \in Nat \ {0} /\ x \in Procs(n) /\ HeatKeeps(n, w, at, local, mail, entered, waits)
  /\ \A q \in Procs(n) : q # x =>
       at'[q] = at[q] /\ local'[q] = local[q] /\ entered'[q] = entered[q] /\ waits'[q] = waits[q]
  /\ w.level # 0 => entered'[x][w.level + 1] = entered[x][w.level + 1]

DownNow(n, w, p, q) == HeatDown(n, w, p, q, at', local', mail', entered')
UpNow(w, q, p) == HeatUp(w, q, p, at', mail', entered')

HeatDone(n, w) == \E v : v.job = w.job /\ HeatHolds(n, v, at', local', mail', entered', waits')

(* A step of x keeps the invariant if x fits its new place and its mail,   *)
(* from and to everybody, is what it has to be.                            *)
LEMMA HeatConcludes ==
  ASSUME NEW n, NEW w, NEW x, HeatMade(n, w, x),
         HeatFits(n, w, x, at'[x], local'[x], entered'[x], waits'[x]),
         \A p, q \in Procs(n) : p # x /\ q # x => mail'[p][q] = mail[p][q],
         \A p \in Procs(n) : p < x => DownNow(n, w, p, x),
         \A q \in Procs(n) : x < q => DownNow(n, w, x, q),
         \A p \in Procs(n) : x = p + 1 /\ (p # 0 \/ w.done = <<>>) => UpNow(w, x, p),
         \A q \in Procs(n) : q = x + 1 /\ (x # 0 \/ w.done = <<>>) => UpNow(w, q, x)
  PROVE  HeatDone(n, w)
<1>1. /\ n \in Nat \ {0} /\ x \in Procs(n) /\ HeatKeeps(n, w, at, local, mail, entered, waits)
      /\ \A q \in Procs(n) : q # x =>
           at'[q] = at[q] /\ local'[q] = local[q] /\ entered'[q] = entered[q] /\ waits'[q] = waits[q]
      /\ w.level # 0 => entered'[x][w.level + 1] = entered[x][w.level + 1]
  BY DEF HeatMade
<1>2. w \in HeatWorlds /\ HeatPast(w)
  BY <1>1 DEF HeatKeeps
<1>3. HeatVoices(n, w, entered')
  <2>1. HeatVoices(n, w, entered)
    BY <1>1 DEF HeatKeeps
  <2>2. w.level # 0 => \A q \in Procs(n) : entered'[q][w.level + 1] = entered[q][w.level + 1]
    BY ONLY <1>1
  <2> QED BY ONLY <2>1, <2>2 DEF HeatVoices
<1>4. \A q \in Procs(n) : HeatFits(n, w, q, at'[q], local'[q], entered'[q], waits'[q])
  <2>1. \A q \in Procs(n) : HeatFits(n, w, q, at[q], local[q], entered[q], waits[q])
    BY <1>1 DEF HeatKeeps
  <2> QED BY ONLY <1>1, <2>1, HeatFits(n, w, x, at'[x], local'[x], entered'[x], waits'[x])
<1>5. ASSUME NEW p \in Procs(n), NEW q \in Procs(n), p < q
      PROVE  HeatDown(n, w, p, q, at', local', mail', entered')
  <2>1. CASE p = x
    BY <1>5, <2>1 DEF DownNow
  <2>2. CASE q = x
    BY <1>5, <2>2 DEF DownNow
  <2>3. CASE p # x /\ q # x
    <3>1. HeatDown(n, w, p, q, at, local, mail, entered)
      BY <1>1, <1>5 DEF HeatKeeps
    <3>2. /\ at'[p] = at[p] /\ local'[p] = local[p] /\ entered'[p] = entered[p]
          /\ at'[q] = at[q] /\ local'[q] = local[q] /\ entered'[q] = entered[q]
          /\ mail'[p][q] = mail[p][q]
      BY <1>1, <2>3
    <3>3. /\ Due(p, q, at', local') <=> Due(p, q, at, local)
          /\ Owes(w, p, q, at', entered') <=> Owes(w, p, q, at, entered)
      BY ONLY <3>2 DEF Due, Owes
    <3> QED BY ONLY <3>1, <3>2, <3>3 DEF HeatDown
  <2> QED BY <2>1, <2>2, <2>3
<1>6. ASSUME NEW p \in Procs(n), NEW q \in Procs(n), q = p + 1, p # 0 \/ w.done = <<>>
      PROVE  HeatUp(w, q, p, at', mail', entered')
  <2>1. CASE p = x
    BY <1>6, <2>1 DEF UpNow
  <2>2. CASE q = x
    BY <1>6, <2>2 DEF UpNow
  <2>3. CASE p # x /\ q # x
    <3>1. HeatUp(w, q, p, at, mail, entered)
      BY <1>1, <1>6 DEF HeatKeeps
    <3>2. /\ at'[p] = at[p] /\ entered'[p] = entered[p]
          /\ at'[q] = at[q] /\ entered'[q] = entered[q]
          /\ mail'[q][p] = mail[q][p]
      BY <1>1, <2>3
    <3>3. Lent(w, q, p, at', entered') <=> Lent(w, q, p, at, entered)
      BY ONLY <3>2 DEF Lent
    <3> QED BY ONLY <3>1, <3>2, <3>3 DEF HeatUp
  <2> QED BY <2>1, <2>2, <2>3
<1>7. HeatKeeps(n, w, at', local', mail', entered', waits')
  BY ONLY <1>2, <1>3, <1>4, <1>5, <1>6 DEF HeatKeeps
<1> QED BY ONLY <1>1, <1>7, HeatTurn DEF HeatDone

(* A step that neither sends nor receives what others wait for.            *)
HeatSteady(n, w, x) ==
  /\ \A p, q \in Procs(n) : mail'[p][q] = mail[p][q] \/ (q = 0 /\ w.done # <<>>)
  /\ x # n - 1 => /\ SentDown(w, at'[x], entered'[x]) <=> SentDown(w, at[x], entered[x])
                  /\ GotUp(w, at'[x], entered'[x]) <=> GotUp(w, at[x], entered[x])
  /\ x # 0 => /\ GotDown(w, at'[x], entered'[x]) <=> GotDown(w, at[x], entered[x])
              /\ SentUp(w, at'[x], entered'[x]) <=> SentUp(w, at[x], entered[x])
              /\ at'[x] \in {"start", "deal"} <=> at[x] \in {"start", "deal"}
              /\ at'[x] = "failed" <=> at[x] = "failed"
  /\ x = 0 => \A q \in Procs(n) \ {0} : HasDealt(q, at'[x], local'[x]) <=> HasDealt(q, at[x], local[x])

(* It does if nothing changes in the mail or in what x has done.           *)
LEMMA HeatStays ==
  ASSUME NEW n, NEW w, NEW x, HeatMade(n, w, x), HeatSteady(n, w, x),
         HeatFits(n, w, x, at'[x], local'[x], entered'[x], waits'[x]),
         \A p, q \in Procs(n) : p # x /\ q # x => mail'[p][q] = mail[p][q]
  PROVE  HeatDone(n, w)
<1>1. /\ n \in Nat \ {0} /\ x \in Procs(n) /\ HeatKeeps(n, w, at, local, mail, entered, waits)
      /\ \A q \in Procs(n) : q # x => at'[q] = at[q] /\ local'[q] = local[q] /\ entered'[q] = entered[q]
  BY DEF HeatMade
<1>2. ASSUME NEW p \in Procs(n), p < x PROVE DownNow(n, w, p, x)
  <2>1. HeatDown(n, w, p, x, at, local, mail, entered)
    BY <1>1, <1>2 DEF HeatKeeps
  <2>2. p # x /\ x # 0
    BY <1>1, <1>2 DEF Procs
  <2>3. /\ at'[p] = at[p] /\ local'[p] = local[p] /\ entered'[p] = entered[p] /\ mail'[p][x] = mail[p][x]
        /\ GotDown(w, at'[x], entered'[x]) <=> GotDown(w, at[x], entered[x])
        /\ at'[x] \in {"start", "deal"} <=> at[x] \in {"start", "deal"}
        /\ at'[x] = "failed" <=> at[x] = "failed"
    BY ONLY <1>1, <2>2, p \in Procs(n), HeatSteady(n, w, x) DEF HeatSteady
  <2>4. /\ Due(p, x, at', local') <=> Due(p, x, at, local)
        /\ Owes(w, p, x, at', entered') <=> Owes(w, p, x, at, entered)
    BY ONLY <2>3 DEF Due, Owes
  <2> QED BY ONLY <2>1, <2>3, <2>4 DEF DownNow, HeatDown
<1>3. ASSUME NEW q \in Procs(n), x < q PROVE DownNow(n, w, x, q)
  <2>1. HeatDown(n, w, x, q, at, local, mail, entered)
    BY <1>1, <1>3 DEF HeatKeeps
  <2>2. q # x /\ q # 0 /\ x # n - 1
    BY <1>1, <1>3 DEF Procs
  <2>3. /\ at'[q] = at[q] /\ entered'[q] = entered[q] /\ mail'[x][q] = mail[x][q]
        /\ SentDown(w, at'[x], entered'[x]) <=> SentDown(w, at[x], entered[x])
        /\ x = 0 => (HasDealt(q, at'[x], local'[x]) <=> HasDealt(q, at[x], local[x]))
    BY ONLY <1>1, <2>2, q \in Procs(n), HeatSteady(n, w, x) DEF HeatSteady
  <2>4. /\ Due(x, q, at', local') <=> Due(x, q, at, local)
        /\ Owes(w, x, q, at', entered') <=> Owes(w, x, q, at, entered)
    BY ONLY <2>3 DEF Due, Owes
  <2> QED BY ONLY <2>1, <2>3, <2>4 DEF DownNow, HeatDown
<1>4. ASSUME NEW p \in Procs(n), x = p + 1, p # 0 \/ w.done = <<>> PROVE UpNow(w, x, p)
  <2>1. HeatUp(w, x, p, at, mail, entered)
    BY <1>1, <1>4 DEF HeatKeeps
  <2>2. p # x /\ x # 0
    BY <1>1, <1>4 DEF Procs
  <2>3. /\ at'[p] = at[p] /\ entered'[p] = entered[p] /\ mail'[x][p] = mail[x][p]
        /\ SentUp(w, at'[x], entered'[x]) <=> SentUp(w, at[x], entered[x])
    BY ONLY <1>1, <1>4, <2>2, p \in Procs(n), HeatSteady(n, w, x) DEF HeatSteady
  <2>4. Lent(w, x, p, at', entered') <=> Lent(w, x, p, at, entered)
    BY ONLY <2>3 DEF Lent
  <2> QED BY ONLY <2>1, <2>3, <2>4 DEF UpNow, HeatUp
<1>5. ASSUME NEW q \in Procs(n), q = x + 1, x # 0 \/ w.done = <<>> PROVE UpNow(w, q, x)
  <2>1. HeatUp(w, q, x, at, mail, entered)
    BY <1>1, <1>5 DEF HeatKeeps
  <2>2. q # x /\ x # n - 1
    BY <1>1, <1>5 DEF Procs
  <2>3. /\ at'[q] = at[q] /\ entered'[q] = entered[q] /\ mail'[q][x] = mail[q][x]
        /\ GotUp(w, at'[x], entered'[x]) <=> GotUp(w, at[x], entered[x])
    BY ONLY <1>1, <1>5, <2>2, q \in Procs(n), HeatSteady(n, w, x) DEF HeatSteady
  <2>4. Lent(w, q, x, at', entered') <=> Lent(w, q, x, at, entered)
    BY ONLY <2>3 DEF Lent
  <2> QED BY ONLY <2>1, <2>3, <2>4 DEF UpNow, HeatUp
<1> QED BY <1>2, <1>3, <1>4, <1>5, HeatConcludes

(* What is on its way between x and another one does not change, when the  *)
(* step concerns neither the message nor what they have of it.             *)
LEMMA HeatDownIn ==
  ASSUME NEW n, NEW w, NEW x, HeatMade(n, w, x), NEW p \in Procs(n), p < x, mail'[p][x] = mail[p][x],
         GotDown(w, at'[x], entered'[x]) <=> GotDown(w, at[x], entered[x]),
         p = 0 => /\ at'[x] \in {"start", "deal"} <=> at[x] \in {"start", "deal"}
                  /\ at'[x] = "failed" <=> at[x] = "failed"
  PROVE  DownNow(n, w, p, x)
<1>1. /\ n \in Nat \ {0} /\ x \in Procs(n) /\ HeatKeeps(n, w, at, local, mail, entered, waits)
      /\ \A q \in Procs(n) : q # x => at'[q] = at[q] /\ local'[q] = local[q] /\ entered'[q] = entered[q]
  BY DEF HeatMade
<1>2. HeatDown(n, w, p, x, at, local, mail, entered)
  BY <1>1 DEF HeatKeeps
<1>3. p # x
  BY <1>1 DEF Procs
<1>4. at'[p] = at[p] /\ local'[p] = local[p] /\ entered'[p] = entered[p]
  BY ONLY <1>1, <1>3, p \in Procs(n)
<1>5. /\ Due(p, x, at', local') <=> Due(p, x, at, local)
      /\ Owes(w, p, x, at', entered') <=> Owes(w, p, x, at, entered)
      /\ SentDown(w, at'[p], entered'[p]) <=> SentDown(w, at[p], entered[p])
      /\ HasDealt(x, at'[p], local'[p]) <=> HasDealt(x, at[p], local[p])
  BY ONLY <1>4, GotDown(w, at'[x], entered'[x]) <=> GotDown(w, at[x], entered[x]),
          p = 0 => (at'[x] \in {"start", "deal"} <=> at[x] \in {"start", "deal"}) DEF Due, Owes
<1> QED BY ONLY <1>2, <1>5, mail'[p][x] = mail[p][x],
          GotDown(w, at'[x], entered'[x]) <=> GotDown(w, at[x], entered[x]),
          p = 0 => /\ at'[x] \in {"start", "deal"} <=> at[x] \in {"start", "deal"}
                   /\ at'[x] = "failed" <=> at[x] = "failed" DEF DownNow, HeatDown

(* The mail from x to a later process, when x sends nothing.               *)
LEMMA HeatDownOut ==
  ASSUME NEW n, NEW w, NEW x, HeatMade(n, w, x), NEW q \in Procs(n), x < q, mail'[x][q] = mail[x][q],
         q = x + 1 => (SentDown(w, at'[x], entered'[x]) <=> SentDown(w, at[x], entered[x])),
         x = 0 => (HasDealt(q, at'[x], local'[x]) <=> HasDealt(q, at[x], local[x]))
  PROVE  DownNow(n, w, x, q)
<1>1. /\ n \in Nat \ {0} /\ x \in Procs(n) /\ HeatKeeps(n, w, at, local, mail, entered, waits)
      /\ \A r \in Procs(n) : r # x => at'[r] = at[r] /\ local'[r] = local[r] /\ entered'[r] = entered[r]
  BY DEF HeatMade
<1>2. HeatDown(n, w, x, q, at, local, mail, entered)
  BY <1>1 DEF HeatKeeps
<1>3. q # x
  BY <1>1 DEF Procs
<1>4. at'[q] = at[q] /\ entered'[q] = entered[q]
  BY ONLY <1>1, <1>3, q \in Procs(n)
<1>5. /\ Due(x, q, at', local') <=> Due(x, q, at, local)
      /\ Owes(w, x, q, at', entered') <=> Owes(w, x, q, at, entered)
      /\ GotDown(w, at'[q], entered'[q]) <=> GotDown(w, at[q], entered[q])
  BY ONLY <1>4, x = 0 => (HasDealt(q, at'[x], local'[x]) <=> HasDealt(q, at[x], local[x])),
          q = x + 1 => (SentDown(w, at'[x], entered'[x]) <=> SentDown(w, at[x], entered[x])) DEF Due, Owes
<1> QED BY ONLY <1>2, <1>4, <1>5, mail'[x][q] = mail[x][q],
          x = 0 => (HasDealt(q, at'[x], local'[x]) <=> HasDealt(q, at[x], local[x])),
          q = x + 1 => (SentDown(w, at'[x], entered'[x]) <=> SentDown(w, at[x], entered[x]))
       DEF DownNow, HeatDown

(* The mail from x to the one before, when x sends nothing.                *)
LEMMA HeatUpOut ==
  ASSUME NEW n, NEW w, NEW x, HeatMade(n, w, x), NEW p \in Procs(n), x = p + 1, p # 0 \/ w.done = <<>>,
         mail'[x][p] = mail[x][p],
         SentUp(w, at'[x], entered'[x]) <=> SentUp(w, at[x], entered[x])
  PROVE  UpNow(w, x, p)
<1>1. /\ n \in Nat \ {0} /\ x \in Procs(n) /\ HeatKeeps(n, w, at, local, mail, entered, waits)
      /\ \A r \in Procs(n) : r # x => at'[r] = at[r] /\ local'[r] = local[r] /\ entered'[r] = entered[r]
  BY DEF HeatMade
<1>2. HeatUp(w, x, p, at, mail, entered)
  BY <1>1 DEF HeatKeeps
<1>3. p # x
  BY <1>1 DEF Procs
<1>4. at'[p] = at[p] /\ entered'[p] = entered[p]
  BY ONLY <1>1, <1>3, p \in Procs(n)
<1>5. /\ Lent(w, x, p, at', entered') <=> Lent(w, x, p, at, entered)
      /\ GotUp(w, at'[p], entered'[p]) <=> GotUp(w, at[p], entered[p])
  BY ONLY <1>4, SentUp(w, at'[x], entered'[x]) <=> SentUp(w, at[x], entered[x]) DEF Lent
<1> QED BY ONLY <1>2, <1>5, mail'[x][p] = mail[x][p],
          SentUp(w, at'[x], entered'[x]) <=> SentUp(w, at[x], entered[x]) DEF UpNow, HeatUp

(* The mail to x from the next one, when x receives nothing.               *)
LEMMA HeatUpIn ==
  ASSUME NEW n, NEW w, NEW x, HeatMade(n, w, x), NEW q \in Procs(n), q = x + 1, x # 0 \/ w.done = <<>>,
         mail'[q][x] = mail[q][x],
         GotUp(w, at'[x], entered'[x]) <=> GotUp(w, at[x], entered[x])
  PROVE  UpNow(w, q, x)
<1>1. /\ n \in Nat \ {0} /\ x \in Procs(n) /\ HeatKeeps(n, w, at, local, mail, entered, waits)
      /\ \A r \in Procs(n) : r # x => at'[r] = at[r] /\ local'[r] = local[r] /\ entered'[r] = entered[r]
  BY DEF HeatMade
<1>2. HeatUp(w, q, x, at, mail, entered)
  BY <1>1 DEF HeatKeeps
<1>3. q # x
  BY <1>1 DEF Procs
<1>4. at'[q] = at[q] /\ entered'[q] = entered[q]
  BY ONLY <1>1, <1>3, q \in Procs(n)
<1>5. /\ Lent(w, q, x, at', entered') <=> Lent(w, q, x, at, entered)
      /\ SentUp(w, at'[q], entered'[q]) <=> SentUp(w, at[q], entered[q])
  BY ONLY <1>4, GotUp(w, at'[x], entered'[x]) <=> GotUp(w, at[x], entered[x]) DEF Lent
<1> QED BY ONLY <1>2, <1>5, mail'[q][x] = mail[q][x],
          GotUp(w, at'[x], entered'[x]) <=> GotUp(w, at[x], entered[x]) DEF UpNow, HeatUp

(* What a place says of the rows that are exchanged.                       *)
HeatStill == {"start", "failed", "deal", "plate", "ended", "exchange", "gather"}
(* What has been sent and received, by place.                              *)
LEMMA HeatFlags ==
  ASSUME NEW w, NEW e
  PROVE  /\ \A a \in HeatStill : /\ ~SentDown(w, a, e) /\ ~GotDown(w, a, e)
                                 /\ ~SentUp(w, a, e) /\ ~GotUp(w, a, e)
         /\ ~SentDown(w, "above", e) /\ ~GotDown(w, "above", e)
         /\ SentUp(w, "above", e) /\ ~GotUp(w, "above", e)
         /\ ~SentDown(w, "lower", e) /\ GotDown(w, "lower", e)
         /\ SentUp(w, "lower", e) /\ ~GotUp(w, "lower", e)
         /\ SentDown(w, "below", e) /\ GotDown(w, "below", e)
         /\ SentUp(w, "below", e) /\ ~GotUp(w, "below", e)
         /\ SentDown(w, "compute", e) /\ GotDown(w, "compute", e)
         /\ SentUp(w, "compute", e) /\ GotUp(w, "compute", e)
BY DEF SentDown, GotDown, SentUp, GotUp, Past, HeatStill

(* The simulation with n processes is as far as w says.                    *)
HeatNow(n, w) ==
  /\ n \in Nat \ {0} /\ w.job = input
  /\ Talks(n, HeatLetters(n), HeatWords) /\ Stands(n, HeatPoints, Seq(HeatResults))
  /\ HeatHolds(n, w, at, local, mail, entered, waits)

(* A step of x without a collective call.                                  *)
HeatAlone(n, w, x, to, d) ==
  /\ HeatNow(n, w) /\ x \in Procs(n) /\ at'[x] = to /\ local'[x] = d /\ entered' = entered
  /\ \A q \in Procs(n) : q # x => at'[q] = at[q] /\ local'[q] = local[q] /\ waits'[q] = waits[q]

HeatPut(n, p, q, what) ==
  /\ mail'[p][q] = Append(mail[p][q], what)
  /\ \A a, b \in Procs(n) : a # p \/ b # q => mail'[a][b] = mail[a][b]
HeatTaken(n, q, p) ==
  /\ mail[q][p] # <<>> /\ mail'[q][p] = Tail(mail[q][p])
  /\ \A a, b \in Procs(n) : a # q \/ b # p => mail'[a][b] = mail[a][b]

(* What a step without a collective call leaves as it is.                  *)
LEMMA HeatAloneMade ==
  ASSUME NEW n, NEW w, NEW x, NEW to, NEW d, HeatAlone(n, w, x, to, d)
  PROVE  /\ HeatMade(n, w, x) /\ HeatFits(n, w, x, at[x], local[x], entered[x], waits[x])
         /\ n \in Nat \ {0} /\ x \in Procs(n) /\ w \in HeatWorlds /\ w.job = input /\ input \in HeatInputs
         /\ Len(w.done) \in Nat /\ w.now \in HeatStates /\ w.before \in HeatStates /\ w.level \in Nat
         /\ at'[x] = to /\ local'[x] = d /\ entered'[x] = entered[x]
<1>1. HeatNow(n, w) /\ HeatKeeps(n, w, at, local, mail, entered, waits)
  BY DEF HeatAlone, HeatNow, HeatHolds
<1>2. /\ n \in Nat \ {0} /\ x \in Procs(n)
      /\ \A q \in Procs(n) : q # x =>
           at'[q] = at[q] /\ local'[q] = local[q] /\ entered'[q] = entered[q] /\ waits'[q] = waits[q]
      /\ entered'[x] = entered[x] /\ at'[x] = to /\ local'[x] = d
  BY DEF HeatAlone, HeatNow
<1>3. HeatMade(n, w, x)
  BY ONLY <1>1, <1>2 DEF HeatMade
<1>4. HeatFits(n, w, x, at[x], local[x], entered[x], waits[x]) /\ w \in HeatWorlds
  BY <1>1, <1>2 DEF HeatKeeps
<1>5. w.job = input /\ w.job \in HeatInputs
  BY <1>1, <1>4 DEF HeatNow, HeatWorlds
<1>6. Len(w.done) \in Nat /\ w.now \in HeatStates /\ w.before \in HeatStates /\ w.level \in Nat
  <2>1. w.done \in Seq(Nat) /\ w.now \in HeatStates /\ w.before \in HeatStates /\ w.level \in Nat
    BY <1>4 DEF HeatWorlds
  <2> QED BY <2>1, LenProperties
<1> QED BY ONLY <1>2, <1>3, <1>4, <1>5, <1>6

(* Mail of one or two.                                                     *)
LEMMA HeatLists ==
  /\ \A a : Append(<<>>, a) = <<a>> /\ Head(<<a>>) = a /\ Tail(<<a>>) = <<>> /\ <<a>> # <<>>
  /\ \A a, b : Append(<<a>>, b) = <<a, b>> /\ Head(<<a, b>>) = a /\ Tail(<<a, b>>) = <<b>> /\ <<a, b>> # <<>>
<1>1. ASSUME NEW a PROVE Append(<<>>, a) = <<a>>
  OBVIOUS
<1>2. ASSUME NEW a PROVE Head(<<a>>) = a
  OBVIOUS
<1>3. ASSUME NEW a PROVE Tail(<<a>>) = <<>>
  OBVIOUS
<1>4. ASSUME NEW a, NEW b PROVE Append(<<a>>, b) = <<a, b>>
  <2>1. PICK S : a \in S /\ b \in S
    <3>1. a \in {a, b} /\ b \in {a, b}
      OBVIOUS
    <3> QED BY ONLY <3>1
  <2> QED BY ONLY <2>1, AppendToOne
<1>5. ASSUME NEW a, NEW b PROVE Head(<<a, b>>) = a
  OBVIOUS
<1>6. ASSUME NEW a, NEW b PROVE Tail(<<a, b>>) = <<b>>
  OBVIOUS
<1>7. ASSUME NEW a, NEW b PROVE <<a, b>> # <<>> /\ <<a>> # <<>>
  OBVIOUS
<1> QED BY ONLY <1>1, <1>2, <1>3, <1>4, <1>5, <1>6, <1>7, Zenon

(* One variable of a process changes.                                      *)
LEMMA HeatRecords ==
  ASSUME NEW n, NEW d, d \in HeatRecord(n)
  PROVE  /\ \A k \in 1..n : /\ [d EXCEPT !.dealt = k] \in HeatRecord(n)
                            /\ [d EXCEPT !.dealt = k].dealt = k
                            /\ [d EXCEPT !.dealt = k].lines = d.lines
                            /\ [d EXCEPT !.dealt = k].results = d.results
         /\ \A s \in Seq(Int) : /\ [d EXCEPT !.lines = s] \in HeatRecord(n)
                                /\ [d EXCEPT !.lines = s].dealt = d.dealt
                                /\ [d EXCEPT !.lines = s].lines = s
                                /\ [d EXCEPT !.lines = s].results = d.results
         /\ \A m \in HeatLetters(n) : /\ [d EXCEPT !.above = m] \in HeatRecord(n)
                                      /\ [d EXCEPT !.above = m].dealt = d.dealt
                                      /\ [d EXCEPT !.above = m].lines = d.lines
                                      /\ [d EXCEPT !.above = m].above = m
                                      /\ [d EXCEPT !.above = m].state = d.state
                                      /\ [d EXCEPT !.above = m].results = d.results
         /\ \A m \in HeatLetters(n) : /\ [d EXCEPT !.below = m] \in HeatRecord(n)
                                      /\ [d EXCEPT !.below = m].dealt = d.dealt
                                      /\ [d EXCEPT !.below = m].lines = d.lines
                                      /\ [d EXCEPT !.below = m].above = d.above
                                      /\ [d EXCEPT !.below = m].below = m
                                      /\ [d EXCEPT !.below = m].state = d.state
                                      /\ [d EXCEPT !.below = m].results = d.results
<1>1. \A k \in 1..n : /\ [d EXCEPT !.dealt = k] \in HeatRecord(n)
                      /\ [d EXCEPT !.dealt = k].dealt = k
                      /\ [d EXCEPT !.dealt = k].lines = d.lines
                      /\ [d EXCEPT !.dealt = k].results = d.results
  BY DEF HeatRecord
<1>2. \A s \in Seq(Int) : /\ [d EXCEPT !.lines = s] \in HeatRecord(n)
                          /\ [d EXCEPT !.lines = s].dealt = d.dealt
                          /\ [d EXCEPT !.lines = s].lines = s
                          /\ [d EXCEPT !.lines = s].results = d.results
  BY DEF HeatRecord
<1>3. \A m \in HeatLetters(n) : /\ [d EXCEPT !.above = m] \in HeatRecord(n)
                                /\ [d EXCEPT !.above = m].dealt = d.dealt
                                /\ [d EXCEPT !.above = m].lines = d.lines
                                /\ [d EXCEPT !.above = m].above = m
                                /\ [d EXCEPT !.above = m].state = d.state
                                /\ [d EXCEPT !.above = m].results = d.results
  BY DEF HeatRecord
<1>4. \A m \in HeatLetters(n) : /\ [d EXCEPT !.below = m] \in HeatRecord(n)
                                /\ [d EXCEPT !.below = m].dealt = d.dealt
                                /\ [d EXCEPT !.below = m].lines = d.lines
                                /\ [d EXCEPT !.below = m].above = d.above
                                /\ [d EXCEPT !.below = m].below = m
                                /\ [d EXCEPT !.below = m].state = d.state
                                /\ [d EXCEPT !.below = m].results = d.results
  BY DEF HeatRecord
<1> QED BY ONLY <1>1, <1>2, <1>3, <1>4

(* Process 0 deals the next part.                                          *)
LEMMA HeatDealsOne ==
  ASSUME NEW n, NEW w, NEW d, NEW q, HeatAlone(n, w, 0, "deal", d), at[0] = "deal",
         q = local[0].dealt, q < n, d = [local[0] EXCEPT !.dealt = q + 1],
         HeatPut(n, 0, q, HeatDeal(n, w, q))
  PROVE  HeatDone(n, w)
<1>1. /\ HeatMade(n, w, 0) /\ HeatFits(n, w, 0, at[0], local[0], entered[0], waits[0])
      /\ n \in Nat \ {0} /\ 0 \in Procs(n)
      /\ at'[0] = "deal" /\ local'[0] = d /\ entered'[0] = entered[0]
  BY HeatAloneMade
<1>2. /\ local[0] \in HeatRecord(n) /\ w.job.proper /\ Len(entered[0]) = 1 /\ w.level = 0
      /\ local[0].results = <<>>
  BY ONLY <1>1, at[0] = "deal" DEF HeatFits
<1>3. q \in 1..n /\ q + 1 \in 1..n /\ q \in Procs(n)
  <2>1. q \in 1..n
    BY <1>2 DEF HeatRecord
  <2> QED BY ONLY <1>1, <2>1, q < n DEF Procs
<1>4. d \in HeatRecord(n) /\ d.dealt = q + 1 /\ d.results = <<>>
  BY ONLY <1>2, <1>3, HeatRecords, d = [local[0] EXCEPT !.dealt = q + 1]
<1>5. HeatFits(n, w, 0, at'[0], local'[0], entered'[0], waits'[0])
  <2>1. "deal" \in HeatPoints \ {"aborted"}
    BY DEF HeatPoints
  <2> QED BY ONLY <1>1, <1>2, <1>4, <2>1 DEF HeatFits
<1>6. /\ HeatKeeps(n, w, at, local, mail, entered, waits)
      /\ \A r \in Procs(n) : r # 0 => at'[r] = at[r] /\ local'[r] = local[r] /\ entered'[r] = entered[r]
  BY <1>1 DEF HeatMade
<1>7. ~SentDown(w, at[0], entered[0]) /\ ~SentDown(w, at'[0], entered'[0])
      /\ ~GotUp(w, at[0], entered[0]) /\ ~GotUp(w, at'[0], entered'[0])
  BY ONLY <1>1, at[0] = "deal", HeatFlags DEF HeatStill
<1>8. \A a, b \in Procs(n) : a # 0 \/ b # q => mail'[a][b] = mail[a][b]
  BY DEF HeatPut
<1>9. ASSUME NEW r \in Procs(n), 0 < r PROVE DownNow(n, w, 0, r)
  <2>1. CASE r # q
    <3>1. r < q + 1 <=> r < q
      BY ONLY <1>3, <2>1, r \in Procs(n) DEF Procs
    <3>2. HasDealt(r, at'[0], local'[0]) <=> HasDealt(r, at[0], local[0])
      BY ONLY <1>1, <1>4, <3>1, at[0] = "deal", q = local[0].dealt DEF HasDealt
    <3>3. mail'[0][r] = mail[0][r]
      BY ONLY <1>1, <1>8, <2>1, r \in Procs(n)
    <3> QED BY ONLY <1>1, <1>7, <1>9, <3>2, <3>3, HeatDownOut
  <2>2. CASE r = q
    <3>1. HeatDown(n, w, 0, q, at, local, mail, entered)
      BY <1>1, <1>6, <1>9, <2>2 DEF HeatKeeps
    <3>2. ~HasDealt(q, at[0], local[0])
      BY ONLY <1>3, q = local[0].dealt DEF HasDealt
    <3>3. at[q] \in {"start", "deal"}
      <4>1. at[q] \in {"start", "deal", "failed"}
        BY ONLY <3>1, <3>2 DEF HeatDown
      <4>2. HeatFits(n, w, q, at[q], local[q], entered[q], waits[q])
        BY <1>3, <1>6 DEF HeatKeeps
      <4>3. at[q] # "failed"
        BY ONLY <1>2, <1>3, <4>2 DEF HeatFits
      <4> QED BY <4>1, <4>3
    <3>4. mail[0][q] = <<>>
      BY ONLY <1>7, <3>1, <3>2 DEF HeatDown, Due, Owes
    <3>5. mail'[0][q] = <<HeatDeal(n, w, q)>>
      BY <3>4, HeatLists DEF HeatPut
    <3>6. at'[q] = at[q] /\ entered'[q] = entered[q]
      BY ONLY <1>3, <1>6
    <3>7. HasDealt(q, at'[0], local'[0]) /\ Due(0, q, at', local') /\ ~Owes(w, 0, q, at', entered')
      <4>1. q < q + 1
        BY <1>3
      <4>2. HasDealt(q, at'[0], local'[0])
        BY ONLY <1>1, <1>4, <4>1 DEF HasDealt
      <4> QED BY ONLY <1>7, <3>3, <3>6, <4>2 DEF Due, Owes
    <3>8. ~GotDown(w, at[q], entered[q])
      BY ONLY <3>3, HeatFlags DEF HeatStill
    <3> QED BY ONLY <2>2, <3>5, <3>6, <3>7, <3>8 DEF DownNow, HeatDown
  <2> QED BY <2>1, <2>2
<1>10. ASSUME NEW r \in Procs(n), r = 0 + 1, 0 # 0 \/ w.done = <<>> PROVE UpNow(w, r, 0)
  <2>1. mail'[r][0] = mail[r][0]
    BY ONLY <1>1, <1>8, <1>10
  <2> QED BY ONLY <1>1, <1>7, <1>10, <2>1, HeatUpIn
<1>11. /\ \A p \in Procs(n) : ~(p < 0) /\ 0 # p + 1
       /\ \A a, b \in Procs(n) : a # 0 /\ b # 0 => mail'[a][b] = mail[a][b]
  BY <1>8 DEF Procs
<1> QED BY ONLY <1>1, <1>5, <1>9, <1>10, <1>11, HeatConcludes

(* A process gets its part.                                                *)
LEMMA HeatGetsPart ==
  ASSUME NEW n, NEW w, NEW x, NEW d, HeatAlone(n, w, x, "plate", d), at[x] = "deal", x # 0,
         d = [local[x] EXCEPT !.lines = Head(mail[0][x]).lines], HeatTaken(n, 0, x),
         HeatShare(n, input.lines, x) \in Seq(Int)
  PROVE  HeatDone(n, w)
<1>1. /\ HeatMade(n, w, x) /\ HeatFits(n, w, x, at[x], local[x], entered[x], waits[x])
      /\ n \in Nat \ {0} /\ x \in Procs(n) /\ w.job = input
      /\ at'[x] = "plate" /\ local'[x] = d /\ entered'[x] = entered[x]
  BY HeatAloneMade
<1>2. /\ local[x] \in HeatRecord(n) /\ w.job.proper /\ Len(entered[x]) = 1 /\ w.level = 0
      /\ local[x].results = <<>>
  BY ONLY <1>1, at[x] = "deal" DEF HeatFits
<1>3. /\ HeatKeeps(n, w, at, local, mail, entered, waits)
      /\ \A r \in Procs(n) : r # x => at'[r] = at[r] /\ local'[r] = local[r] /\ entered'[r] = entered[r]
  BY <1>1 DEF HeatMade
<1>4. 0 \in Procs(n) /\ 0 < x /\ \A p \in Procs(n) : p < x => p # x
  BY <1>1 DEF Procs
<1>5. HeatDown(n, w, 0, x, at, local, mail, entered)
  BY <1>1, <1>3, <1>4 DEF HeatKeeps
<1>6. ~GotDown(w, at[x], entered[x]) /\ ~GotDown(w, at'[x], entered'[x])
      /\ ~SentDown(w, at[x], entered[x]) /\ ~SentDown(w, at'[x], entered'[x])
      /\ ~SentUp(w, at[x], entered[x]) /\ ~SentUp(w, at'[x], entered'[x])
      /\ ~GotUp(w, at[x], entered[x]) /\ ~GotUp(w, at'[x], entered'[x])
  BY ONLY <1>1, at[x] = "deal", HeatFlags DEF HeatStill
<1>7. HasDealt(x, at[0], local[0])
  <2>1. CASE Owes(w, 0, x, at, entered)
    <3>1. at[0] \in {"below", "compute", "agree"}
      BY <2>1 DEF Owes, SentDown, Past
    <3>2. HeatFits(n, w, 0, at[0], local[0], entered[0], waits[0])
      BY <1>3, <1>4 DEF HeatKeeps
    <3>3. local[0].dealt = n
      BY ONLY <3>1, <3>2 DEF HeatFits
    <3>4. x < n
      BY <1>1 DEF Procs
    <3> QED BY ONLY <3>1, <3>3, <3>4 DEF HasDealt
  <2>2. CASE ~Owes(w, 0, x, at, entered)
    <3>1. mail[0][x] # <<>>
      BY DEF HeatTaken
    <3> QED BY ONLY <1>5, <2>2, <3>1 DEF HeatDown, Due
  <2> QED BY <2>1, <2>2
<1>8. Due(0, x, at, local)
  BY ONLY <1>7, at[x] = "deal" DEF Due
<1>9. /\ Owes(w, 0, x, at, entered) => mail[0][x] = <<HeatDeal(n, w, x), HeatRow(w, 0)>>
      /\ ~Owes(w, 0, x, at, entered) => mail[0][x] = <<HeatDeal(n, w, x)>>
  BY ONLY <1>5, <1>8 DEF HeatDown
<1>10. /\ Head(mail[0][x]) = HeatDeal(n, w, x)
       /\ Owes(w, 0, x, at, entered) => Tail(mail[0][x]) = <<HeatRow(w, 0)>>
       /\ ~Owes(w, 0, x, at, entered) => Tail(mail[0][x]) = <<>>
  BY ONLY <1>9, HeatLists
<1>11. Head(mail[0][x]).lines = HeatShare(n, w.job.lines, x)
  BY ONLY <1>10 DEF HeatDeal
<1>12. d \in HeatRecord(n) /\ d.lines = HeatShare(n, w.job.lines, x) /\ d.results = <<>>
  <2>1. HeatShare(n, w.job.lines, x) \in Seq(Int)
    BY <1>1
  <2> QED BY ONLY <1>2, <1>11, <2>1, HeatRecords, d = [local[x] EXCEPT !.lines = Head(mail[0][x]).lines]
<1>13. w.done = <<>> /\ w.now = 0
  BY ONLY <1>2, <1>3 DEF HeatKeeps, HeatPast
<1>14. HeatFits(n, w, x, at'[x], local'[x], entered'[x], waits'[x])
  <2>1. "plate" \in HeatPoints \ {"aborted"}
    BY DEF HeatPoints
  <2>2. Recorded(d, w.done) /\ Len(entered[x]) = w.level + 1
    <3>1. Len(<<>>) = 0 /\ \A i \in 1..0 : FALSE
      OBVIOUS
    <3> QED BY ONLY <1>2, <1>12, <1>13, <3>1 DEF Recorded
  <2> QED BY ONLY <1>1, <1>2, <1>12, <1>13, <2>1, <2>2, x # 0 DEF HeatFits
<1>15. /\ mail'[0][x] = Tail(mail[0][x])
       /\ \A a, b \in Procs(n) : a # 0 \/ b # x => mail'[a][b] = mail[a][b]
  BY DEF HeatTaken
<1>16. ASSUME NEW p \in Procs(n), p < x PROVE DownNow(n, w, p, x)
  <2>1. CASE p # 0
    <3>1. mail'[p][x] = mail[p][x]
      BY ONLY <1>1, <1>15, <2>1, p \in Procs(n)
    <3> QED BY ONLY <1>1, <1>6, <1>16, <2>1, <3>1, HeatDownIn
  <2>2. CASE p = 0
    <3>1. at'[0] = at[0] /\ local'[0] = local[0] /\ entered'[0] = entered[0]
      BY ONLY <1>3, <1>4
    <3>2. ~Due(0, x, at', local')
      BY ONLY <1>1 DEF Due
    <3>3. Owes(w, 0, x, at', entered') <=> Owes(w, 0, x, at, entered)
      BY ONLY <1>6, <3>1 DEF Owes
    <3> QED BY ONLY <1>6, <1>7, <1>10, <1>15, <2>2, <3>1, <3>2, <3>3 DEF DownNow, HeatDown
  <2> QED BY <2>1, <2>2
<1>17. ASSUME NEW q \in Procs(n), x < q PROVE DownNow(n, w, x, q)
  <2>1. mail'[x][q] = mail[x][q]
    BY ONLY <1>1, <1>15, q \in Procs(n), x # 0
  <2> QED BY ONLY <1>1, <1>6, <1>17, <2>1, x # 0, HeatDownOut
<1>18. ASSUME NEW p \in Procs(n), x = p + 1, p # 0 \/ w.done = <<>> PROVE UpNow(w, x, p)
  <2>1. mail'[x][p] = mail[x][p]
    BY ONLY <1>1, <1>15, p \in Procs(n), x # 0
  <2> QED BY ONLY <1>1, <1>6, <1>18, <2>1, HeatUpOut
<1>19. ASSUME NEW q \in Procs(n), q = x + 1, x # 0 \/ w.done = <<>> PROVE UpNow(w, q, x)
  <2>1. q # 0
    BY <1>1, <1>19 DEF Procs
  <2>2. mail'[q][x] = mail[q][x]
    BY ONLY <1>1, <1>15, <2>1, q \in Procs(n)
  <2> QED BY ONLY <1>1, <1>6, <1>19, <2>2, HeatUpIn
<1>20. \A a, b \in Procs(n) : a # x /\ b # x => mail'[a][b] = mail[a][b]
  BY ONLY <1>15
<1> QED BY ONLY <1>1, <1>14, <1>16, <1>17, <1>18, <1>19, <1>20, HeatConcludes

(* What holds in all places where rows are exchanged.                      *)
HeatSwaps == {"exchange", "above", "lower", "below", "compute"}
HeatAmid(n, w, x, d, e) ==
  /\ d \in HeatRecord(n) /\ w.job.proper /\ d.lines = HeatShare(n, w.job.lines, x) /\ (x = 0 => d.dealt = n)
  /\ Len(e) = w.level + 1 /\ Recorded(d, w.done) /\ d.state = w.now /\ Len(d.results) < Len(d.lines)

(* A process fits these places when it fits all of them and has the rows   *)
(* that it has received.                                                   *)
LEMMA HeatSwapFits ==
  ASSUME NEW n, NEW w, NEW x, NEW a \in HeatSwaps, NEW d, NEW e, NEW t
  PROVE  HeatFits(n, w, x, a, d, e, t) <=>
           /\ HeatAmid(n, w, x, d, e)
           /\ a = "above" => x # 0
           /\ a = "below" => x # n - 1
           /\ a \in {"lower", "below", "compute"} /\ x # 0 => d.above = HeatRow(w, x - 1)
           /\ a = "compute" /\ x # n - 1 /\ (x # 0 \/ w.done = <<>>) => d.below = HeatRow(w, x + 1)
<1>1. /\ a \in HeatPoints \ {"aborted"} /\ a \notin {"start", "failed"} /\ a \notin {"start", "failed", "deal"}
      /\ a # "failed" /\ a # "deal" /\ a \notin {"plate", "ended"} /\ a # "agree" /\ a # "gather"
      /\ a \in {"exchange", "above", "lower", "below", "compute"}
      /\ a \in {"exchange", "above", "lower", "below", "compute", "agree", "gather"}
  BY DEF HeatSwaps, HeatPoints
<1>2. HeatFits(n, w, x, a, d, e, t) =>
           /\ HeatAmid(n, w, x, d, e)
           /\ a = "above" => x # 0
           /\ a = "below" => x # n - 1
           /\ a \in {"lower", "below", "compute"} /\ x # 0 => d.above = HeatRow(w, x - 1)
           /\ a = "compute" /\ x # n - 1 /\ (x # 0 \/ w.done = <<>>) => d.below = HeatRow(w, x + 1)
  BY ONLY <1>1 DEF HeatFits, HeatAmid
<1>3. /\ HeatAmid(n, w, x, d, e)
      /\ a = "above" => x # 0
      /\ a = "below" => x # n - 1
      /\ a \in {"lower", "below", "compute"} /\ x # 0 => d.above = HeatRow(w, x - 1)
      /\ a = "compute" /\ x # n - 1 /\ (x # 0 \/ w.done = <<>>) => d.below = HeatRow(w, x + 1)
      => HeatFits(n, w, x, a, d, e, t)
  BY ONLY <1>1 DEF HeatFits, HeatAmid
<1> QED BY ONLY <1>2, <1>3

(* From "lower" on, the row above has been received.                       *)
LEMMA HeatSwapAbove ==
  ASSUME NEW n, NEW w, NEW x, NEW a, NEW d, NEW e, NEW t, HeatFits(n, w, x, a, d, e, t),
         a \in {"lower", "below", "compute"}
  PROVE  x # 0 => d.above = HeatRow(w, x - 1)
BY ONLY a \in {"lower", "below", "compute"}, HeatFits(n, w, x, a, d, e, t) DEF HeatFits

(* The converse, to be used for the place x goes to.                       *)
LEMMA HeatSwapFit ==
  ASSUME NEW n, NEW w, NEW x, NEW a, NEW d, NEW e, NEW t, a \in HeatSwaps, HeatAmid(n, w, x, d, e),
         a = "above" => x # 0, a = "below" => x # n - 1,
         a \in {"lower", "below", "compute"} => (x # 0 => d.above = HeatRow(w, x - 1)),
         a = "compute" /\ x # n - 1 => (x # 0 \/ w.done = <<>> => d.below = HeatRow(w, x + 1))
  PROVE  HeatFits(n, w, x, a, d, e, t)
BY HeatSwapFits

(* The row above is received.                                              *)
LEMMA HeatAmidAbove ==
  ASSUME NEW n, NEW w, NEW x, NEW d, NEW e, HeatAmid(n, w, x, d, e), NEW m, m \in HeatLetters(n),
         NEW f, f = [d EXCEPT !.above = m]
  PROVE  HeatAmid(n, w, x, f, e) /\ f.above = m
<1>1. d \in HeatRecord(n)
  BY DEF HeatAmid
<1>2. /\ f \in HeatRecord(n) /\ f.dealt = d.dealt /\ f.lines = d.lines /\ f.above = m
      /\ f.state = d.state /\ f.results = d.results
  BY ONLY <1>1, HeatRecords, m \in HeatLetters(n), f = [d EXCEPT !.above = m]
<1>3. HeatAmid(n, w, x, f, e)
  BY ONLY <1>2, HeatAmid(n, w, x, d, e) DEF HeatAmid, Recorded
<1> QED BY ONLY <1>2, <1>3

(* The row below is received.                                              *)
LEMMA HeatAmidBelow ==
  ASSUME NEW n, NEW w, NEW x, NEW d, NEW e, HeatAmid(n, w, x, d, e), NEW m, m \in HeatLetters(n),
         NEW f, f = [d EXCEPT !.below = m]
  PROVE  HeatAmid(n, w, x, f, e) /\ f.below = m /\ f.above = d.above
<1>1. d \in HeatRecord(n)
  BY DEF HeatAmid
<1>2. /\ f \in HeatRecord(n) /\ f.dealt = d.dealt /\ f.lines = d.lines /\ f.above = d.above /\ f.below = m
      /\ f.state = d.state /\ f.results = d.results
  BY ONLY <1>1, HeatRecords, m \in HeatLetters(n), f = [d EXCEPT !.below = m]
<1>3. HeatAmid(n, w, x, f, e)
  BY ONLY <1>2, HeatAmid(n, w, x, d, e) DEF HeatAmid, Recorded
<1> QED BY ONLY <1>2, <1>3

(* A step of x from one of these places to the next: what is left to show. *)
HeatSwap(n, w, x, a, b, d) ==
  /\ HeatAlone(n, w, x, b, d) /\ at[x] = a
  /\ <<a, b>> \in {<<"exchange", "above">>, <<"exchange", "lower">>, <<"above", "lower">>,
                   <<"lower", "below">>, <<"lower", "compute">>, <<"below", "compute">>}

(* What such a step leaves as it is.                                       *)
LEMMA HeatSwapMade ==
  ASSUME NEW n, NEW w, NEW x, NEW a, NEW b, NEW d, HeatSwap(n, w, x, a, b, d)
  PROVE  /\ HeatMade(n, w, x) /\ n \in Nat \ {0} /\ x \in Procs(n)
         /\ HeatFits(n, w, x, a, local[x], entered[x], waits[x]) /\ HeatAmid(n, w, x, local[x], entered[x])
         /\ at[x] = a /\ at'[x] = b /\ local'[x] = d /\ entered'[x] = entered[x]
         /\ a \in HeatSwaps /\ b \in HeatSwaps
         /\ HeatKeeps(n, w, at, local, mail, entered, waits)
         /\ \A r \in Procs(n) : r # x => at'[r] = at[r] /\ local'[r] = local[r] /\ entered'[r] = entered[r]
         /\ \A q \in Procs(n) : HeatAmid(n, w, x, d, entered[x]) /\ x = 0 =>
              (HasDealt(q, at'[x], local'[x]) <=> HasDealt(q, at[x], local[x]))
         /\ at[x] \notin {"start", "deal"} /\ at'[x] \notin {"start", "deal"}
         /\ at[x] # "failed" /\ at'[x] # "failed"
<1>1. HeatAlone(n, w, x, b, d) /\ at[x] = a
  BY DEF HeatSwap
<1>2. a \in HeatSwaps /\ b \in HeatSwaps
  BY DEF HeatSwap, HeatSwaps
<1>3. /\ HeatMade(n, w, x) /\ n \in Nat \ {0} /\ x \in Procs(n)
      /\ HeatFits(n, w, x, at[x], local[x], entered[x], waits[x])
      /\ at'[x] = b /\ local'[x] = d /\ entered'[x] = entered[x]
  BY ONLY <1>1, HeatAloneMade
<1>4. HeatFits(n, w, x, a, local[x], entered[x], waits[x])
  BY ONLY <1>1, <1>3
<1>5. HeatAmid(n, w, x, local[x], entered[x])
  BY ONLY <1>2, <1>4, HeatSwapFits
<1>6. /\ HeatKeeps(n, w, at, local, mail, entered, waits)
      /\ \A r \in Procs(n) : r # x => at'[r] = at[r] /\ local'[r] = local[r] /\ entered'[r] = entered[r]
  BY <1>3 DEF HeatMade
<1>7. /\ a \notin {"start", "failed"} /\ b \notin {"start", "failed"} /\ a # "deal" /\ b # "deal"
  BY ONLY <1>2 DEF HeatSwaps
<1>8. ASSUME NEW q \in Procs(n), HeatAmid(n, w, x, d, entered[x]), x = 0
      PROVE  HasDealt(q, at'[x], local'[x]) <=> HasDealt(q, at[x], local[x])
  <2>1. d.dealt = n /\ local[x].dealt = n
    BY ONLY <1>5, <1>8 DEF HeatAmid
  <2> QED BY ONLY <1>1, <1>3, <1>7, <2>1 DEF HasDealt
<1> QED BY ONLY <1>1, <1>2, <1>3, <1>4, <1>5, <1>6, <1>7, <1>8

(* A row is sent to the process before.                                    *)
LEMMA HeatSendsUp ==
  ASSUME NEW n, NEW w, NEW x, NEW y, HeatSwap(n, w, x, "exchange", "above", local[x]), x # 0, x = y + 1,
         y \in Procs(n), HeatPut(n, x, y, HeatRow(w, x))
  PROVE  HeatDone(n, w)
<1>0. /\ HeatMade(n, w, x) /\ n \in Nat \ {0} /\ x \in Procs(n)
      /\ HeatAmid(n, w, x, local[x], entered[x])
      /\ at[x] = "exchange" /\ at'[x] = "above" /\ local'[x] = local[x] /\ entered'[x] = entered[x]
      /\ "above" \in HeatSwaps
      /\ HeatKeeps(n, w, at, local, mail, entered, waits)
      /\ \A r \in Procs(n) : r # x => at'[r] = at[r] /\ local'[r] = local[r] /\ entered'[r] = entered[r]
      /\ \A q \in Procs(n) : x = 0 =>
           (HasDealt(q, at'[x], local'[x]) <=> HasDealt(q, at[x], local[x]))
      /\ at[x] \notin {"start", "deal"} /\ at'[x] \notin {"start", "deal"}
      /\ at[x] # "failed" /\ at'[x] # "failed"
  BY HeatSwapMade
<1>1. HeatFits(n, w, x, at'[x], local'[x], entered'[x], waits'[x])
  BY ONLY <1>0, HeatSwapFits, x # 0
<1>2. /\ ~SentDown(w, at[x], entered[x]) /\ ~SentDown(w, at'[x], entered'[x])
      /\ ~GotDown(w, at[x], entered[x]) /\ ~GotDown(w, at'[x], entered'[x])
      /\ ~SentUp(w, at[x], entered[x]) /\ SentUp(w, at'[x], entered'[x])
      /\ ~GotUp(w, at[x], entered[x]) /\ ~GotUp(w, at'[x], entered'[x])
  BY ONLY <1>0, HeatFlags DEF HeatStill
<1>3. /\ mail'[x][y] = Append(mail[x][y], HeatRow(w, x))
      /\ \A a, b \in Procs(n) : a # x \/ b # y => mail'[a][b] = mail[a][b]
  BY DEF HeatPut
<1>4. y < x /\ y # x /\ \A q \in Procs(n) : (q < x \/ x < q => q # x) /\ (q = x + 1 => q # x)
  BY <1>0 DEF Procs
<1>5. ASSUME NEW p \in Procs(n), p < x PROVE DownNow(n, w, p, x)
  <2>1. mail'[p][x] = mail[p][x]
    BY ONLY <1>0, <1>3, <1>4, <1>5
  <2> QED BY ONLY <1>0, <1>2, <1>5, <2>1, HeatDownIn
<1>6. ASSUME NEW q \in Procs(n), x < q PROVE DownNow(n, w, x, q)
  <2>1. mail'[x][q] = mail[x][q]
    <3>1. q # y
      BY <1>0, <1>6 DEF Procs
    <3> QED BY ONLY <1>0, <1>3, <3>1, q \in Procs(n)
  <2> QED BY ONLY <1>0, <1>2, <1>6, <2>1, x # 0, HeatDownOut
<1>7. ASSUME NEW p \in Procs(n), x = p + 1, p # 0 \/ w.done = <<>> PROVE UpNow(w, x, p)
  <2>1. p = y
    BY <1>7 DEF Procs
  <2>2. HeatUp(w, x, y, at, mail, entered)
    BY <1>0, <1>7, <2>1 DEF HeatKeeps
  <2>3. ~GotUp(w, at[y], entered[y]) /\ mail[x][y] = <<>>
    BY ONLY <1>2, <2>2 DEF HeatUp, Lent
  <2>4. at'[y] = at[y] /\ entered'[y] = entered[y]
    BY ONLY <1>0, <1>4, y \in Procs(n)
  <2>5. mail'[x][y] = <<HeatRow(w, x)>>
    BY ONLY <1>3, <2>3, HeatLists
  <2> QED BY ONLY <1>2, <2>1, <2>3, <2>4, <2>5 DEF UpNow, HeatUp, Lent
<1>8. ASSUME NEW q \in Procs(n), q = x + 1, x # 0 \/ w.done = <<>> PROVE UpNow(w, q, x)
  <2>1. mail'[q][x] = mail[q][x]
    BY ONLY <1>0, <1>3, <1>4, q \in Procs(n), q = x + 1
  <2> QED BY ONLY <1>0, <1>2, <1>8, <2>1, HeatUpIn
<1>9. \A a, b \in Procs(n) : a # x /\ b # x => mail'[a][b] = mail[a][b]
  BY ONLY <1>3
<1> QED BY ONLY <1>0, <1>1, <1>5, <1>6, <1>7, <1>8, <1>9, HeatConcludes

(* The row of the process before is received.                              *)
LEMMA HeatGetsAbove ==
  ASSUME NEW n, NEW w, NEW x, NEW y, NEW d, HeatSwap(n, w, x, "above", "lower", d), x = y + 1,
         y \in Procs(n), HeatTaken(n, y, x), d = [local[x] EXCEPT !.above = Head(mail[y][x])],
         Head(mail[y][x]) \in HeatLetters(n)
  PROVE  HeatDone(n, w)
<1>0. /\ HeatMade(n, w, x) /\ n \in Nat \ {0} /\ x \in Procs(n)
      /\ HeatFits(n, w, x, "above", local[x], entered[x], waits[x])
      /\ HeatAmid(n, w, x, local[x], entered[x])
      /\ at[x] = "above" /\ at'[x] = "lower" /\ local'[x] = d /\ entered'[x] = entered[x]
      /\ "lower" \in HeatSwaps /\ "above" \in HeatSwaps
      /\ HeatKeeps(n, w, at, local, mail, entered, waits)
      /\ \A r \in Procs(n) : r # x => at'[r] = at[r] /\ local'[r] = local[r] /\ entered'[r] = entered[r]
      /\ \A q \in Procs(n) : HeatAmid(n, w, x, d, entered[x]) /\ x = 0 =>
           (HasDealt(q, at'[x], local'[x]) <=> HasDealt(q, at[x], local[x]))
      /\ at[x] \notin {"start", "deal"} /\ at'[x] \notin {"start", "deal"}
      /\ at[x] # "failed" /\ at'[x] # "failed"
  BY HeatSwapMade
<1>1. /\ ~SentDown(w, at[x], entered[x]) /\ ~SentDown(w, at'[x], entered'[x])
      /\ ~GotDown(w, at[x], entered[x]) /\ GotDown(w, at'[x], entered'[x])
      /\ SentUp(w, at[x], entered[x]) /\ SentUp(w, at'[x], entered'[x])
      /\ ~GotUp(w, at[x], entered[x]) /\ ~GotUp(w, at'[x], entered'[x])
  BY ONLY <1>0, HeatFlags
<1>2. /\ mail[y][x] # <<>> /\ mail'[y][x] = Tail(mail[y][x])
      /\ \A a, b \in Procs(n) : a # y \/ b # x => mail'[a][b] = mail[a][b]
  BY DEF HeatTaken
<1>3. /\ y < x /\ y # x /\ x # 0 /\ \A q \in Procs(n) : (q < x \/ x < q => q # x) /\ (q = x + 1 => q # x)
      /\ x - 1 = y
  BY <1>0 DEF Procs
<1>4. HeatDown(n, w, y, x, at, local, mail, entered)
  BY <1>0, <1>3 DEF HeatKeeps
<1>5. ~Due(y, x, at, local) /\ Owes(w, y, x, at, entered)
  <2>1. ~Due(y, x, at, local)
    BY ONLY <1>0 DEF Due
  <2> QED BY ONLY <1>2, <1>4, <2>1 DEF HeatDown
<1>6. mail[y][x] = <<HeatRow(w, y)>> /\ SentDown(w, at[y], entered[y])
  BY ONLY <1>4, <1>5 DEF HeatDown, Owes
<1>7. Head(mail[y][x]) = HeatRow(w, y) /\ mail'[y][x] = <<>>
  BY ONLY <1>2, <1>6, HeatLists
<1>8. HeatAmid(n, w, x, d, entered[x]) /\ d.above = HeatRow(w, x - 1)
  <2>1. PICK m : m = Head(mail[y][x])
    OBVIOUS
  <2>2. PICK c, e : c = local[x] /\ e = entered[x]
    OBVIOUS
  <2>3. HeatAmid(n, w, x, c, e) /\ m \in HeatLetters(n) /\ d = [c EXCEPT !.above = m]
    BY ONLY <1>0, <2>1, <2>2, d = [local[x] EXCEPT !.above = Head(mail[y][x])],
            Head(mail[y][x]) \in HeatLetters(n)
  <2>4. HeatAmid(n, w, x, d, e) /\ d.above = m
    BY ONLY <2>3, HeatAmidAbove
  <2> QED BY ONLY <1>3, <1>7, <2>1, <2>2, <2>4
<1>9. HeatFits(n, w, x, at'[x], local'[x], entered'[x], waits'[x])
  BY ONLY <1>0, <1>8, HeatSwapFits
<1>10. ASSUME NEW p \in Procs(n), p < x PROVE DownNow(n, w, p, x)
  <2>1. CASE p = y
    <3>1. at'[y] = at[y] /\ local'[y] = local[y] /\ entered'[y] = entered[y]
      BY ONLY <1>0, <1>3, y \in Procs(n)
    <3>2. ~Due(y, x, at', local') /\ ~Owes(w, y, x, at', entered')
      BY ONLY <1>0, <1>1 DEF Due, Owes
    <3> QED BY ONLY <1>0, <1>4, <1>6, <1>7, <2>1, <3>1, <3>2 DEF DownNow, HeatDown
  <2>2. CASE p # y
    <3>1. HeatDown(n, w, p, x, at, local, mail, entered)
      BY <1>0, <1>10 DEF HeatKeeps
    <3>2. at'[p] = at[p] /\ local'[p] = local[p] /\ entered'[p] = entered[p] /\ mail'[p][x] = mail[p][x]
      BY ONLY <1>0, <1>2, <1>3, <1>10, <2>2
    <3>3. x # p + 1
      BY <1>3, <2>2 DEF Procs
    <3>4. /\ ~Due(p, x, at', local') /\ ~Owes(w, p, x, at', entered')
          /\ ~Due(p, x, at, local) /\ ~Owes(w, p, x, at, entered)
      BY ONLY <1>0, <3>3 DEF Due, Owes
    <3> QED BY ONLY <1>0, <3>1, <3>2, <3>3, <3>4 DEF DownNow, HeatDown
  <2> QED BY <2>1, <2>2
<1>11. ASSUME NEW q \in Procs(n), x < q PROVE DownNow(n, w, x, q)
  <2>1. mail'[x][q] = mail[x][q]
    BY ONLY <1>0, <1>2, <1>3, <1>11
  <2> QED BY ONLY <1>0, <1>1, <1>3, <1>11, <2>1, HeatDownOut
<1>12. ASSUME NEW p \in Procs(n), x = p + 1, p # 0 \/ w.done = <<>> PROVE UpNow(w, x, p)
  <2>1. mail'[x][p] = mail[x][p]
    <3>1. p # x
      BY <1>0, <1>12 DEF Procs
    <3> QED BY ONLY <1>0, <1>2, <1>3, <3>1, p \in Procs(n)
  <2> QED BY ONLY <1>0, <1>1, <1>12, <2>1, HeatUpOut
<1>13. ASSUME NEW q \in Procs(n), q = x + 1, x # 0 \/ w.done = <<>> PROVE UpNow(w, q, x)
  <2>1. mail'[q][x] = mail[q][x]
    <3>1. q # y
      BY <1>0, <1>13 DEF Procs
    <3> QED BY ONLY <1>0, <1>2, <3>1, q \in Procs(n)
  <2> QED BY ONLY <1>0, <1>1, <1>13, <2>1, HeatUpIn
<1>14. \A a, b \in Procs(n) : a # x /\ b # x => mail'[a][b] = mail[a][b]
  BY ONLY <1>2
<1> QED BY ONLY <1>0, <1>9, <1>10, <1>11, <1>12, <1>13, <1>14, HeatConcludes

(* A row is sent to the process after.                                     *)
LEMMA HeatSendsDown ==
  ASSUME NEW n, NEW w, NEW x, NEW y, HeatSwap(n, w, x, "lower", "below", local[x]), x # n - 1, y = x + 1,
         y \in Procs(n), HeatPut(n, x, y, HeatRow(w, x))
  PROVE  HeatDone(n, w)
<1>0. /\ HeatMade(n, w, x) /\ n \in Nat \ {0} /\ x \in Procs(n)
      /\ HeatFits(n, w, x, "lower", local[x], entered[x], waits[x])
      /\ HeatAmid(n, w, x, local[x], entered[x])
      /\ at[x] = "lower" /\ at'[x] = "below" /\ local'[x] = local[x] /\ entered'[x] = entered[x]
      /\ "lower" \in HeatSwaps /\ "below" \in HeatSwaps
      /\ HeatKeeps(n, w, at, local, mail, entered, waits)
      /\ \A r \in Procs(n) : r # x => at'[r] = at[r] /\ local'[r] = local[r] /\ entered'[r] = entered[r]
      /\ \A q \in Procs(n) : x = 0 =>
           (HasDealt(q, at'[x], local'[x]) <=> HasDealt(q, at[x], local[x]))
      /\ at[x] \notin {"start", "deal"} /\ at'[x] \notin {"start", "deal"}
      /\ at[x] # "failed" /\ at'[x] # "failed"
  BY HeatSwapMade
<1>1. HeatFits(n, w, x, at'[x], local'[x], entered'[x], waits'[x])
  <2>1. x # 0 => local[x].above = HeatRow(w, x - 1)
    BY ONLY <1>0, HeatSwapAbove
  <2> QED BY ONLY <1>0, <2>1, HeatSwapFit, x # n - 1
<1>2. /\ ~SentDown(w, at[x], entered[x]) /\ SentDown(w, at'[x], entered'[x])
      /\ GotDown(w, at[x], entered[x]) /\ GotDown(w, at'[x], entered'[x])
      /\ SentUp(w, at[x], entered[x]) /\ SentUp(w, at'[x], entered'[x])
      /\ ~GotUp(w, at[x], entered[x]) /\ ~GotUp(w, at'[x], entered'[x])
  BY ONLY <1>0, HeatFlags
<1>3. /\ mail'[x][y] = Append(mail[x][y], HeatRow(w, x))
      /\ \A a, b \in Procs(n) : a # x \/ b # y => mail'[a][b] = mail[a][b]
  BY DEF HeatPut
<1>4. /\ x < y /\ y # x /\ \A q \in Procs(n) : (q < x \/ x < q => q # x) /\ (q = x + 1 => q # x)
      /\ \A q \in Procs(n) : x = q + 1 => q # x /\ q # y
  BY <1>0 DEF Procs
<1>5. ASSUME NEW p \in Procs(n), p < x PROVE DownNow(n, w, p, x)
  <2>1. mail'[p][x] = mail[p][x]
    BY ONLY <1>0, <1>3, <1>4, <1>5
  <2> QED BY ONLY <1>0, <1>2, <1>5, <2>1, HeatDownIn
<1>6. ASSUME NEW q \in Procs(n), x < q PROVE DownNow(n, w, x, q)
  <2>1. CASE q # y
    <3>1. mail'[x][q] = mail[x][q]
      BY ONLY <1>0, <1>3, <2>1, q \in Procs(n)
    <3>2. q # x + 1
      BY <2>1
    <3> QED BY ONLY <1>0, <1>6, <3>1, <3>2, HeatDownOut
  <2>2. CASE q = y
    <3>1. HeatDown(n, w, x, y, at, local, mail, entered)
      BY <1>0, <1>4 DEF HeatKeeps
    <3>2. at'[y] = at[y] /\ entered'[y] = entered[y]
      BY ONLY <1>0, <1>4, y \in Procs(n)
    <3>3. ~Owes(w, x, y, at, entered) /\ ~GotDown(w, at[y], entered[y])
      BY ONLY <1>2, <3>1, y = x + 1 DEF HeatDown, Owes
    <3>4. Owes(w, x, y, at', entered')
      BY ONLY <1>2, <3>2, <3>3, y = x + 1 DEF Owes
    <3>5. /\ x = 0 => (HasDealt(y, at'[x], local'[x]) <=> HasDealt(y, at[x], local[x]))
          /\ Due(x, y, at', local') <=> Due(x, y, at, local)
      <4>1. x = 0 => (HasDealt(y, at'[x], local'[x]) <=> HasDealt(y, at[x], local[x]))
        BY ONLY <1>0, y \in Procs(n)
      <4> QED BY ONLY <3>2, <4>1 DEF Due
    <3>6. /\ Due(x, y, at, local) => mail'[x][y] = <<HeatDeal(n, w, y), HeatRow(w, x)>>
          /\ ~Due(x, y, at, local) => mail'[x][y] = <<HeatRow(w, x)>>
      <4>1. /\ Due(x, y, at, local) => mail[x][y] = <<HeatDeal(n, w, y)>>
            /\ ~Due(x, y, at, local) => mail[x][y] = <<>>
        BY ONLY <3>1, <3>3 DEF HeatDown
      <4> QED BY ONLY <1>3, <4>1, HeatLists
    <3> QED BY ONLY <1>2, <2>2, <3>1, <3>2, <3>3, <3>4, <3>5, <3>6 DEF DownNow, HeatDown
  <2> QED BY <2>1, <2>2
<1>7. ASSUME NEW p \in Procs(n), x = p + 1, p # 0 \/ w.done = <<>> PROVE UpNow(w, x, p)
  <2>1. mail'[x][p] = mail[x][p]
    BY ONLY <1>0, <1>3, <1>4, <1>7
  <2> QED BY ONLY <1>0, <1>2, <1>7, <2>1, HeatUpOut
<1>8. ASSUME NEW q \in Procs(n), q = x + 1, x # 0 \/ w.done = <<>> PROVE UpNow(w, q, x)
  <2>1. mail'[q][x] = mail[q][x]
    BY ONLY <1>0, <1>3, <1>4, q \in Procs(n), q = x + 1
  <2> QED BY ONLY <1>0, <1>2, <1>8, <2>1, HeatUpIn
<1>9. \A a, b \in Procs(n) : a # x /\ b # x => mail'[a][b] = mail[a][b]
  BY ONLY <1>3
<1> QED BY ONLY <1>0, <1>1, <1>5, <1>6, <1>7, <1>8, <1>9, HeatConcludes

(* The row of the process after is received, or what process 0 has left.   *)
LEMMA HeatGetsBelow ==
  ASSUME NEW n, NEW w, NEW x, NEW y, NEW d, HeatSwap(n, w, x, "below", "compute", d), y = x + 1,
         y \in Procs(n), HeatTaken(n, y, x), d = [local[x] EXCEPT !.below = Head(mail[y][x])],
         Head(mail[y][x]) \in HeatLetters(n)
  PROVE  HeatDone(n, w)
<1>0. /\ HeatMade(n, w, x) /\ n \in Nat \ {0} /\ x \in Procs(n)
      /\ HeatFits(n, w, x, "below", local[x], entered[x], waits[x])
      /\ HeatAmid(n, w, x, local[x], entered[x])
      /\ at[x] = "below" /\ at'[x] = "compute" /\ local'[x] = d /\ entered'[x] = entered[x]
      /\ "below" \in HeatSwaps /\ "compute" \in HeatSwaps
      /\ HeatKeeps(n, w, at, local, mail, entered, waits)
      /\ \A r \in Procs(n) : r # x => at'[r] = at[r] /\ local'[r] = local[r] /\ entered'[r] = entered[r]
      /\ \A q \in Procs(n) : HeatAmid(n, w, x, d, entered[x]) /\ x = 0 =>
           (HasDealt(q, at'[x], local'[x]) <=> HasDealt(q, at[x], local[x]))
      /\ at[x] \notin {"start", "deal"} /\ at'[x] \notin {"start", "deal"}
      /\ at[x] # "failed" /\ at'[x] # "failed"
  BY HeatSwapMade
<1>1. /\ SentDown(w, at[x], entered[x]) /\ SentDown(w, at'[x], entered'[x])
      /\ GotDown(w, at[x], entered[x]) /\ GotDown(w, at'[x], entered'[x])
      /\ SentUp(w, at[x], entered[x]) /\ SentUp(w, at'[x], entered'[x])
      /\ ~GotUp(w, at[x], entered[x]) /\ GotUp(w, at'[x], entered'[x])
  BY ONLY <1>0, HeatFlags
<1>2. /\ mail[y][x] # <<>> /\ mail'[y][x] = Tail(mail[y][x])
      /\ \A a, b \in Procs(n) : a # y \/ b # x => mail'[a][b] = mail[a][b]
  BY DEF HeatTaken
<1>3. /\ x < y /\ y # x /\ \A q \in Procs(n) : (q < x \/ x < q => q # x) /\ (q = x + 1 => q = y)
      /\ \A q \in Procs(n) : q < x \/ x = q + 1 => q # x /\ q # y
  BY <1>0 DEF Procs
<1>4. x # 0 \/ w.done = <<>> =>
        /\ mail[y][x] = <<HeatRow(w, y)>> /\ SentUp(w, at[y], entered[y])
        /\ Head(mail[y][x]) = HeatRow(w, y) /\ mail'[y][x] = <<>>
  <2> SUFFICES ASSUME x # 0 \/ w.done = <<>>
               PROVE  /\ mail[y][x] = <<HeatRow(w, y)>> /\ SentUp(w, at[y], entered[y])
                      /\ Head(mail[y][x]) = HeatRow(w, y) /\ mail'[y][x] = <<>>
    OBVIOUS
  <2>1. HeatUp(w, y, x, at, mail, entered)
    BY <1>0 DEF HeatKeeps
  <2>2. mail[y][x] = <<HeatRow(w, y)>> /\ SentUp(w, at[y], entered[y])
    BY ONLY <1>2, <2>1 DEF HeatUp, Lent
  <2> QED BY ONLY <1>2, <2>2, HeatLists
<1>5. /\ HeatAmid(n, w, x, d, entered[x]) /\ (x # 0 => d.above = HeatRow(w, x - 1))
      /\ x # 0 \/ w.done = <<>> => d.below = HeatRow(w, x + 1)
  <2>1. x # 0 => local[x].above = HeatRow(w, x - 1)
    BY ONLY <1>0, HeatSwapAbove
  <2>2. PICK m : m = Head(mail[y][x])
    OBVIOUS
  <2>3. /\ HeatAmid(n, w, x, d, entered[x]) /\ d.below = m /\ d.above = local[x].above
    <3>1. PICK c, e : c = local[x] /\ e = entered[x]
      OBVIOUS
    <3>2. HeatAmid(n, w, x, c, e) /\ m \in HeatLetters(n) /\ d = [c EXCEPT !.below = m]
      BY ONLY <1>0, <2>2, <3>1, d = [local[x] EXCEPT !.below = Head(mail[y][x])],
              Head(mail[y][x]) \in HeatLetters(n)
    <3>3. HeatAmid(n, w, x, d, e) /\ d.below = m /\ d.above = c.above
      BY ONLY <3>2, HeatAmidBelow
    <3> QED BY ONLY <3>1, <3>3
  <2> QED BY ONLY <1>4, <2>1, <2>2, <2>3, y = x + 1
<1>6. HeatFits(n, w, x, at'[x], local'[x], entered'[x], waits'[x])
  BY ONLY <1>0, <1>5, HeatSwapFit
<1>7. ASSUME NEW p \in Procs(n), p < x PROVE DownNow(n, w, p, x)
  <2>1. mail'[p][x] = mail[p][x]
    BY ONLY <1>0, <1>2, <1>3, <1>7
  <2> QED BY ONLY <1>0, <1>1, <1>7, <2>1, HeatDownIn
<1>8. ASSUME NEW q \in Procs(n), x < q PROVE DownNow(n, w, x, q)
  <2>1. mail'[x][q] = mail[x][q]
    BY ONLY <1>0, <1>2, <1>3, <1>8
  <2>2. x = 0 => (HasDealt(q, at'[x], local'[x]) <=> HasDealt(q, at[x], local[x]))
    BY ONLY <1>0, <1>5, q \in Procs(n)
  <2> QED BY ONLY <1>0, <1>1, <1>8, <2>1, <2>2, HeatDownOut
<1>9. ASSUME NEW p \in Procs(n), x = p + 1, p # 0 \/ w.done = <<>> PROVE UpNow(w, x, p)
  <2>1. mail'[x][p] = mail[x][p]
    BY ONLY <1>0, <1>2, <1>3, <1>9
  <2> QED BY ONLY <1>0, <1>1, <1>9, <2>1, HeatUpOut
<1>10. ASSUME NEW q \in Procs(n), q = x + 1, x # 0 \/ w.done = <<>> PROVE UpNow(w, q, x)
  <2>1. q = y
    BY ONLY <1>3, <1>10
  <2>2. ~Lent(w, y, x, at', entered') /\ mail'[y][x] = <<>>
    BY ONLY <1>1, <1>4, <1>10 DEF Lent
  <2>3. SentUp(w, at'[y], entered'[y])
    <3>1. at'[y] = at[y] /\ entered'[y] = entered[y]
      BY ONLY <1>0, <1>3, y \in Procs(n)
    <3> QED BY ONLY <1>4, <1>10, <3>1
  <2> QED BY ONLY <2>1, <2>2, <2>3 DEF UpNow, HeatUp
<1>11. \A a, b \in Procs(n) : a # x /\ b # x => mail'[a][b] = mail[a][b]
  BY ONLY <1>2
<1> QED BY ONLY <1>0, <1>6, <1>7, <1>8, <1>9, <1>10, <1>11, HeatConcludes

(* A process without one before, or after, it goes on.                     *)
LEMMA HeatSkips ==
  ASSUME NEW n, NEW w, NEW x, NEW a, NEW b, HeatSwap(n, w, x, a, b, local[x]), mail' = mail,
         \/ a = "exchange" /\ b = "lower" /\ x = 0
         \/ a = "lower" /\ b = "compute" /\ x = n - 1
  PROVE  HeatDone(n, w)
<1>0. /\ HeatMade(n, w, x) /\ n \in Nat \ {0} /\ x \in Procs(n)
      /\ HeatFits(n, w, x, a, local[x], entered[x], waits[x])
      /\ HeatAmid(n, w, x, local[x], entered[x])
      /\ at[x] = a /\ at'[x] = b /\ local'[x] = local[x] /\ entered'[x] = entered[x]
      /\ a \in HeatSwaps /\ b \in HeatSwaps
      /\ \A q \in Procs(n) : x = 0 =>
           (HasDealt(q, at'[x], local'[x]) <=> HasDealt(q, at[x], local[x]))
      /\ at[x] \notin {"start", "deal"} /\ at'[x] \notin {"start", "deal"}
      /\ at[x] # "failed" /\ at'[x] # "failed"
  BY HeatSwapMade
<1>1. HeatFits(n, w, x, at'[x], local'[x], entered'[x], waits'[x])
  <2>1. a = "lower" => (x # 0 => local[x].above = HeatRow(w, x - 1))
    BY ONLY <1>0, HeatSwapAbove
  <2>2. CASE a = "exchange" /\ b = "lower" /\ x = 0
    BY ONLY <1>0, <2>2, HeatSwapFit
  <2>3. CASE a = "lower" /\ b = "compute" /\ x = n - 1
    BY ONLY <1>0, <2>1, <2>3, HeatSwapFit
  <2> QED BY <2>2, <2>3
<1>2. /\ x # n - 1 => a = "exchange" /\ b = "lower"
      /\ x # 0 => a = "lower" /\ b = "compute"
  OBVIOUS
<1>3. /\ a = "exchange" /\ b = "lower" =>
           /\ ~SentDown(w, at[x], entered[x]) /\ ~SentDown(w, at'[x], entered'[x])
           /\ ~GotUp(w, at[x], entered[x]) /\ ~GotUp(w, at'[x], entered'[x])
      /\ a = "lower" /\ b = "compute" =>
           /\ GotDown(w, at[x], entered[x]) /\ GotDown(w, at'[x], entered'[x])
           /\ SentUp(w, at[x], entered[x]) /\ SentUp(w, at'[x], entered'[x])
  BY ONLY <1>0, HeatFlags DEF HeatStill
<1>4. HeatSteady(n, w, x)
  BY ONLY <1>0, <1>2, <1>3, mail' = mail DEF HeatSteady
<1> QED BY ONLY <1>0, <1>1, <1>4, mail' = mail, HeatStays

(* No row is sent or received at a place.                                  *)
HeatIdle(w, a, e) == ~SentDown(w, a, e) /\ ~GotDown(w, a, e) /\ ~SentUp(w, a, e) /\ ~GotUp(w, a, e)

(* Elsewhere nothing of the current state is sent or received.             *)
LEMMA HeatIdles ==
  ASSUME NEW w, NEW a, NEW e, a \in HeatStill \/ (a = "agree" /\ ~Past(w, a, e))
  PROVE  HeatIdle(w, a, e)
BY DEF HeatIdle, HeatStill, SentDown, GotDown, SentUp, GotUp, Past

(* A step between two such places.                                         *)
LEMMA HeatRests ==
  ASSUME NEW n, NEW w, NEW x, HeatMade(n, w, x),
         HeatIdle(w, at[x], entered[x]), HeatIdle(w, at'[x], entered'[x]),
         HeatFits(n, w, x, at'[x], local'[x], entered'[x], waits'[x]),
         \A p, q \in Procs(n) : mail'[p][q] = mail[p][q] \/ (p = x /\ q = 0 /\ w.done # <<>>),
         x # 0 => /\ at'[x] \in {"start", "deal"} <=> at[x] \in {"start", "deal"}
                  /\ at'[x] = "failed" <=> at[x] = "failed",
         x = 0 => \A q \in Procs(n) \ {0} : HasDealt(q, at'[x], local'[x]) <=> HasDealt(q, at[x], local[x])
  PROVE  HeatDone(n, w)
<1>1. /\ ~SentDown(w, at[x], entered[x]) /\ ~SentDown(w, at'[x], entered'[x])
      /\ ~GotDown(w, at[x], entered[x]) /\ ~GotDown(w, at'[x], entered'[x])
      /\ ~SentUp(w, at[x], entered[x]) /\ ~SentUp(w, at'[x], entered'[x])
      /\ ~GotUp(w, at[x], entered[x]) /\ ~GotUp(w, at'[x], entered'[x])
  BY DEF HeatIdle
<1>2. \A p, q \in Procs(n) : mail'[p][q] = mail[p][q] \/ (q = 0 /\ w.done # <<>>)
  OBVIOUS
<1>3. HeatSteady(n, w, x)
  BY ONLY <1>1, <1>2,
     x # 0 => /\ at'[x] \in {"start", "deal"} <=> at[x] \in {"start", "deal"}
              /\ at'[x] = "failed" <=> at[x] = "failed",
     x = 0 => \A q \in Procs(n) \ {0} : HasDealt(q, at'[x], local'[x]) <=> HasDealt(q, at[x], local[x])
     DEF HeatSteady
<1>4. \A p, q \in Procs(n) : p # x /\ q # x => mail'[p][q] = mail[p][q]
  OBVIOUS
<1> QED BY ONLY <1>3, <1>4, HeatMade(n, w, x), HeatStays,
           HeatFits(n, w, x, at'[x], local'[x], entered'[x], waits'[x])

(* A step of x into a collective call.                                     *)
HeatVoiced(n, w, x, to, d, what) ==
  /\ HeatNow(n, w) /\ x \in Procs(n) /\ at'[x] = to /\ local'[x] = d
  /\ Len(entered[x]) \in Nat /\ Len(entered'[x]) = Len(entered[x]) + 1
  /\ entered'[x][Len(entered[x]) + 1] = what
  /\ \A k \in 1..Len(entered[x]) : entered'[x][k] = entered[x][k]
  /\ \A q \in Procs(n) : q # x =>
       at'[q] = at[q] /\ local'[q] = local[q] /\ entered'[q] = entered[q] /\ waits'[q] = waits[q]
  /\ mail' = mail

(* What a collective call leaves as it is.                                 *)
LEMMA HeatVoicedMade ==
  ASSUME NEW n, NEW w, NEW x, NEW to, NEW d, NEW what, HeatVoiced(n, w, x, to, d, what),
         w.level # 0 => w.level + 1 \in 1..Len(entered[x])
  PROVE  HeatMade(n, w, x)
<1>1. HeatNow(n, w) /\ HeatKeeps(n, w, at, local, mail, entered, waits)
  BY DEF HeatVoiced, HeatNow, HeatHolds
<1>2. /\ n \in Nat \ {0} /\ x \in Procs(n)
      /\ \A q \in Procs(n) : q # x =>
           at'[q] = at[q] /\ local'[q] = local[q] /\ entered'[q] = entered[q] /\ waits'[q] = waits[q]
      /\ w.level # 0 => entered'[x][w.level + 1] = entered[x][w.level + 1]
  BY DEF HeatVoiced, HeatNow
<1> QED BY ONLY <1>1, <1>2 DEF HeatMade

(* What the invariant says of a process and of the world.                  *)
LEMMA HeatIsNow ==
  ASSUME NEW n, NEW w, HeatNow(n, w), NEW x \in Procs(n)
  PROVE  /\ HeatKeeps(n, w, at, local, mail, entered, waits) /\ w \in HeatWorlds /\ HeatPast(w)
         /\ HeatFits(n, w, x, at[x], local[x], entered[x], waits[x]) /\ w.job = input
         /\ n \in Nat \ {0} /\ w.level \in Nat /\ w.now \in HeatStates /\ w.before \in HeatStates
         /\ w.past \in Seq(Nat) /\ w.done \in Seq(Nat) /\ input \in HeatInputs
<1>1. HeatKeeps(n, w, at, local, mail, entered, waits) /\ w.job = input /\ n \in Nat \ {0}
  BY DEF HeatNow, HeatHolds
<1>2. /\ w \in HeatWorlds /\ HeatPast(w) /\ HeatFits(n, w, x, at[x], local[x], entered[x], waits[x])
  BY <1>1 DEF HeatKeeps
<1>3. /\ w.level \in Nat /\ w.now \in HeatStates /\ w.before \in HeatStates
      /\ w.past \in Seq(Nat) /\ w.done \in Seq(Nat) /\ w.job \in HeatInputs
  BY <1>2 DEF HeatWorlds
<1> QED BY ONLY <1>1, <1>2, <1>3

(* A process starts.                                                       *)
LEMMA HeatStarts ==
  ASSUME NEW n, NEW w, NEW x, NEW d, NEW what, HeatVoiced(n, w, x, "deal", d, what), at[x] = "start",
         input.proper, d \in HeatRecord(n), d.dealt = 1, d.results = <<>>
  PROVE  HeatDone(n, w)
<1>1. /\ HeatNow(n, w) /\ x \in Procs(n) /\ at'[x] = "deal" /\ local'[x] = d /\ mail' = mail
      /\ Len(entered'[x]) = Len(entered[x]) + 1
  BY DEF HeatVoiced
<1>2. HeatFits(n, w, x, at[x], local[x], entered[x], waits[x]) /\ w.job = input /\ n \in Nat \ {0}
  BY ONLY <1>1, HeatIsNow
<1>3. Len(entered[x]) = 0 /\ w.level = 0
  BY ONLY <1>2, at[x] = "start" DEF HeatFits
<1>4. HeatMade(n, w, x)
  BY ONLY <1>3, HeatVoicedMade, HeatVoiced(n, w, x, "deal", d, what)
<1>5. HeatFits(n, w, x, at'[x], local'[x], entered'[x], waits'[x])
  <2>1. "deal" \in HeatPoints \ {"aborted"}
    BY DEF HeatPoints
  <2>2. Len(entered'[x]) = 1
    BY <1>1, <1>3
  <2> QED BY ONLY <1>1, <1>2, <1>3, <2>1, <2>2, input.proper, d \in HeatRecord(n), d.results = <<>> DEF HeatFits
<1>6. HeatIdle(w, at[x], entered[x]) /\ HeatIdle(w, at'[x], entered'[x])
  <2>1. at[x] \in HeatStill /\ at'[x] \in HeatStill
    BY <1>1 DEF HeatStill
  <2> QED BY ONLY <2>1, HeatIdles
<1>7. x = 0 => \A q \in Procs(n) \ {0} : HasDealt(q, at'[x], local'[x]) <=> HasDealt(q, at[x], local[x])
  <2>1. \A q \in Procs(n) \ {0} : ~(q < d.dealt)
    BY <1>2 DEF Procs
  <2> QED BY ONLY <1>1, <2>1, at[x] = "start" DEF HasDealt
<1>8. /\ at'[x] \in {"start", "deal"} <=> at[x] \in {"start", "deal"}
      /\ at'[x] = "failed" <=> at[x] = "failed"
  BY ONLY <1>1, at[x] = "start"
<1>9. \A p, q \in Procs(n) : mail'[p][q] = mail[p][q] \/ (p = x /\ q = 0 /\ w.done # <<>>)
  BY ONLY <1>1
<1> QED BY ONLY <1>4, <1>5, <1>6, <1>7, <1>8, <1>9, HeatRests

(* A process cannot start.                                                 *)
LEMMA HeatFails ==
  ASSUME NEW n, NEW w, NEW x, HeatAlone(n, w, x, "failed", local[x]), at[x] = "start", mail' = mail,
         ~input.proper \/ x = 0
  PROVE  HeatDone(n, w)
<1>1. /\ HeatMade(n, w, x) /\ HeatFits(n, w, x, at[x], local[x], entered[x], waits[x])
      /\ n \in Nat \ {0} /\ x \in Procs(n) /\ w.job = input
      /\ at'[x] = "failed" /\ local'[x] = local[x] /\ entered'[x] = entered[x]
  BY HeatAloneMade
<1>2. Len(entered[x]) = 0 /\ w.level = 0 /\ local[x] = <<>>
  BY ONLY <1>1, at[x] = "start" DEF HeatFits
<1>3. HeatFits(n, w, x, at'[x], local'[x], entered'[x], waits'[x])
  <2>1. "failed" \in HeatPoints \ {"aborted"}
    BY DEF HeatPoints
  <2> QED BY ONLY <1>1, <1>2, <2>1, ~input.proper \/ x = 0 DEF HeatFits
<1>4. HeatIdle(w, at[x], entered[x]) /\ HeatIdle(w, at'[x], entered'[x])
  <2>1. at[x] \in HeatStill /\ at'[x] \in HeatStill
    BY <1>1 DEF HeatStill
  <2> QED BY ONLY <2>1, HeatIdles
<1>5. CASE x = 0
  <2>1. \A q \in Procs(n) \ {0} : HasDealt(q, at'[x], local'[x]) <=> HasDealt(q, at[x], local[x])
    BY ONLY <1>1, at[x] = "start" DEF HasDealt
  <2>2. \A p, q \in Procs(n) : mail'[p][q] = mail[p][q] \/ (p = x /\ q = 0 /\ w.done # <<>>)
    BY ONLY mail' = mail
  <2> QED BY ONLY <1>1, <1>3, <1>4, <1>5, <2>1, <2>2, HeatRests
<1>6. CASE x # 0
  <2>1. /\ HeatKeeps(n, w, at, local, mail, entered, waits) /\ ~w.job.proper
        /\ \A r \in Procs(n) : r # x => at'[r] = at[r] /\ local'[r] = local[r] /\ entered'[r] = entered[r]
    BY <1>1, <1>6 DEF HeatMade
  <2>2. /\ ~SentDown(w, at[x], entered[x]) /\ ~SentDown(w, at'[x], entered'[x])
        /\ ~GotDown(w, at[x], entered[x]) /\ ~GotDown(w, at'[x], entered'[x])
        /\ ~SentUp(w, at[x], entered[x]) /\ ~SentUp(w, at'[x], entered'[x])
        /\ ~GotUp(w, at[x], entered[x]) /\ ~GotUp(w, at'[x], entered'[x])
    BY <1>4 DEF HeatIdle
  <2>3. 0 \in Procs(n) /\ 0 < x /\ \A q \in Procs(n) : (q < x \/ x < q \/ q = x + 1 => q # x)
    BY <1>1, <1>6 DEF Procs
  <2>4. ASSUME NEW p \in Procs(n), p < x PROVE DownNow(n, w, p, x)
    <3>1. CASE p # 0
      BY ONLY <1>1, <2>2, <2>4, <3>1, mail' = mail, HeatDownIn
    <3>2. CASE p = 0
      <4>1. HeatDown(n, w, 0, x, at, local, mail, entered)
        BY <1>1, <2>1, <2>3 DEF HeatKeeps
      <4>2. HeatFits(n, w, 0, at[0], local[0], entered[0], waits[0])
        BY <2>1, <2>3 DEF HeatKeeps
      <4>3. at[0] \in {"start", "failed"}
        BY ONLY <2>1, <4>2 DEF HeatFits
      <4>4. ~SentDown(w, at[0], entered[0]) /\ ~HasDealt(x, at[0], local[0])
        BY ONLY <4>3, HeatFlags DEF HasDealt, HeatStill
      <4>5. mail[0][x] = <<>>
        BY ONLY <4>1, <4>4 DEF HeatDown, Due, Owes
      <4>6. at'[0] = at[0] /\ local'[0] = local[0] /\ entered'[0] = entered[0]
        BY ONLY <2>1, <2>3
      <4>7. ~Due(0, x, at', local') /\ ~Owes(w, 0, x, at', entered')
        BY ONLY <4>4, <4>6 DEF Due, Owes
      <4> QED BY ONLY <1>1, <2>2, <3>2, <4>5, <4>7, mail' = mail DEF DownNow, HeatDown
    <3> QED BY <3>1, <3>2
  <2>5. ASSUME NEW q \in Procs(n), x < q PROVE DownNow(n, w, x, q)
    BY ONLY <1>1, <1>6, <2>2, <2>5, mail' = mail, HeatDownOut
  <2>6. ASSUME NEW p \in Procs(n), x = p + 1, p # 0 \/ w.done = <<>> PROVE UpNow(w, x, p)
    BY ONLY <1>1, <2>2, <2>6, mail' = mail, HeatUpOut
  <2>7. ASSUME NEW q \in Procs(n), q = x + 1, x # 0 \/ w.done = <<>> PROVE UpNow(w, q, x)
    BY ONLY <1>1, <2>2, <2>7, mail' = mail, HeatUpIn
  <2>8. \A p, q \in Procs(n) : p # x /\ q # x => mail'[p][q] = mail[p][q]
    BY ONLY mail' = mail
  <2> QED BY ONLY <1>1, <1>3, <2>4, <2>5, <2>6, <2>7, <2>8, HeatConcludes
<1> QED BY <1>5, <1>6

(* What all places after the deal have in common.                          *)
HeatHas(n, w, x, d) ==
  /\ d \in HeatRecord(n) /\ w.job.proper /\ d.lines = HeatShare(n, w.job.lines, x) /\ (x = 0 => d.dealt = n)

HeatLate == {"plate", "exchange", "above", "lower", "below", "compute", "agree", "gather", "ended"}

(* After the deal a process has its part of the lines.                     *)
LEMMA HeatLateHas ==
  ASSUME NEW n, NEW w, NEW x, NEW a, NEW d, NEW e, NEW t, HeatFits(n, w, x, a, d, e, t), a \in HeatLate
  PROVE  HeatHas(n, w, x, d)
BY DEF HeatFits, HeatHas, HeatLate

(* After its deal process 0 has dealt to everybody.                        *)
LEMMA HeatLateDealt ==
  ASSUME NEW n, NEW w, NEW x, NEW a, NEW b, NEW d, NEW f, HeatHas(n, w, x, d), HeatHas(n, w, x, f),
         a \in HeatLate, b \in HeatLate
  PROVE  x = 0 => \A q \in Procs(n) \ {0} : HasDealt(q, b, f) <=> HasDealt(q, a, d)
BY DEF HeatHas, HasDealt, HeatLate

(* A step from one of these places to another, where no row is exchanged.  *)
LEMMA HeatRestsLate ==
  ASSUME NEW n, NEW w, NEW x, HeatMade(n, w, x),
         HeatIdle(w, at[x], entered[x]), HeatIdle(w, at'[x], entered'[x]),
         HeatFits(n, w, x, at'[x], local'[x], entered'[x], waits'[x]),
         \A p, q \in Procs(n) : mail'[p][q] = mail[p][q] \/ (p = x /\ q = 0 /\ w.done # <<>>),
         at[x] \in HeatLate, at'[x] \in HeatLate
  PROVE  HeatDone(n, w)
<1>1. HeatFits(n, w, x, at[x], local[x], entered[x], waits[x])
  BY DEF HeatMade, HeatKeeps
<1>2. HeatHas(n, w, x, local[x]) /\ HeatHas(n, w, x, local'[x])
  BY ONLY <1>1, HeatLateHas, HeatFits(n, w, x, at'[x], local'[x], entered'[x], waits'[x]),
          at[x] \in HeatLate, at'[x] \in HeatLate
<1>3. x = 0 => \A q \in Procs(n) \ {0} : HasDealt(q, at'[x], local'[x]) <=> HasDealt(q, at[x], local[x])
  BY ONLY <1>2, HeatLateDealt, at[x] \in HeatLate, at'[x] \in HeatLate
<1>4. /\ at'[x] \in {"start", "deal"} <=> at[x] \in {"start", "deal"}
      /\ at'[x] = "failed" <=> at[x] = "failed"
  BY ONLY at[x] \in HeatLate, at'[x] \in HeatLate DEF HeatLate
<1> QED BY <1>3, <1>4, HeatRests

(* Process 0 has dealt all parts, and takes its own.                       *)
LEMMA HeatTakesPart ==
  ASSUME NEW n, NEW w, NEW d, HeatAlone(n, w, 0, "plate", d), at[0] = "deal", local[0].dealt = n,
         mail' = mail, d = [local[0] EXCEPT !.lines = HeatShare(n, input.lines, 0)],
         HeatShare(n, input.lines, 0) \in Seq(Int)
  PROVE  HeatDone(n, w)
<1>1. /\ HeatMade(n, w, 0) /\ HeatFits(n, w, 0, at[0], local[0], entered[0], waits[0])
      /\ n \in Nat \ {0} /\ 0 \in Procs(n) /\ w.job = input
      /\ at'[0] = "plate" /\ local'[0] = d /\ entered'[0] = entered[0]
  BY HeatAloneMade
<1>2. /\ local[0] \in HeatRecord(n) /\ w.job.proper /\ Len(entered[0]) = 1 /\ w.level = 0
      /\ local[0].results = <<>>
  BY ONLY <1>1, at[0] = "deal" DEF HeatFits
<1>3. HeatKeeps(n, w, at, local, mail, entered, waits)
  BY <1>1 DEF HeatMade
<1>4. w.done = <<>> /\ w.now = 0
  BY ONLY <1>2, <1>3 DEF HeatKeeps, HeatPast
<1>5. d \in HeatRecord(n) /\ d.lines = HeatShare(n, w.job.lines, 0) /\ d.results = <<>> /\ d.dealt = n
  <2>1. PICK s \in Seq(Int) : s = HeatShare(n, w.job.lines, 0)
    BY <1>1
  <2>2. d = [local[0] EXCEPT !.lines = s]
    BY <1>1, <2>1
  <2> QED BY ONLY <1>2, <2>1, <2>2, HeatRecords, local[0].dealt = n
<1>6. HeatFits(n, w, 0, at'[0], local'[0], entered'[0], waits'[0])
  <2>1. "plate" \in HeatPoints \ {"aborted"}
    BY DEF HeatPoints
  <2>2. Recorded(d, w.done) /\ Len(entered[0]) = w.level + 1
    <3>1. Len(<<>>) = 0 /\ \A i \in 1..0 : FALSE
      OBVIOUS
    <3> QED BY ONLY <1>2, <1>4, <1>5, <3>1 DEF Recorded
  <2> QED BY ONLY <1>1, <1>2, <1>4, <1>5, <2>1, <2>2 DEF HeatFits
<1>7. HeatIdle(w, at[0], entered[0]) /\ HeatIdle(w, at'[0], entered'[0])
  <2>1. at[0] \in HeatStill /\ at'[0] \in HeatStill
    BY <1>1 DEF HeatStill
  <2> QED BY ONLY <2>1, HeatIdles
<1>8. \A q \in Procs(n) \ {0} : HasDealt(q, at'[0], local'[0]) <=> HasDealt(q, at[0], local[0])
  BY ONLY <1>1, <1>5, local[0].dealt = n, at[0] = "deal" DEF HasDealt
<1>9. \A p, q \in Procs(n) : mail'[p][q] = mail[p][q] \/ (p = 0 /\ q = 0 /\ w.done # <<>>)
  BY ONLY mail' = mail
<1> QED BY ONLY <1>1, <1>6, <1>7, <1>8, <1>9, HeatRests

(* The next plate is read.                                                 *)
LEMMA HeatReads ==
  ASSUME NEW n, NEW w, NEW x, NEW d, HeatAlone(n, w, x, "exchange", d), at[x] = "plate", mail' = mail,
         d = [local[x] EXCEPT !.state = 0], ~(Len(local[x].results) + 1 > Len(local[x].lines))
  PROVE  HeatDone(n, w)
<1>1. /\ HeatMade(n, w, x) /\ HeatFits(n, w, x, at[x], local[x], entered[x], waits[x])
      /\ n \in Nat \ {0} /\ x \in Procs(n) /\ w.job = input
      /\ at'[x] = "exchange" /\ local'[x] = d /\ entered'[x] = entered[x]
  BY HeatAloneMade
<1>2. /\ HeatHas(n, w, x, local[x])
      /\ Len(entered[x]) = w.level + 1 /\ Recorded(local[x], w.done) /\ w.now = 0
  BY ONLY <1>1, at[x] = "plate" DEF HeatFits, HeatHas
<1>3. local[x] \in HeatRecord(n)
  BY <1>2 DEF HeatHas
<1>4. /\ d \in HeatRecord(n) /\ d.dealt = local[x].dealt /\ d.lines = local[x].lines /\ d.state = 0
      /\ d.results = local[x].results
  <2>1. 0 \in 0..MostStates
    BY NumbersAssumption
  <2> QED BY <1>3, <2>1 DEF HeatRecord
<1>5. Len(d.results) < Len(d.lines)
  <2>1. Len(local[x].results) \in Nat /\ Len(local[x].lines) \in Nat
    BY <1>3, LenProperties DEF HeatRecord
  <2> QED BY ONLY <1>4, <2>1, ~(Len(local[x].results) + 1 > Len(local[x].lines))
<1>6. HeatAmid(n, w, x, d, entered[x])
  BY ONLY <1>2, <1>4, <1>5 DEF HeatAmid, HeatHas, Recorded
<1>7. HeatFits(n, w, x, at'[x], local'[x], entered'[x], waits'[x])
  <2>1. "exchange" \in HeatSwaps
    BY DEF HeatSwaps
  <2> QED BY ONLY <1>1, <1>6, <2>1, HeatSwapFit
<1>8. HeatIdle(w, at[x], entered[x]) /\ HeatIdle(w, at'[x], entered'[x])
  <2>1. at[x] \in HeatStill /\ at'[x] \in HeatStill
    BY <1>1 DEF HeatStill
  <2> QED BY ONLY <2>1, HeatIdles
<1>9. at[x] \in HeatLate /\ at'[x] \in HeatLate
  BY <1>1 DEF HeatLate
<1>10. \A p, q \in Procs(n) : mail'[p][q] = mail[p][q] \/ (p = x /\ q = 0 /\ w.done # <<>>)
  BY ONLY mail' = mail
<1> QED BY ONLY <1>1, <1>7, <1>8, <1>9, <1>10, HeatRestsLate

(* A process ends.                                                         *)
LEMMA HeatEnds ==
  ASSUME NEW n, NEW w, NEW x, HeatAlone(n, w, x, "ended", local[x]), at[x] = "plate", mail' = mail
  PROVE  HeatDone(n, w)
<1>1. /\ HeatMade(n, w, x) /\ HeatFits(n, w, x, at[x], local[x], entered[x], waits[x])
      /\ n \in Nat \ {0} /\ x \in Procs(n) /\ w.job = input
      /\ at'[x] = "ended" /\ local'[x] = local[x] /\ entered'[x] = entered[x]
  BY HeatAloneMade
<1>2. HeatFits(n, w, x, at'[x], local'[x], entered'[x], waits'[x])
  <2>1. /\ HeatHas(n, w, x, local[x])
        /\ Len(entered[x]) = w.level + 1 /\ Recorded(local[x], w.done) /\ w.now = 0
    BY ONLY <1>1, at[x] = "plate" DEF HeatFits, HeatHas
  <2>2. "ended" \in HeatPoints \ {"aborted"}
    BY DEF HeatPoints
  <2> QED BY ONLY <1>1, <2>1, <2>2 DEF HeatFits, HeatHas
<1>3. HeatIdle(w, at[x], entered[x]) /\ HeatIdle(w, at'[x], entered'[x])
  <2>1. at[x] \in HeatStill /\ at'[x] \in HeatStill
    BY <1>1 DEF HeatStill
  <2> QED BY ONLY <2>1, HeatIdles
<1>4. at[x] \in HeatLate /\ at'[x] \in HeatLate
  BY <1>1 DEF HeatLate
<1>5. \A p, q \in Procs(n) : mail'[p][q] = mail[p][q] \/ (p = x /\ q = 0 /\ w.done # <<>>)
  BY ONLY mail' = mail
<1> QED BY ONLY <1>1, <1>2, <1>3, <1>4, <1>5, HeatRestsLate

(* A process has computed its rows, and enters the reduction.              *)
LEMMA HeatComputes ==
  ASSUME NEW n, NEW w, NEW x, NEW what, HeatVoiced(n, w, x, "agree", local[x], what), at[x] = "compute",
         what \in BOOLEAN, local[x].state + 1 < MostStates \/ what = TRUE, waits'[x].entry = Procs(n)
  PROVE  HeatDone(n, w)
<1>1. /\ HeatNow(n, w) /\ x \in Procs(n) /\ at'[x] = "agree" /\ local'[x] = local[x] /\ mail' = mail
      /\ Len(entered'[x]) = Len(entered[x]) + 1 /\ entered'[x][Len(entered[x]) + 1] = what
  BY DEF HeatVoiced
<1>2. /\ HeatFits(n, w, x, at[x], local[x], entered[x], waits[x]) /\ w.job = input /\ n \in Nat \ {0}
      /\ w.level \in Nat
  BY ONLY <1>1, HeatIsNow
<1>3. HeatAmid(n, w, x, local[x], entered[x])
  <2>1. "compute" \in HeatSwaps
    BY DEF HeatSwaps
  <2> QED BY ONLY <1>2, <2>1, HeatSwapFits, at[x] = "compute"
<1>4. Len(entered[x]) = w.level + 1
  BY ONLY <1>3 DEF HeatAmid
<1>5. HeatMade(n, w, x)
  <2>1. w.level # 0 => w.level + 1 \in 1..Len(entered[x])
    BY ONLY <1>2, <1>4
  <2> QED BY ONLY <2>1, HeatVoicedMade, HeatVoiced(n, w, x, "agree", local[x], what)
<1>6. Len(entered'[x]) = w.level + 2 /\ entered'[x][w.level + 2] = what
  <2>1. Len(entered[x]) + 1 = w.level + 2
    BY ONLY <1>2, <1>4
  <2> QED BY ONLY <1>1, <2>1
<1>7. HeatBeyond(w, local[x], entered'[x])
  BY ONLY <1>3, <1>6, what \in BOOLEAN, local[x].state + 1 < MostStates \/ what = TRUE
     DEF HeatBeyond, HeatAmid
<1>8. HeatFits(n, w, x, at'[x], local'[x], entered'[x], waits'[x])
  <2>1. "agree" \in HeatPoints \ {"aborted"}
    BY DEF HeatPoints
  <2> QED BY ONLY <1>1, <1>3, <1>7, <2>1, waits'[x].entry = Procs(n) DEF HeatFits, HeatAmid
<1>9. /\ SentDown(w, at[x], entered[x]) /\ SentDown(w, at'[x], entered'[x])
      /\ GotDown(w, at[x], entered[x]) /\ GotDown(w, at'[x], entered'[x])
      /\ SentUp(w, at[x], entered[x]) /\ SentUp(w, at'[x], entered'[x])
      /\ GotUp(w, at[x], entered[x]) /\ GotUp(w, at'[x], entered'[x])
  BY ONLY <1>1, <1>6, at[x] = "compute" DEF SentDown, GotDown, SentUp, GotUp, Past
<1>10. x = 0 => \A q \in Procs(n) \ {0} : HasDealt(q, at'[x], local'[x]) <=> HasDealt(q, at[x], local[x])
  BY ONLY <1>1, at[x] = "compute" DEF HasDealt
<1>11. HeatSteady(n, w, x)
  BY ONLY <1>1, <1>9, <1>10, at[x] = "compute" DEF HeatSteady
<1>12. \A p, q \in Procs(n) : p # x /\ q # x => mail'[p][q] = mail[p][q]
  BY ONLY <1>1
<1> QED BY ONLY <1>5, <1>8, <1>11, <1>12, HeatStays

(* Nobody is a reduction further than the others but who waits for them.   *)
LEMMA HeatLevels ==
  ASSUME NEW n, NEW w, NEW q, NEW a, NEW d, NEW e, NEW t, HeatFits(n, w, q, a, d, e, t), w.level \in Nat
  PROVE  Past(w, a, e) \/ ~(Len(e) >= w.level + 2)
<1>1. CASE a \in {"start", "failed"}
  <2>1. Len(e) = 0 /\ w.level = 0
    BY ONLY <1>1, HeatFits(n, w, q, a, d, e, t) DEF HeatFits
  <2> QED BY ONLY <2>1
<1>2. CASE a = "deal"
  <2>1. Len(e) = 1 /\ w.level = 0
    BY ONLY <1>2, HeatFits(n, w, q, a, d, e, t) DEF HeatFits
  <2> QED BY ONLY <2>1
<1>3. CASE a \in {"plate", "ended", "exchange", "above", "lower", "below", "compute", "gather"}
  <2>1. Len(e) = w.level + 1
    BY ONLY <1>3, HeatFits(n, w, q, a, d, e, t) DEF HeatFits
  <2> QED BY ONLY <2>1, w.level \in Nat
<1>4. CASE a = "agree"
  <2>1. Len(e) = w.level + 1 \/ Len(e) = w.level + 2
    BY ONLY <1>4, HeatFits(n, w, q, a, d, e, t) DEF HeatFits, HeatBefore, HeatBeyond
  <2> QED BY ONLY <1>4, <2>1, w.level \in Nat DEF Past
<1> QED BY <1>1, <1>2, <1>3, <1>4 DEF HeatFits, HeatPoints

(* Who leaves a reduction leaves the last that all have entered.           *)
LEMMA HeatLeaves ==
  ASSUME NEW n, NEW w, HeatNow(n, w), NEW x \in Procs(n), at[x] = "agree",
         \A q \in waits[x].entry : Len(entered[q]) >= Len(entered[x])
  PROVE  /\ ~Past(w, at[x], entered[x]) /\ HeatBefore(w, local[x], entered[x])
         /\ HeatHas(n, w, x, local[x]) /\ Len(local[x].results) < Len(local[x].lines)
         /\ (\A q \in Procs(n) : entered[q][Len(entered[x])]) \in BOOLEAN
         /\ (\A q \in Procs(n) : entered[q][Len(entered[x])]) <=> w.settled
<1>1. /\ HeatKeeps(n, w, at, local, mail, entered, waits) /\ w \in HeatWorlds
      /\ HeatFits(n, w, x, at[x], local[x], entered[x], waits[x]) /\ w.level \in Nat
  BY ONLY HeatNow(n, w), x \in Procs(n), HeatIsNow
<1>2. waits[x].entry = Procs(n) /\ (HeatBefore(w, local[x], entered[x]) \/ HeatBeyond(w, local[x], entered[x]))
  BY ONLY <1>1, at[x] = "agree" DEF HeatFits
<1>3. HeatHas(n, w, x, local[x]) /\ Len(local[x].results) < Len(local[x].lines)
  BY ONLY <1>1, at[x] = "agree" DEF HeatFits, HeatHas
<1>4. ~Past(w, at[x], entered[x])
  <2> SUFFICES ASSUME Past(w, at[x], entered[x]) PROVE FALSE
    OBVIOUS
  <2>1. PICK q \in Procs(n) : ~Past(w, at[q], entered[q])
    BY DEF HeatNow, HeatHolds
  <2>2. HeatFits(n, w, q, at[q], local[q], entered[q], waits[q])
    BY <1>1 DEF HeatKeeps
  <2>3. Len(entered[q]) >= w.level + 2
    <3>1. Len(entered[x]) = w.level + 2
      BY DEF Past
    <3>2. Len(entered[q]) >= Len(entered[x])
      BY <1>2
    <3> QED BY ONLY <3>1, <3>2
  <2> QED BY ONLY <1>1, <2>1, <2>2, <2>3, HeatLevels
<1>5. HeatBefore(w, local[x], entered[x])
  BY ONLY <1>2, <1>4, at[x] = "agree" DEF HeatBeyond, Past
<1>6. Len(entered[x]) = w.level + 1 /\ w.level # 0
  BY ONLY <1>5 DEF HeatBefore
<1>7. /\ \A q \in Procs(n) : entered[q][w.level + 1] \in BOOLEAN
      /\ w.settled <=> \A q \in Procs(n) : entered[q][w.level + 1] = TRUE
  BY <1>1, <1>6 DEF HeatKeeps, HeatVoices
<1>8. (\A q \in Procs(n) : entered[q][w.level + 1]) <=> w.settled
  BY ONLY <1>7, Zenon
<1>9. (\A q \in Procs(n) : entered[q][w.level + 1]) \in BOOLEAN
  OBVIOUS
<1>10. /\ (\A q \in Procs(n) : entered[q][Len(entered[x])]) \in BOOLEAN
       /\ (\A q \in Procs(n) : entered[q][Len(entered[x])]) <=> w.settled
  BY ONLY <1>6, <1>8, <1>9, Zenon
<1> QED BY ONLY <1>3, <1>4, <1>5, <1>10

(* A process knows whether all have settled.                               *)
LEMMA HeatAgrees ==
  ASSUME NEW n, NEW w, NEW x, NEW to, NEW d, HeatAlone(n, w, x, to, d), at[x] = "agree", mail' = mail,
         HeatBefore(w, local[x], entered[x]), ~Past(w, at[x], entered[x]), HeatHas(n, w, x, local[x]),
         Len(local[x].results) < Len(local[x].lines),
         NEW settled \in BOOLEAN, settled <=> w.settled, to = IF settled THEN "gather" ELSE "exchange",
         NEW f, f = [local[x] EXCEPT !.state = local[x].state + 1], d = [f EXCEPT !.settled = settled]
  PROVE  HeatDone(n, w)
<1>1. /\ HeatMade(n, w, x) /\ HeatFits(n, w, x, at[x], local[x], entered[x], waits[x])
      /\ n \in Nat \ {0} /\ x \in Procs(n) /\ w.job = input /\ w.before \in HeatStates
      /\ at'[x] = to /\ local'[x] = d /\ entered'[x] = entered[x]
  BY HeatAloneMade
<1>2. /\ Len(entered[x]) = w.level + 1 /\ w.level # 0 /\ Recorded(local[x], w.past)
      /\ local[x].state = w.before
  BY DEF HeatBefore
<1>3. local[x] \in HeatRecord(n)
  BY DEF HeatHas
<1>4. w.before + 1 \in 0..MostStates
  BY <1>1, NumbersAssumption DEF HeatStates
<1>5. /\ f \in HeatRecord(n) /\ f.dealt = local[x].dealt /\ f.lines = local[x].lines
      /\ f.state = w.before + 1 /\ f.results = local[x].results
  BY <1>2, <1>3, <1>4 DEF HeatRecord
<1>6. /\ d \in HeatRecord(n) /\ d.dealt = local[x].dealt /\ d.lines = local[x].lines
      /\ d.state = w.before + 1 /\ d.results = local[x].results
  BY <1>5 DEF HeatRecord
<1>7. HeatHas(n, w, x, d) /\ Len(d.results) < Len(d.lines) /\ Recorded(d, w.past)
  BY ONLY <1>2, <1>6, HeatHas(n, w, x, local[x]), Len(local[x].results) < Len(local[x].lines)
     DEF HeatHas, Recorded
<1>8. HeatPast(w)
  BY <1>1 DEF HeatMade, HeatKeeps
<1>9. HeatFits(n, w, x, at'[x], local'[x], entered'[x], waits'[x])
  <2>1. CASE settled
    <3>1. "gather" \in HeatPoints \ {"aborted"}
      BY DEF HeatPoints
    <3>2. w.settled /\ to = "gather"
      BY <2>1
    <3> QED BY ONLY <1>1, <1>2, <1>6, <1>7, <3>1, <3>2 DEF HeatFits, HeatHas
  <2>2. CASE ~settled
    <3>1. ~w.settled /\ to = "exchange"
      BY <2>2
    <3>2. w.done = w.past /\ w.now = w.before + 1
      BY ONLY <1>2, <1>8, <3>1 DEF HeatPast
    <3>3. HeatAmid(n, w, x, d, entered[x])
      BY ONLY <1>2, <1>6, <1>7, <3>2 DEF HeatAmid, HeatHas
    <3>4. to \in HeatSwaps
      BY <3>1 DEF HeatSwaps
    <3> QED BY ONLY <1>1, <3>1, <3>3, <3>4, HeatSwapFit
  <2> QED BY <2>1, <2>2
<1>10. HeatIdle(w, at[x], entered[x]) /\ HeatIdle(w, at'[x], entered'[x])
  <2>1. at'[x] \in HeatStill
    BY <1>1 DEF HeatStill
  <2> QED BY ONLY <2>1, HeatIdles, at[x] = "agree", ~Past(w, at[x], entered[x])
<1>11. at[x] \in HeatLate /\ at'[x] \in HeatLate
  BY <1>1 DEF HeatLate
<1>12. \A p, q \in Procs(n) : mail'[p][q] = mail[p][q] \/ (p = x /\ q = 0 /\ w.done # <<>>)
  BY ONLY mail' = mail
<1> QED BY ONLY <1>1, <1>9, <1>10, <1>11, <1>12, HeatRestsLate

(* A process sends a row of the settled plate to process 0.                *)
LEMMA HeatSendsRow ==
  ASSUME NEW n, NEW w, NEW x, NEW d, NEW what, HeatAlone(n, w, x, "gather", d), at[x] = "gather",
         HeatPut(n, x, 0, what), x # 0,
         d = [local[x] EXCEPT !.row = local[x].row + 1], local[x].row < PlateRows
  PROVE  HeatDone(n, w)
<1>1. /\ HeatMade(n, w, x) /\ HeatFits(n, w, x, at[x], local[x], entered[x], waits[x])
      /\ n \in Nat \ {0} /\ x \in Procs(n) /\ w.job = input /\ w.before \in HeatStates
      /\ w \in HeatWorlds
      /\ at'[x] = "gather" /\ local'[x] = d /\ entered'[x] = entered[x]
  BY HeatAloneMade
<1>2. /\ HeatHas(n, w, x, local[x]) /\ Len(entered[x]) = w.level + 1 /\ w.level # 0 /\ w.settled
      /\ Recorded(local[x], w.past) /\ local[x].state = w.before + 1
      /\ Len(local[x].results) < Len(local[x].lines)
  BY ONLY <1>1, at[x] = "gather" DEF HeatFits, HeatHas
<1>3. local[x] \in HeatRecord(n)
  BY <1>2 DEF HeatHas
<1>4. /\ d \in HeatRecord(n) /\ d.dealt = local[x].dealt /\ d.lines = local[x].lines
      /\ d.state = local[x].state /\ d.results = local[x].results
  <2>1. local[x].row \in 0..PlateRows
    BY <1>3 DEF HeatRecord
  <2>2. PICK k \in Nat : k = local[x].row + 1 /\ k \in 0..PlateRows
    BY <2>1, NumbersAssumption
  <2>3. d = [local[x] EXCEPT !.row = k]
    BY <2>2
  <2> QED BY ONLY <1>3, <2>2, <2>3 DEF HeatRecord
<1>5. HeatFits(n, w, x, at'[x], local'[x], entered'[x], waits'[x])
  <2>1. "gather" \in HeatPoints \ {"aborted"}
    BY DEF HeatPoints
  <2> QED BY ONLY <1>1, <1>2, <1>4, <2>1, x # 0 DEF HeatFits, HeatHas, Recorded
<1>6. w.done # <<>>
  <2>1. HeatPast(w)
    BY <1>1 DEF HeatMade, HeatKeeps
  <2>2. w.done = Append(w.past, w.before + 1)
    BY ONLY <1>2, <2>1 DEF HeatPast
  <2>3. PICK h \in Seq(Nat), k \in Nat : h = w.past /\ k = w.before + 1
    <3>1. w.past \in Seq(Nat) /\ w.before + 1 \in Nat
      BY <1>1 DEF HeatWorlds, HeatStates
    <3> QED BY <3>1
  <2>4. Append(h, k) # <<>>
    BY ONLY h \in Seq(Nat), k \in Nat, AppendProperties
  <2> QED BY ONLY <2>2, <2>3, <2>4
<1>7. \A p, q \in Procs(n) : mail'[p][q] = mail[p][q] \/ (p = x /\ q = 0 /\ w.done # <<>>)
  BY <1>6 DEF HeatPut
<1>8. HeatIdle(w, at[x], entered[x]) /\ HeatIdle(w, at'[x], entered'[x])
  <2>1. at[x] \in HeatStill /\ at'[x] \in HeatStill
    BY <1>1 DEF HeatStill
  <2> QED BY ONLY <2>1, HeatIdles
<1>9. at[x] \in HeatLate /\ at'[x] \in HeatLate
  BY <1>1 DEF HeatLate
<1> QED BY ONLY <1>1, <1>5, <1>7, <1>8, <1>9, HeatRestsLate

(* A process has done with a plate.                                        *)
HeatWriting(n, w, d, r, s) ==
  /\ d \in HeatRecord(n) /\ Recorded(d, w.past) /\ w.past \in Seq(Nat)
  /\ w.done = Append(w.past, w.before + 1) /\ d.state = w.before + 1 /\ w.before \in HeatStates
  /\ Len(d.results) < Len(d.lines) /\ r = [line |-> d.lines[Len(d.results) + 1], states |-> d.state]
  /\ s = Append(d.results, r)

(* The results with that of the plate.                                     *)
LEMMA HeatWritten ==
  ASSUME NEW n, NEW w, NEW d, NEW r, NEW s, HeatWriting(n, w, d, r, s)
  PROVE  /\ s \in Seq(HeatResults)
         /\ Len(s) = Len(w.done) /\ \A i \in 1..Len(w.done) : s[i].states = w.done[i]
<1>0. /\ d \in HeatRecord(n) /\ Recorded(d, w.past) /\ w.past \in Seq(Nat)
      /\ w.done = Append(w.past, w.before + 1) /\ d.state = w.before + 1 /\ w.before \in HeatStates
      /\ Len(d.results) < Len(d.lines) /\ r = [line |-> d.lines[Len(d.results) + 1], states |-> d.state]
      /\ s = Append(d.results, r)
  BY DEF HeatWriting
<1>1. d.results \in Seq(HeatResults) /\ d.lines \in Seq(Int)
  BY <1>0 DEF HeatRecord
<1>2. Len(d.results) \in Nat /\ Len(d.lines) \in Nat
  BY <1>1, LenProperties
<1>3. d.lines[Len(d.results) + 1] \in Int
  <2>1. PICK k : k = Len(d.results) + 1
    OBVIOUS
  <2>2. k \in 1..Len(d.lines)
    BY ONLY <1>0, <1>2, <2>1
  <2>3. d.lines[k] \in Int
    BY ONLY <1>1, <2>2, ElementOfSeq
  <2> QED BY ONLY <2>1, <2>3
<1>4. PICK k \in Nat : k = w.before + 1
  BY <1>0 DEF HeatStates
<1>5. r \in HeatResults /\ r.states = k
  BY <1>0, <1>3, <1>4 DEF HeatResults
<1>6. /\ s \in Seq(HeatResults) /\ Len(s) = Len(d.results) + 1
      /\ \A i \in 1..Len(d.results) : s[i] = d.results[i]
      /\ s[Len(d.results) + 1] = r
  BY ONLY <1>0, <1>1, <1>5, AppendProperties
<1>7. /\ Len(w.done) = Len(w.past) + 1
      /\ \A i \in 1..Len(w.past) : w.done[i] = w.past[i]
      /\ w.done[Len(w.past) + 1] = k
  BY ONLY <1>0, <1>4, AppendProperties
<1>8. Len(d.results) = Len(w.past) /\ \A i \in 1..Len(w.past) : d.results[i].states = w.past[i]
  BY <1>0 DEF Recorded
<1>9. ASSUME NEW i \in 1..Len(w.done) PROVE s[i].states = w.done[i]
  <2>1. i \in 1..Len(w.past) \/ i = Len(w.past) + 1
    BY ONLY <1>2, <1>7, <1>8, i \in 1..Len(w.done)
  <2> QED BY ONLY <1>5, <1>6, <1>7, <1>8, <2>1
<1> QED BY ONLY <1>6, <1>7, <1>8, <1>9

(* The data l of a process with one more result, and no rows to send.      *)
HeatFiled(l, f, r, s, d) ==
  /\ f = [l EXCEPT !.row = 0] /\ r = [line |-> l.lines[Len(l.results) + 1], states |-> l.state]
  /\ s = Append(l.results, r) /\ d = [f EXCEPT !.results = s]

(* A process writes a plate.                                               *)
LEMMA HeatWrites ==
  ASSUME NEW n, NEW w, NEW x, NEW d, HeatAlone(n, w, x, "plate", d), at[x] = "gather", mail' = mail,
         NEW f, NEW r, NEW s, HeatFiled(local[x], f, r, s, d)
  PROVE  HeatDone(n, w)
<1>0. /\ f = [local[x] EXCEPT !.row = 0]
      /\ r = [line |-> local[x].lines[Len(local[x].results) + 1], states |-> local[x].state]
      /\ s = Append(local[x].results, r) /\ d = [f EXCEPT !.results = s]
  BY DEF HeatFiled
<1>1. /\ HeatMade(n, w, x) /\ HeatFits(n, w, x, at[x], local[x], entered[x], waits[x])
      /\ n \in Nat \ {0} /\ x \in Procs(n) /\ w.job = input /\ w.before \in HeatStates
      /\ w \in HeatWorlds
      /\ at'[x] = "plate" /\ local'[x] = d /\ entered'[x] = entered[x]
  BY HeatAloneMade
<1>2. /\ HeatHas(n, w, x, local[x]) /\ Len(entered[x]) = w.level + 1 /\ w.level # 0 /\ w.settled
      /\ Recorded(local[x], w.past) /\ local[x].state = w.before + 1
      /\ Len(local[x].results) < Len(local[x].lines)
  BY ONLY <1>1, at[x] = "gather" DEF HeatFits, HeatHas
<1>3. local[x] \in HeatRecord(n)
  BY <1>2 DEF HeatHas
<1>4. HeatPast(w) /\ w.past \in Seq(Nat)
  BY <1>1 DEF HeatMade, HeatKeeps, HeatWorlds
<1>5. w.done = Append(w.past, w.before + 1) /\ w.now = 0
  BY ONLY <1>2, <1>4 DEF HeatPast
<1>6. /\ s \in Seq(HeatResults) /\ Len(s) = Len(w.done)
      /\ \A i \in 1..Len(w.done) : s[i].states = w.done[i]
  <2>1. PICK c : c = local[x]
    OBVIOUS
  <2>2. /\ c \in HeatRecord(n) /\ Recorded(c, w.past) /\ c.state = w.before + 1
        /\ Len(c.results) < Len(c.lines) /\ s = Append(c.results, r)
        /\ r = [line |-> c.lines[Len(c.results) + 1], states |-> c.state]
    BY <1>0, <1>2, <1>3, <2>1
  <2>3. HeatWriting(n, w, c, r, s)
    BY ONLY <1>1, <1>4, <1>5, <2>2 DEF HeatWriting
  <2> QED BY ONLY <2>3, HeatWritten
<1>7. f \in HeatRecord(n) /\ f.dealt = local[x].dealt /\ f.lines = local[x].lines
  <2>1. 0 \in 0..PlateRows
    BY NumbersAssumption
  <2> QED BY <1>0, <1>3, <2>1 DEF HeatRecord
<1>8. d \in HeatRecord(n) /\ d.dealt = local[x].dealt /\ d.lines = local[x].lines /\ d.results = s
  BY <1>0, <1>6, <1>7 DEF HeatRecord
<1>9. HeatHas(n, w, x, d) /\ Recorded(d, w.done)
  BY ONLY <1>2, <1>6, <1>8 DEF HeatHas, Recorded
<1>10. HeatFits(n, w, x, at'[x], local'[x], entered'[x], waits'[x])
  <2>1. "plate" \in HeatPoints \ {"aborted"}
    BY DEF HeatPoints
  <2> QED BY ONLY <1>1, <1>2, <1>5, <1>9, <2>1 DEF HeatFits, HeatHas
<1>11. HeatIdle(w, at[x], entered[x]) /\ HeatIdle(w, at'[x], entered'[x])
  <2>1. at[x] \in HeatStill /\ at'[x] \in HeatStill
    BY <1>1 DEF HeatStill
  <2> QED BY ONLY <2>1, HeatIdles
<1>12. at[x] \in HeatLate /\ at'[x] \in HeatLate
  BY <1>1 DEF HeatLate
<1>13. \A p, q \in Procs(n) : mail'[p][q] = mail[p][q] \/ (p = x /\ q = 0 /\ w.done # <<>>)
  BY ONLY mail' = mail
<1> QED BY ONLY <1>1, <1>10, <1>11, <1>12, <1>13, HeatRestsLate

(* The results that are recorded, when all of it has been aborted.         *)
HeatSums(n, w) ==
  \A p \in Procs(n) : \/ local[p] = <<>>
                      \/ /\ local[p] \in HeatRecord(n)
                         /\ Recorded(local[p], w.done) \/ (w.level # 0 /\ Recorded(local[p], w.past))
HeatOver(n, w) ==
  /\ n \in Nat \ {0} /\ w.job = input /\ w \in HeatWorlds /\ HeatPast(w) /\ HeatSums(n, w)
  /\ Talks(n, HeatLetters(n), HeatWords) /\ Stands(n, HeatPoints, Seq(HeatResults))
  /\ \A p \in Procs(n) : at[p] = "aborted"

HeatInv(n) == program \in Heat!Programs /\ \E w : HeatNow(n, w) \/ HeatOver(n, w)

(* The results are those of the world.                                     *)
LEMMA HeatNowSums ==
  ASSUME NEW n, NEW w, HeatNow(n, w)
  PROVE  HeatSums(n, w)
<1> SUFFICES ASSUME NEW p \in Procs(n)
             PROVE  \/ local[p] = <<>>
                    \/ /\ local[p] \in HeatRecord(n)
                       /\ Recorded(local[p], w.done) \/ (w.level # 0 /\ Recorded(local[p], w.past))
  BY DEF HeatSums
<1>1. HeatFits(n, w, p, at[p], local[p], entered[p], waits[p]) /\ HeatPast(w)
  BY ONLY HeatNow(n, w), p \in Procs(n), HeatIsNow
<1>2. at[p] \in HeatPoints \ {"aborted"}
  BY ONLY <1>1 DEF HeatFits
<1>3. CASE at[p] \in {"start", "failed"}
  BY ONLY <1>1, <1>3 DEF HeatFits
<1>4. CASE at[p] = "deal"
  <2>1. local[p] \in HeatRecord(n) /\ w.level = 0 /\ local[p].results = <<>>
    BY ONLY <1>1, <1>4 DEF HeatFits
  <2>2. w.done = <<>>
    BY ONLY <1>1, <2>1 DEF HeatPast
  <2>3. Len(<<>>) = 0 /\ \A i \in 1..0 : FALSE
    OBVIOUS
  <2> QED BY ONLY <2>1, <2>2, <2>3 DEF Recorded
<1>5. CASE at[p] \in {"plate", "ended", "exchange", "above", "lower", "below", "compute"}
  BY ONLY <1>1, <1>5 DEF HeatFits
<1>6. CASE at[p] = "agree"
  BY ONLY <1>1, <1>6 DEF HeatFits, HeatBefore, HeatBeyond
<1>7. CASE at[p] = "gather"
  BY ONLY <1>1, <1>7 DEF HeatFits
<1> QED BY ONLY <1>2, <1>3, <1>4, <1>5, <1>6, <1>7 DEF HeatPoints

(* There are n processes.                                                  *)
LEMMA HeatCounts ==
  ASSUME NEW n \in Nat \ {0}, NEW R, Stands(n, HeatPoints, R)
  PROVE  /\ Heat!Processes = Procs(n) /\ Heat!Count = n /\ DOMAIN at = Procs(n)
         /\ Collectives!Processes = Procs(n)
<1>1. DOMAIN at = Procs(n)
  BY DEF Stands
<1>2. Cardinality(DOMAIN at) = n
  BY <1>1, ProcsCount
<1> QED BY <1>1, <1>2, SameCounts DEF Heat!Processes, Heat!Count, Collectives!Processes

(* A step of x, in its place.                                              *)
HeatStepped(n, w, x, to, d) ==
  /\ HeatNow(n, w) /\ x \in Procs(n) /\ to \in HeatPoints /\ Moves(x, to)
  /\ (local' = local /\ d = local[x]) \/ Keeps(x, d)
  /\ output' = output \/ \E what \in Seq(HeatResults) : Tells(x, what)

(* Where x is afterwards; the others stay where they are.                  *)
LEMMA HeatMoves ==
  ASSUME NEW n, NEW w, NEW x, NEW to, NEW d, HeatStepped(n, w, x, to, d)
  PROVE  /\ Stands(n, HeatPoints, Seq(HeatResults))' /\ at'[x] = to /\ local'[x] = d
         /\ \A q \in Procs(n) : q # x => at'[q] = at[q] /\ local'[q] = local[q]
<1>1. /\ Stands(n, HeatPoints, Seq(HeatResults)) /\ x \in Procs(n) /\ to \in HeatPoints /\ Moves(x, to)
      /\ local' = local \/ \E data : Keeps(x, data)
      /\ output' = output \/ \E what \in Seq(HeatResults) : Tells(x, what)
  BY DEF HeatStepped, HeatNow
<1>2. /\ Stands(n, HeatPoints, Seq(HeatResults))' /\ at'[x] = to
      /\ \A q \in Procs(n) : q # x => at'[q] = at[q]
      /\ \A q \in Procs(n) : q # x => local'[q] = local[q]
  BY ONLY <1>1, StandsMoved
<1>3. local'[x] = d
  <2>1. CASE local' = local /\ d = local[x]
    BY <2>1
  <2>2. CASE Keeps(x, d)
    BY ONLY <1>1, <2>2, KeepsData
  <2> QED BY <2>1, <2>2 DEF HeatStepped
<1> QED BY ONLY <1>2, <1>3

(* A step without a collective call.                                       *)
LEMMA HeatMovesAlone ==
  ASSUME NEW n, NEW w, NEW x, NEW to, NEW d, HeatStepped(n, w, x, to, d), entered' = entered,
         \A q \in Procs(n) : q # x => waits'[q] = waits[q]
  PROVE  HeatAlone(n, w, x, to, d) /\ Stands(n, HeatPoints, Seq(HeatResults))'
<1>1. /\ Stands(n, HeatPoints, Seq(HeatResults))' /\ at'[x] = to /\ local'[x] = d
      /\ \A q \in Procs(n) : q # x => at'[q] = at[q] /\ local'[q] = local[q]
  BY ONLY HeatStepped(n, w, x, to, d), HeatMoves
<1>2. HeatNow(n, w) /\ x \in Procs(n)
  BY DEF HeatStepped
<1> QED BY ONLY <1>1, <1>2, entered' = entered, \A q \in Procs(n) : q # x => waits'[q] = waits[q] DEF HeatAlone

(* A step with a collective call.                                          *)
LEMMA HeatMovesCalling ==
  ASSUME NEW n, NEW w, NEW x, NEW to, NEW d, NEW what, NEW needed, HeatStepped(n, w, x, to, d),
         what \in HeatWords, needed \subseteq Procs(n), Heat!Enters(x, what, needed)
  PROVE  /\ HeatVoiced(n, w, x, to, d, what) /\ Stands(n, HeatPoints, Seq(HeatResults))'
         /\ Talks(n, HeatLetters(n), HeatWords)'
         /\ needed \subseteq waits'[x].entry /\ waits'[x].entry \subseteq Procs(n)
<1>1. /\ Stands(n, HeatPoints, Seq(HeatResults))' /\ at'[x] = to /\ local'[x] = d
      /\ \A q \in Procs(n) : q # x => at'[q] = at[q] /\ local'[q] = local[q]
  BY ONLY HeatStepped(n, w, x, to, d), HeatMoves
<1>2. /\ HeatNow(n, w) /\ x \in Procs(n) /\ n \in Nat \ {0}
      /\ Talks(n, HeatLetters(n), HeatWords) /\ Stands(n, HeatPoints, Seq(HeatResults))
  BY DEF HeatStepped, HeatNow
<1>3. Heat!Processes = Procs(n) /\ Collectives!Processes = Procs(n)
  BY <1>2, HeatCounts
<1>4. Collectives!Enters(x, what, needed)
  BY <1>3 DEF Heat!Enters, Collectives!Enters
<1>5. Calling(n, HeatLetters(n), HeatWords, x, what, needed)
  BY ONLY <1>2, <1>3, <1>4, what \in HeatWords, needed \subseteq Procs(n) DEF Calling
<1>6. Called(n, HeatLetters(n), HeatWords, x, what, needed)
  BY ONLY <1>5, CollectivesCall
<1>7. /\ Talks(n, HeatLetters(n), HeatWords)'
      /\ Len(entered[x]) \in Nat /\ Len(entered'[x]) = Len(entered[x]) + 1
      /\ entered'[x][Len(entered[x]) + 1] = what
      /\ \A k \in 1..Len(entered[x]) : entered'[x][k] = entered[x][k]
      /\ \A a \in Procs(n) : a # x => entered'[a] = entered[a]
      /\ needed \subseteq waits'[x].entry /\ waits'[x].entry \subseteq Procs(n)
      /\ \A a \in Procs(n) : a # x => waits'[a] = waits[a]
      /\ mail' = mail
  BY ONLY <1>6 DEF Called
<1>8. HeatVoiced(n, w, x, to, d, what)
  BY ONLY <1>1, <1>2, <1>7 DEF HeatVoiced
<1> QED BY ONLY <1>1, <1>7, <1>8

(* A message is sent, or received.                                         *)
LEMMA HeatSends ==
  ASSUME NEW n, NEW w, HeatNow(n, w), NEW x \in Procs(n), NEW q \in Procs(n),
         NEW what, what \in HeatLetters(n), Heat!Sends(x, q, what)
  PROVE  /\ Talks(n, HeatLetters(n), HeatWords)' /\ HeatPut(n, x, q, what) /\ entered' = entered
         /\ \A a \in Procs(n) : a # x => waits'[a] = waits[a]
<1>1. PICK receipt \in {{}, {q}} : Puts(x, q, what, receipt)
  BY DEF Heat!Sends, Heat!PutsMail, Puts
<1>2. receipt \in SUBSET Procs(n)
  BY <1>1
<1>3. Talks(n, HeatLetters(n), HeatWords)
  BY DEF HeatNow
<1>4. /\ Talks(n, HeatLetters(n), HeatWords)'
      /\ mail'[x][q] = Append(mail[x][q], what)
      /\ \A a, b \in Procs(n) : a # x \/ b # q => mail'[a][b] = mail[a][b]
      /\ entered' = entered
      /\ \A a \in Procs(n) : a # x => waits'[a] = waits[a]
  BY ONLY <1>1, <1>2, <1>3, PutsMessage, x \in Procs(n), q \in Procs(n), what \in HeatLetters(n)
<1> QED BY ONLY <1>4 DEF HeatPut

(* A message is received.                                                  *)
LEMMA HeatReceives ==
  ASSUME NEW n, NEW w, HeatNow(n, w), NEW x \in Procs(n), NEW q \in Procs(n),
         NEW what, Heat!Receives(x, q, what)
  PROVE  /\ Talks(n, HeatLetters(n), HeatWords)' /\ HeatTaken(n, q, x) /\ entered' = entered
         /\ what = Head(mail[q][x]) /\ what \in HeatLetters(n)
         /\ \A a \in Procs(n) : a # x => waits'[a] = waits[a]
<1>1. Takes(x, q, what)
  BY DEF Heat!Receives, Takes
<1>2. Talks(n, HeatLetters(n), HeatWords)
  BY DEF HeatNow
<1>3. /\ Talks(n, HeatLetters(n), HeatWords)'
      /\ mail[q][x] # <<>>
      /\ what \in HeatLetters(n) /\ what = Head(mail[q][x])
      /\ mail'[q][x] = Tail(mail[q][x])
      /\ \A a, b \in Procs(n) : a # q \/ b # x => mail'[a][b] = mail[a][b]
      /\ entered' = entered /\ waits' = waits
  BY ONLY <1>1, <1>2, TakesMessage, x \in Procs(n), q \in Procs(n)
<1> QED BY ONLY <1>3 DEF HeatTaken

(* The invariant after a step.                                             *)
LEMMA HeatGoesOn ==
  ASSUME NEW n, NEW w, HeatNow(n, w), program \in Heat!Programs, HeatDone(n, w), program' = program, input' = input,
         Talks(n, HeatLetters(n), HeatWords)', Stands(n, HeatPoints, Seq(HeatResults))'
  PROVE  HeatInv(n)'
<1>1. PICK v : v.job = w.job /\ HeatHolds(n, v, at', local', mail', entered', waits')
  BY DEF HeatDone
<1>2. n \in Nat \ {0} /\ w.job = input
  BY DEF HeatNow
<1>3. HeatNow(n, v)'
  BY ONLY <1>1, <1>2, input' = input,
          Talks(n, HeatLetters(n), HeatWords)', Stands(n, HeatPoints, Seq(HeatResults))' DEF HeatNow
<1> QED BY ONLY <1>3, program \in Heat!Programs, program' = program DEF HeatInv, Heat!Programs

HeatRuns(n, w, x) ==
  /\ HeatNow(n, w) /\ program \in Heat!Programs /\ program' = program /\ input' = input /\ x \in Procs(n)

(* The invariant after a step of x.                                        *)
LEMMA HeatRunsOn ==
  ASSUME NEW n, NEW w, NEW x, HeatRuns(n, w, x), HeatDone(n, w),
         Talks(n, HeatLetters(n), HeatWords)', Stands(n, HeatPoints, Seq(HeatResults))'
  PROVE  HeatInv(n)'
BY HeatGoesOn DEF HeatRuns

(* What the invariant says before it.                                      *)
LEMMA HeatRunsNow ==
  ASSUME NEW n, NEW w, NEW x, HeatRuns(n, w, x)
  PROVE  /\ HeatNow(n, w) /\ x \in Procs(n) /\ n \in Nat \ {0} /\ w.job = input /\ input \in HeatInputs
         /\ input.lines \in Nat
         /\ HeatFits(n, w, x, at[x], local[x], entered[x], waits[x])
         /\ Talks(n, HeatLetters(n), HeatWords) /\ Stands(n, HeatPoints, Seq(HeatResults))
         /\ Heat!Processes = Procs(n) /\ Heat!Count = n /\ DOMAIN at = Procs(n) /\ 0 \in Procs(n)
<1>1. HeatNow(n, w) /\ x \in Procs(n)
  BY DEF HeatRuns
<1>2. /\ HeatFits(n, w, x, at[x], local[x], entered[x], waits[x]) /\ w.job = input
      /\ n \in Nat \ {0} /\ input \in HeatInputs
  BY ONLY <1>1, HeatIsNow
<1>3. Talks(n, HeatLetters(n), HeatWords) /\ Stands(n, HeatPoints, Seq(HeatResults))
  BY <1>1 DEF HeatNow
<1>4. /\ Heat!Processes = Procs(n) /\ Heat!Count = n /\ DOMAIN at = Procs(n)
  BY ONLY <1>2, <1>3, HeatCounts
<1>5. 0 \in Procs(n)
  BY <1>2 DEF Procs
<1>6. input.lines \in Nat
  BY <1>2 DEF HeatInputs
<1> QED BY ONLY <1>1, <1>2, <1>3, <1>4, <1>5, <1>6

(* Who goes on has been let go by its last call.                           *)
LEMMA HeatGoesSays ==
  ASSUME NEW n, NEW w, NEW x, HeatRuns(n, w, x), NEW from, NEW to, Heat!Goes(x, from, to)
  PROVE  /\ at[x] = from /\ Moves(x, to)
         /\ \A q \in waits[x].entry : Len(entered[q]) >= Len(entered[x])
BY DEF Heat!Goes, Moves, Heat!Returned, Heat!AllEntered

(* main, until the lines are dealt.                                        *)
LEMMA HeatBegins ==
  ASSUME NEW n, NEW w, NEW x, HeatRuns(n, w, x), Heat!Begins(x)
  PROVE  HeatInv(n)'
<1>1. /\ HeatNow(n, w) /\ x \in Procs(n) /\ n \in Nat \ {0} /\ 0 \in Procs(n) /\ input.lines \in Nat
      /\ Talks(n, HeatLetters(n), HeatWords)
  BY HeatRunsNow
<1>2. output' = output
  BY DEF Heat!Begins, Heat!Quietly
<1>3. CASE ~input.proper \/ (x = 0 /\ ~input.readable)
  <2>1. CASE Heat!Goes(x, "start", "failed") /\ local' = local /\ Heat!Computes
    <3>1. at[x] = "start" /\ Moves(x, "failed")
      BY <2>1, HeatGoesSays
    <3>2. mail' = mail /\ entered' = entered /\ waits' = waits
      BY <2>1 DEF Heat!Computes, Heat!communication
    <3>3. "failed" \in HeatPoints
      BY DEF HeatPoints
    <3>4. HeatStepped(n, w, x, "failed", local[x])
      BY ONLY <1>1, <1>2, <2>1, <3>1, <3>3 DEF HeatStepped
    <3>5. HeatAlone(n, w, x, "failed", local[x]) /\ Stands(n, HeatPoints, Seq(HeatResults))'
      BY ONLY <3>2, <3>4, HeatMovesAlone
    <3>6. HeatDone(n, w)
      BY ONLY <1>3, <3>1, <3>2, <3>5, HeatFails
    <3>7. Talks(n, HeatLetters(n), HeatWords)'
      BY <1>1, <3>2, StaysAlone DEF Alone
    <3> QED BY ONLY HeatRuns(n, w, x), <3>5, <3>6, <3>7, HeatRunsOn
  <2> QED BY <1>3, <2>1 DEF Heat!Begins
<1>4. CASE ~(~input.proper \/ (x = 0 /\ ~input.readable))
  <2> DEFINE d == [dealt |-> 1, lines |-> <<>>, above |-> <<>>, below |-> <<>>,
                   state |-> 0, settled |-> FALSE, row |-> 0, results |-> <<>>]
  <2>1. /\ input.proper /\ Heat!Goes(x, "start", "deal") /\ Heat!Broadcasts(x, input.lines) /\ Keeps(x, d)
    BY <1>4 DEF Heat!Begins, Heat!Keep, Keeps
  <2>2. d \in HeatRecord(n) /\ d.dealt = 1 /\ d.results = <<>>
    <3>1. 1 \in 1..n /\ 0 \in 0..MostStates /\ 0 \in 0..PlateRows
      BY <1>1, NumbersAssumption
    <3>2. <<>> \in Seq(Int) /\ <<>> \in Seq(HeatResults)
      BY EmptySeq
    <3> QED BY ONLY <3>1, <3>2 DEF HeatRecord
  <2> HIDE DEF d
  <2>3. at[x] = "start" /\ Moves(x, "deal")
    BY <2>1, HeatGoesSays
  <2>4. "deal" \in HeatPoints /\ input.lines \in HeatWords
    BY <1>1 DEF HeatPoints, HeatWords
  <2>5. HeatStepped(n, w, x, "deal", d)
    BY ONLY <1>1, <1>2, <2>1, <2>3, <2>4 DEF HeatStepped
  <2>6. PICK needed : needed = {0} \ {x} /\ needed \subseteq Procs(n)
    BY <1>1
  <2>7. Heat!Enters(x, input.lines, needed)
    BY <2>1, <2>6 DEF Heat!Broadcasts
  <2>8. /\ HeatVoiced(n, w, x, "deal", d, input.lines) /\ Stands(n, HeatPoints, Seq(HeatResults))'
        /\ Talks(n, HeatLetters(n), HeatWords)'
    BY ONLY <2>4, <2>5, <2>6, <2>7, HeatMovesCalling
  <2>9. HeatDone(n, w)
    BY ONLY <2>1, <2>2, <2>3, <2>8, HeatStarts
  <2> QED BY ONLY HeatRuns(n, w, x), <2>8, <2>9, HeatRunsOn
<1> QED BY <1>3, <1>4

(* Process 0 deals the lines, and takes its own.                           *)
LEMMA HeatDeals ==
  ASSUME NEW n, NEW w, NEW x, HeatRuns(n, w, x), Heat!Deals(x)
  PROVE  HeatInv(n)'
<1>1. /\ HeatNow(n, w) /\ x \in Procs(n) /\ n \in Nat \ {0} /\ 0 \in Procs(n) /\ input.lines \in Nat
      /\ Talks(n, HeatLetters(n), HeatWords) /\ Heat!Count = n
      /\ HeatFits(n, w, x, at[x], local[x], entered[x], waits[x]) /\ w.job = input
  BY HeatRunsNow
<1>2. output' = output /\ x = 0
  BY DEF Heat!Deals, Heat!Quietly
<1>3. PICK q : q = local[0].dealt
  OBVIOUS
<1>4. CASE /\ Heat!Goes(0, "deal", "deal") /\ q < Heat!Count
           /\ Heat!Sends(0, q, [lines |-> Heat!Share(q)]) /\ Heat!Keep(0, [local[0] EXCEPT !.dealt = q + 1])
  <2>1. at[0] = "deal" /\ Moves(0, "deal")
    BY <1>2, <1>4, HeatGoesSays
  <2>2. q \in Procs(n) /\ q < n
    <3>1. local[0] \in HeatRecord(n)
      BY ONLY <1>1, <1>2, <2>1 DEF HeatFits
    <3>2. q \in 1..n
      BY <1>3, <3>1 DEF HeatRecord
    <3> QED BY <1>1, <1>4, <3>2 DEF Procs
  <2>3. Heat!Share(q) = HeatShare(n, w.job.lines, q) /\ HeatShare(n, w.job.lines, q) \in Seq(Int)
    BY <1>1, <2>2, HeatShares
  <2>4. [lines |-> Heat!Share(q)] = HeatDeal(n, w, q)
    BY ONLY <2>3 DEF HeatDeal
  <2>5. HeatDeal(n, w, q) \in HeatLetters(n)
    BY ONLY <2>3 DEF HeatDeal, HeatLetters
  <2>6. PICK d : d = [local[0] EXCEPT !.dealt = q + 1]
    OBVIOUS
  <2>7. Keeps(0, d) /\ Heat!Sends(0, q, HeatDeal(n, w, q))
    BY <1>4, <2>4, <2>6 DEF Heat!Keep, Keeps
  <2>8. /\ Talks(n, HeatLetters(n), HeatWords)' /\ HeatPut(n, 0, q, HeatDeal(n, w, q)) /\ entered' = entered
        /\ \A a \in Procs(n) : a # 0 => waits'[a] = waits[a]
    BY ONLY <1>1, <2>2, <2>5, <2>7, HeatSends
  <2>9. "deal" \in HeatPoints
    BY DEF HeatPoints
  <2>10. HeatStepped(n, w, 0, "deal", d)
    BY ONLY <1>1, <1>2, <2>1, <2>7, <2>9 DEF HeatStepped
  <2>11. HeatAlone(n, w, 0, "deal", d) /\ Stands(n, HeatPoints, Seq(HeatResults))'
    BY ONLY <2>8, <2>10, HeatMovesAlone
  <2>12. HeatDone(n, w)
    BY ONLY <1>3, <2>1, <2>2, <2>6, <2>8, <2>11, HeatDealsOne
  <2> QED BY ONLY HeatRuns(n, w, x), <2>8, <2>11, <2>12, HeatRunsOn
<1>5. CASE /\ Heat!Goes(0, "deal", "plate") /\ q = Heat!Count /\ Heat!Computes
           /\ Heat!Keep(0, [local[0] EXCEPT !.lines = Heat!Share(0)])
  <2>1. at[0] = "deal" /\ Moves(0, "plate") /\ local[0].dealt = n
    BY <1>1, <1>2, <1>3, <1>5, HeatGoesSays
  <2>2. Heat!Share(0) = HeatShare(n, input.lines, 0) /\ HeatShare(n, input.lines, 0) \in Seq(Int)
    BY <1>1, HeatShares
  <2>3. PICK d : d = [local[0] EXCEPT !.lines = HeatShare(n, input.lines, 0)]
    OBVIOUS
  <2>4. Keeps(0, d)
    BY <1>5, <2>2, <2>3 DEF Heat!Keep, Keeps
  <2>5. mail' = mail /\ entered' = entered /\ waits' = waits
    BY <1>5 DEF Heat!Computes, Heat!communication
  <2>6. "plate" \in HeatPoints
    BY DEF HeatPoints
  <2>7. HeatStepped(n, w, 0, "plate", d)
    BY ONLY <1>1, <1>2, <2>1, <2>4, <2>6 DEF HeatStepped
  <2>8. HeatAlone(n, w, 0, "plate", d) /\ Stands(n, HeatPoints, Seq(HeatResults))'
    BY ONLY <2>5, <2>7, HeatMovesAlone
  <2>9. HeatDone(n, w)
    BY ONLY <2>1, <2>2, <2>3, <2>5, <2>8, HeatTakesPart
  <2>10. Talks(n, HeatLetters(n), HeatWords)'
    BY <1>1, <2>5, StaysAlone DEF Alone
  <2> QED BY ONLY HeatRuns(n, w, x), <2>8, <2>9, <2>10, HeatRunsOn
<1> QED BY <1>2, <1>3, <1>4, <1>5 DEF Heat!Deals

(* Another process gets its lines.                                         *)
LEMMA HeatIsDealt ==
  ASSUME NEW n, NEW w, NEW x, HeatRuns(n, w, x), Heat!IsDealt(x)
  PROVE  HeatInv(n)'
<1>1. /\ HeatNow(n, w) /\ x \in Procs(n) /\ n \in Nat \ {0} /\ 0 \in Procs(n) /\ input.lines \in Nat
      /\ Heat!Count = n
  BY HeatRunsNow
<1>2. output' = output /\ x # 0 /\ Heat!Goes(x, "deal", "plate")
  BY DEF Heat!IsDealt, Heat!Quietly
<1>3. PICK deal : Heat!Receives(x, 0, deal) /\ Heat!Keep(x, [local[x] EXCEPT !.lines = deal.lines])
  BY DEF Heat!IsDealt
<1>4. at[x] = "deal" /\ Moves(x, "plate")
  BY <1>2, HeatGoesSays
<1>5. /\ Talks(n, HeatLetters(n), HeatWords)' /\ HeatTaken(n, 0, x) /\ entered' = entered
      /\ deal = Head(mail[0][x])
      /\ \A a \in Procs(n) : a # x => waits'[a] = waits[a]
  BY ONLY <1>1, <1>3, HeatReceives
<1>6. PICK d : d = [local[x] EXCEPT !.lines = Head(mail[0][x]).lines]
  OBVIOUS
<1>7. Keeps(x, d)
  BY <1>3, <1>5, <1>6 DEF Heat!Keep, Keeps
<1>8. "plate" \in HeatPoints
  BY DEF HeatPoints
<1>9. HeatStepped(n, w, x, "plate", d)
  BY ONLY <1>1, <1>2, <1>4, <1>7, <1>8 DEF HeatStepped
<1>10. HeatAlone(n, w, x, "plate", d) /\ Stands(n, HeatPoints, Seq(HeatResults))'
  BY ONLY <1>5, <1>9, HeatMovesAlone
<1>11. HeatShare(n, input.lines, x) \in Seq(Int)
  BY <1>1, HeatShares
<1>12. HeatDone(n, w)
  BY ONLY <1>2, <1>4, <1>5, <1>6, <1>10, <1>11, HeatGetsPart
<1> QED BY ONLY HeatRuns(n, w, x), <1>5, <1>10, <1>12, HeatRunsOn

(* read_bin_plate: the next plate is read, or there is none.               *)
LEMMA HeatReadsOn ==
  ASSUME NEW n, NEW w, NEW x, HeatRuns(n, w, x), Heat!Reads(x)
  PROVE  HeatInv(n)'
<1>1. /\ HeatNow(n, w) /\ x \in Procs(n) /\ Talks(n, HeatLetters(n), HeatWords)
  BY HeatRunsNow
<1>2. output' = output /\ mail' = mail /\ entered' = entered /\ waits' = waits
  BY DEF Heat!Reads, Heat!Quietly, Heat!Computes, Heat!communication
<1>3. at[x] = "plate" /\ Moves(x, "exchange")
  <2>1. Heat!Goes(x, "plate", "exchange")
    BY DEF Heat!Reads
  <2> QED BY <2>1, HeatGoesSays
<1>4. PICK d : d = [local[x] EXCEPT !.state = 0]
  OBVIOUS
<1>5. Keeps(x, d) /\ ~(Len(local[x].results) + 1 > Len(local[x].lines))
  BY <1>4 DEF Heat!Reads, Heat!Keep, Keeps, Heat!IsLast, Heat!Ordinal
<1>6. "exchange" \in HeatPoints
  BY DEF HeatPoints
<1>7. HeatStepped(n, w, x, "exchange", d)
  BY ONLY <1>1, <1>2, <1>3, <1>5, <1>6 DEF HeatStepped
<1>8. HeatAlone(n, w, x, "exchange", d) /\ Stands(n, HeatPoints, Seq(HeatResults))'
  BY ONLY <1>2, <1>7, HeatMovesAlone
<1>9. HeatDone(n, w)
  BY ONLY <1>2, <1>3, <1>4, <1>5, <1>8, HeatReads
<1>10. Talks(n, HeatLetters(n), HeatWords)'
  BY <1>1, <1>2, StaysAlone DEF Alone
<1> QED BY ONLY HeatRuns(n, w, x), <1>8, <1>9, <1>10, HeatRunsOn

(* A process ends; process 0 writes the report first.                      *)
LEMMA HeatFinishes ==
  ASSUME NEW n, NEW w, NEW x, HeatRuns(n, w, x), Heat!Finishes(x)
  PROVE  HeatInv(n)'
<1>1. /\ HeatNow(n, w) /\ x \in Procs(n) /\ Talks(n, HeatLetters(n), HeatWords)
      /\ HeatFits(n, w, x, at[x], local[x], entered[x], waits[x])
  BY HeatRunsNow
<1>2. mail' = mail /\ entered' = entered /\ waits' = waits /\ local' = local
  BY DEF Heat!Finishes, Heat!Computes, Heat!communication
<1>3. at[x] = "plate" /\ Moves(x, "ended")
  <2>1. Heat!Goes(x, "plate", "ended")
    BY DEF Heat!Finishes
  <2> QED BY <2>1, HeatGoesSays
<1>4. local[x].results \in Seq(HeatResults)
  <2>1. local[x] \in HeatRecord(n)
    BY ONLY <1>1, <1>3 DEF HeatFits
  <2> QED BY <2>1 DEF HeatRecord
<1>5. output' = output \/ \E what \in Seq(HeatResults) : Tells(x, what)
  <2>1. output' = output \/ Tells(x, local[x].results)
    BY DEF Heat!Finishes, Heat!Quietly, Heat!Says, Tells
  <2> QED BY ONLY <1>4, <2>1
<1>6. "ended" \in HeatPoints
  BY DEF HeatPoints
<1>7. HeatStepped(n, w, x, "ended", local[x])
  BY ONLY <1>1, <1>2, <1>3, <1>5, <1>6 DEF HeatStepped
<1>8. HeatAlone(n, w, x, "ended", local[x]) /\ Stands(n, HeatPoints, Seq(HeatResults))'
  BY ONLY <1>2, <1>7, HeatMovesAlone
<1>9. HeatDone(n, w)
  BY ONLY <1>2, <1>3, <1>8, HeatEnds
<1>10. Talks(n, HeatLetters(n), HeatWords)'
  BY <1>1, <1>2, StaysAlone DEF Alone
<1> QED BY ONLY HeatRuns(n, w, x), <1>8, <1>9, <1>10, HeatRunsOn

(* A process aborts all of them.                                           *)
LEMMA HeatAborts ==
  ASSUME NEW n, NEW w, NEW x, HeatRuns(n, w, x), Heat!CannotRead(x)
  PROVE  HeatInv(n)'
<1>1. /\ HeatNow(n, w) /\ n \in Nat \ {0} /\ Talks(n, HeatLetters(n), HeatWords)
      /\ Stands(n, HeatPoints, Seq(HeatResults)) /\ Heat!Processes = Procs(n) /\ x \in Procs(n)
  BY HeatRunsNow
<1>2. /\ at' = [q \in Procs(n) |-> "aborted"] /\ local' = local /\ output' = output
      /\ mail' = mail /\ entered' = entered /\ waits' = waits
  BY <1>1 DEF Heat!CannotRead, Heat!AbortAll, Heat!Computes, Heat!communication
<1>3. /\ program \in Heat!Programs /\ program' = program /\ input' = input
  BY DEF HeatRuns
<1>4. w \in HeatWorlds /\ HeatPast(w) /\ w.job = input
  BY ONLY <1>1, HeatIsNow
<1>5. HeatSums(n, w)'
  <2>1. HeatSums(n, w)
    BY ONLY <1>1, HeatNowSums
  <2> QED BY ONLY <1>2, <2>1 DEF HeatSums
<1>6. Talks(n, HeatLetters(n), HeatWords)'
  BY <1>1, <1>2, StaysAlone DEF Alone
<1>7. Stands(n, HeatPoints, Seq(HeatResults))'
  <2>1. "aborted" \in HeatPoints
    BY DEF HeatPoints
  <2> QED BY ONLY <1>1, <1>2, <2>1 DEF Stands
<1>8. \A q \in Procs(n) : at'[q] = "aborted"
  BY ONLY <1>2
<1>9. HeatOver(n, w)'
  BY ONLY <1>1, <1>3, <1>4, <1>5, <1>6, <1>7, <1>8 DEF HeatOver
<1> QED BY ONLY <1>3, <1>9 DEF HeatInv, Heat!Programs

(* MPI_Allreduce of whether the rows have settled.                         *)
LEMMA HeatComputesOn ==
  ASSUME NEW n, NEW w, NEW x, HeatRuns(n, w, x), Heat!ComputesRows(x)
  PROVE  HeatInv(n)'
<1>1. /\ HeatNow(n, w) /\ x \in Procs(n) /\ Heat!Processes = Procs(n)
  BY HeatRunsNow
<1>2. output' = output /\ local' = local
  BY DEF Heat!ComputesRows, Heat!Quietly
<1>3. at[x] = "compute" /\ Moves(x, "agree")
  <2>1. Heat!Goes(x, "compute", "agree")
    BY DEF Heat!ComputesRows
  <2> QED BY <2>1, HeatGoesSays
<1>4. PICK what : /\ what \in BOOLEAN /\ (local[x].state + 1 < MostStates \/ what = TRUE)
                  /\ Heat!Enters(x, what, Procs(n))
  <2>1. PICK what \in (IF local[x].state + 1 < MostStates THEN BOOLEAN ELSE {TRUE}) : Heat!ReducesToAll(x, what)
    BY DEF Heat!ComputesRows
  <2>2. what \in BOOLEAN /\ (local[x].state + 1 < MostStates \/ what = TRUE)
    OBVIOUS
  <2> QED BY <1>1, <2>1, <2>2 DEF Heat!ReducesToAll
<1>5. what \in HeatWords /\ "agree" \in HeatPoints
  BY <1>4 DEF HeatWords, HeatPoints
<1>6. HeatStepped(n, w, x, "agree", local[x])
  BY ONLY <1>1, <1>2, <1>3, <1>5 DEF HeatStepped
<1>7. PICK needed : needed = Procs(n) /\ needed \subseteq Procs(n)
  OBVIOUS
<1>8. Heat!Enters(x, what, needed)
  BY ONLY <1>4, <1>7
<1>9. /\ HeatVoiced(n, w, x, "agree", local[x], what) /\ Stands(n, HeatPoints, Seq(HeatResults))'
      /\ Talks(n, HeatLetters(n), HeatWords)'
      /\ needed \subseteq waits'[x].entry /\ waits'[x].entry \subseteq Procs(n)
  BY ONLY <1>5, <1>6, <1>7, <1>8, HeatMovesCalling
<1>10. waits'[x].entry = Procs(n)
  BY ONLY <1>7, <1>9
<1>11. HeatDone(n, w)
  BY ONLY <1>3, <1>4, <1>9, <1>10, HeatComputes
<1> QED BY ONLY HeatRuns(n, w, x), <1>9, <1>11, HeatRunsOn

(* The row that is sent is that of the state.                              *)
LEMMA HeatBorder ==
  ASSUME NEW n, NEW w, NEW x, HeatRuns(n, w, x), at[x] \in HeatSwaps
  PROVE  Heat!BorderRow(x) = HeatRow(w, x) /\ HeatRow(w, x) \in HeatLetters(n)
<1>1. /\ HeatNow(n, w) /\ x \in Procs(n) /\ HeatFits(n, w, x, at[x], local[x], entered[x], waits[x])
  BY HeatRunsNow
<1>2. w.now \in HeatStates /\ w.done \in Seq(Nat)
  BY ONLY <1>1, HeatIsNow
<1>3. Recorded(local[x], w.done) /\ local[x].state = w.now
  BY ONLY <1>1, at[x] \in HeatSwaps DEF HeatFits, HeatSwaps
<1>4. Heat!BorderRow(x) = HeatRow(w, x)
  BY ONLY <1>3 DEF Heat!BorderRow, Heat!Ordinal, HeatRow, Recorded
<1>5. HeatRow(w, x) \in HeatLetters(n)
  <2>1. Len(w.done) + 1 \in Nat /\ w.now \in 0..MostStates
    BY <1>2, LenProperties, NumbersAssumption DEF HeatStates
  <2> QED BY ONLY <1>1, <2>1 DEF HeatRow, HeatLetters
<1> QED BY <1>4, <1>5

(* A row is sent to a neighbour.                                           *)
LEMMA HeatSendsRowTo ==
  ASSUME NEW n, NEW w, NEW x, HeatRuns(n, w, x), Heat!Quietly, NEW y \in Procs(n), NEW from \in HeatSwaps, NEW to \in HeatSwaps,
         Heat!SendsBorder(x, y, from, to)
  PROVE  /\ at[x] = from /\ HeatAlone(n, w, x, to, local[x]) /\ HeatPut(n, x, y, HeatRow(w, x))
         /\ Talks(n, HeatLetters(n), HeatWords)' /\ Stands(n, HeatPoints, Seq(HeatResults))'
<1>1. /\ HeatNow(n, w) /\ x \in Procs(n)
  BY HeatRunsNow
<1>2. output' = output /\ local' = local
  BY DEF Heat!SendsBorder, Heat!Quietly
<1>3. at[x] = from /\ Moves(x, to)
  <2>1. Heat!Goes(x, from, to)
    BY DEF Heat!SendsBorder
  <2> QED BY <2>1, HeatGoesSays
<1>4. Heat!BorderRow(x) = HeatRow(w, x) /\ HeatRow(w, x) \in HeatLetters(n)
  BY <1>3, HeatBorder
<1>5. Heat!Sends(x, y, HeatRow(w, x))
  BY <1>4 DEF Heat!SendsBorder
<1>6. /\ Talks(n, HeatLetters(n), HeatWords)' /\ HeatPut(n, x, y, HeatRow(w, x)) /\ entered' = entered
      /\ \A a \in Procs(n) : a # x => waits'[a] = waits[a]
  BY ONLY <1>1, <1>4, <1>5, y \in Procs(n), HeatSends
<1>7. to \in HeatPoints
  BY DEF HeatPoints, HeatSwaps
<1>8. HeatStepped(n, w, x, to, local[x])
  BY ONLY <1>1, <1>2, <1>3, <1>7 DEF HeatStepped
<1>9. HeatAlone(n, w, x, to, local[x]) /\ Stands(n, HeatPoints, Seq(HeatResults))'
  BY ONLY <1>6, <1>8, HeatMovesAlone
<1> QED BY ONLY <1>3, <1>6, <1>9

(* A row is received from a neighbour.                                     *)
LEMMA HeatGetsRowFrom ==
  ASSUME NEW n, NEW w, NEW x, HeatRuns(n, w, x), Heat!Quietly, NEW y \in Procs(n), NEW to \in HeatSwaps,
         Moves(x, to), NEW row, Heat!Receives(x, y, row), NEW d, Keeps(x, d)
  PROVE  /\ HeatAlone(n, w, x, to, d) /\ HeatTaken(n, y, x)
         /\ Head(mail[y][x]) \in HeatLetters(n) /\ row = Head(mail[y][x])
         /\ Talks(n, HeatLetters(n), HeatWords)' /\ Stands(n, HeatPoints, Seq(HeatResults))'
<1>1. /\ HeatNow(n, w) /\ x \in Procs(n)
  BY HeatRunsNow
<1>2. output' = output
  BY DEF Heat!Quietly
<1>4. /\ Talks(n, HeatLetters(n), HeatWords)' /\ HeatTaken(n, y, x) /\ entered' = entered
      /\ row = Head(mail[y][x]) /\ row \in HeatLetters(n)
      /\ \A a \in Procs(n) : a # x => waits'[a] = waits[a]
  BY ONLY <1>1, Heat!Receives(x, y, row), y \in Procs(n), HeatReceives
<1>6. to \in HeatPoints
  BY DEF HeatPoints, HeatSwaps
<1>7. HeatStepped(n, w, x, to, d)
  BY ONLY <1>1, <1>2, <1>6, Moves(x, to), Keeps(x, d) DEF HeatStepped
<1>8. HeatAlone(n, w, x, to, d) /\ Stands(n, HeatPoints, Seq(HeatResults))'
  BY ONLY <1>4, <1>7, HeatMovesAlone
<1> QED BY ONLY <1>4, <1>8

(* There is no neighbour on a side.                                        *)
LEMMA HeatSkipsOn ==
  ASSUME NEW n, NEW w, NEW x, HeatRuns(n, w, x), Heat!Quietly, NEW from, NEW to \in HeatSwaps, Heat!Skips(x, from, to)
  PROVE  /\ at[x] = from /\ HeatAlone(n, w, x, to, local[x]) /\ mail' = mail
         /\ Talks(n, HeatLetters(n), HeatWords)' /\ Stands(n, HeatPoints, Seq(HeatResults))'
<1>1. /\ HeatNow(n, w) /\ x \in Procs(n) /\ Talks(n, HeatLetters(n), HeatWords)
  BY HeatRunsNow
<1>2. output' = output /\ local' = local /\ mail' = mail /\ entered' = entered /\ waits' = waits
  BY DEF Heat!Skips, Heat!Quietly, Heat!Computes, Heat!communication
<1>3. at[x] = from /\ Moves(x, to)
  <2>1. Heat!Goes(x, from, to)
    BY DEF Heat!Skips
  <2> QED BY <2>1, HeatGoesSays
<1>4. to \in HeatPoints
  BY DEF HeatPoints, HeatSwaps
<1>5. HeatStepped(n, w, x, to, local[x])
  BY ONLY <1>1, <1>2, <1>3, <1>4 DEF HeatStepped
<1>6. HeatAlone(n, w, x, to, local[x]) /\ Stands(n, HeatPoints, Seq(HeatResults))'
  BY ONLY <1>2, <1>5, HeatMovesAlone
<1>7. Talks(n, HeatLetters(n), HeatWords)'
  BY <1>1, <1>2, StaysAlone DEF Alone
<1> QED BY ONLY <1>2, <1>3, <1>6, <1>7

(* MPI_Sendrecv, both ways.                                                *)
LEMMA HeatExchangesUp ==
  ASSUME NEW n, NEW w, NEW x, HeatRuns(n, w, x), Heat!Quietly,
         \/ x > 0 /\ Heat!SendsBorder(x, x - 1, "exchange", "above")
         \/ Heat!ReceivesBorder(x, x - 1, "above", "lower", "above")
         \/ x = 0 /\ Heat!Skips(x, "exchange", "lower")
  PROVE  HeatInv(n)'
<1>1. /\ x \in Procs(n) /\ n \in Nat \ {0} /\ HeatFits(n, w, x, at[x], local[x], entered[x], waits[x])
  BY HeatRunsNow
<1>2. {"exchange", "above", "lower"} \subseteq HeatSwaps
  BY DEF HeatSwaps
<1>3. ASSUME x # 0 PROVE \E y \in Procs(n) : y = x - 1 /\ x = y + 1
  <2>1. x - 1 \in Procs(n) /\ x = (x - 1) + 1
    BY <1>1, <1>3 DEF Procs
  <2> QED BY <2>1
<1>4. CASE x > 0 /\ Heat!SendsBorder(x, x - 1, "exchange", "above")
  <2>0. x # 0
    BY <1>1, <1>4 DEF Procs
  <2>1. PICK y \in Procs(n) : y = x - 1 /\ x = y + 1
    BY <1>3, <2>0
  <2>2. Heat!SendsBorder(x, y, "exchange", "above")
    BY ONLY <1>4, <2>1
  <2>3. /\ at[x] = "exchange" /\ HeatAlone(n, w, x, "above", local[x]) /\ HeatPut(n, x, y, HeatRow(w, x))
        /\ Talks(n, HeatLetters(n), HeatWords)' /\ Stands(n, HeatPoints, Seq(HeatResults))'
    BY ONLY HeatRuns(n, w, x), Heat!Quietly, y \in Procs(n), <1>2, <2>2, HeatSendsRowTo
  <2>4. HeatSwap(n, w, x, "exchange", "above", local[x])
    BY ONLY <2>3 DEF HeatSwap
  <2>5. HeatDone(n, w)
    BY ONLY <2>0, <2>1, <2>3, <2>4, HeatSendsUp
  <2> QED BY ONLY HeatRuns(n, w, x), <2>3, <2>5, HeatRunsOn
<1>5. CASE Heat!ReceivesBorder(x, x - 1, "above", "lower", "above")
  <2>0. x # 0
    <3>1. at[x] = "above"
      BY <1>5 DEF Heat!ReceivesBorder
    <3> QED BY ONLY <1>1, <3>1 DEF HeatFits
  <2>1. PICK y \in Procs(n) : y = x - 1 /\ x = y + 1
    BY <1>3, <2>0
  <2>2. Heat!ReceivesBorder(x, y, "above", "lower", "above")
    BY ONLY <1>5, <2>1
  <2>3. PICK row, d : /\ at[x] = "above" /\ Moves(x, "lower") /\ Heat!Receives(x, y, row)
                      /\ d = [local[x] EXCEPT !.above = row] /\ Keeps(x, d)
    BY ONLY <2>2 DEF Heat!ReceivesBorder, Heat!Keep, Keeps, Moves
  <2>4. /\ HeatAlone(n, w, x, "lower", d) /\ HeatTaken(n, y, x)
        /\ Head(mail[y][x]) \in HeatLetters(n) /\ row = Head(mail[y][x])
        /\ Talks(n, HeatLetters(n), HeatWords)' /\ Stands(n, HeatPoints, Seq(HeatResults))'
    <3>1. "lower" \in HeatSwaps /\ Moves(x, "lower") /\ Heat!Receives(x, y, row) /\ Keeps(x, d)
      BY ONLY <1>2, <2>3
    <3> QED BY ONLY HeatRuns(n, w, x), Heat!Quietly, y \in Procs(n), <3>1, HeatGetsRowFrom
  <2>5. HeatSwap(n, w, x, "above", "lower", d)
    BY ONLY <2>3, <2>4 DEF HeatSwap
  <2>6. d = [local[x] EXCEPT !.above = Head(mail[y][x])]
    BY ONLY <2>3, <2>4
  <2>7. HeatDone(n, w)
    BY ONLY <2>1, <2>4, <2>5, <2>6, HeatGetsAbove
  <2> QED BY ONLY HeatRuns(n, w, x), <2>4, <2>7, HeatRunsOn
<1>6. CASE x = 0 /\ Heat!Skips(x, "exchange", "lower")
  <2>1. /\ at[x] = "exchange" /\ HeatAlone(n, w, x, "lower", local[x]) /\ mail' = mail
        /\ Talks(n, HeatLetters(n), HeatWords)' /\ Stands(n, HeatPoints, Seq(HeatResults))'
    BY ONLY HeatRuns(n, w, x), Heat!Quietly, <1>2, <1>6, HeatSkipsOn
  <2>2. HeatSwap(n, w, x, "exchange", "lower", local[x])
    BY ONLY <2>1 DEF HeatSwap
  <2>3. HeatDone(n, w)
    BY ONLY <1>6, <2>1, <2>2, HeatSkips
  <2> QED BY ONLY HeatRuns(n, w, x), <2>1, <2>3, HeatRunsOn
<1> QED BY <1>4, <1>5, <1>6

(* The same with the next process.                                         *)
LEMMA HeatExchangesDown ==
  ASSUME NEW n, NEW w, NEW x, HeatRuns(n, w, x), Heat!Quietly,
         \/ x < Heat!Count - 1 /\ Heat!SendsBorder(x, x + 1, "lower", "below")
         \/ Heat!ReceivesBorder(x, x + 1, "below", "compute", "below")
         \/ x = Heat!Count - 1 /\ Heat!Skips(x, "lower", "compute")
  PROVE  HeatInv(n)'
<1>1. /\ x \in Procs(n) /\ n \in Nat \ {0} /\ HeatFits(n, w, x, at[x], local[x], entered[x], waits[x])
      /\ Heat!Count = n
  BY HeatRunsNow
<1>2. {"lower", "below", "compute"} \subseteq HeatSwaps
  BY DEF HeatSwaps
<1>3. ASSUME x # n - 1 PROVE \E y \in Procs(n) : y = x + 1
  <2>1. x + 1 \in Procs(n)
    BY <1>1, <1>3 DEF Procs
  <2> QED BY <2>1
<1>4. CASE x < Heat!Count - 1 /\ Heat!SendsBorder(x, x + 1, "lower", "below")
  <2>0. x # n - 1
    BY <1>1, <1>4 DEF Procs
  <2>1. PICK y \in Procs(n) : y = x + 1
    BY <1>3, <2>0
  <2>2. Heat!SendsBorder(x, y, "lower", "below")
    BY ONLY <1>4, <2>1
  <2>3. /\ at[x] = "lower" /\ HeatAlone(n, w, x, "below", local[x]) /\ HeatPut(n, x, y, HeatRow(w, x))
        /\ Talks(n, HeatLetters(n), HeatWords)' /\ Stands(n, HeatPoints, Seq(HeatResults))'
    BY ONLY HeatRuns(n, w, x), Heat!Quietly, y \in Procs(n), <1>2, <2>2, HeatSendsRowTo
  <2>4. HeatSwap(n, w, x, "lower", "below", local[x])
    BY ONLY <2>3 DEF HeatSwap
  <2>5. HeatDone(n, w)
    BY ONLY <2>0, <2>1, <2>3, <2>4, HeatSendsDown
  <2> QED BY ONLY HeatRuns(n, w, x), <2>3, <2>5, HeatRunsOn
<1>5. CASE Heat!ReceivesBorder(x, x + 1, "below", "compute", "below")
  <2>0. x # n - 1
    <3>1. at[x] = "below"
      BY <1>5 DEF Heat!ReceivesBorder
    <3> QED BY ONLY <1>1, <3>1 DEF HeatFits
  <2>1. PICK y \in Procs(n) : y = x + 1
    BY <1>3, <2>0
  <2>2. Heat!ReceivesBorder(x, y, "below", "compute", "below")
    BY ONLY <1>5, <2>1
  <2>3. PICK row, d : /\ at[x] = "below" /\ Moves(x, "compute") /\ Heat!Receives(x, y, row)
                      /\ d = [local[x] EXCEPT !.below = row] /\ Keeps(x, d)
    BY ONLY <2>2 DEF Heat!ReceivesBorder, Heat!Keep, Keeps, Moves
  <2>4. /\ HeatAlone(n, w, x, "compute", d) /\ HeatTaken(n, y, x)
        /\ Head(mail[y][x]) \in HeatLetters(n) /\ row = Head(mail[y][x])
        /\ Talks(n, HeatLetters(n), HeatWords)' /\ Stands(n, HeatPoints, Seq(HeatResults))'
    <3>1. "compute" \in HeatSwaps /\ Moves(x, "compute") /\ Heat!Receives(x, y, row) /\ Keeps(x, d)
      BY ONLY <1>2, <2>3
    <3> QED BY ONLY HeatRuns(n, w, x), Heat!Quietly, y \in Procs(n), <3>1, HeatGetsRowFrom
  <2>5. HeatSwap(n, w, x, "below", "compute", d)
    BY ONLY <2>3, <2>4 DEF HeatSwap
  <2>6. d = [local[x] EXCEPT !.below = Head(mail[y][x])]
    BY ONLY <2>3, <2>4
  <2>7. HeatDone(n, w)
    BY ONLY <2>1, <2>4, <2>5, <2>6, HeatGetsBelow
  <2> QED BY ONLY HeatRuns(n, w, x), <2>4, <2>7, HeatRunsOn
<1>6. CASE x = Heat!Count - 1 /\ Heat!Skips(x, "lower", "compute")
  <2>1. /\ at[x] = "lower" /\ HeatAlone(n, w, x, "compute", local[x]) /\ mail' = mail
        /\ Talks(n, HeatLetters(n), HeatWords)' /\ Stands(n, HeatPoints, Seq(HeatResults))'
    BY ONLY HeatRuns(n, w, x), Heat!Quietly, <1>2, <1>6, HeatSkipsOn
  <2>2. HeatSwap(n, w, x, "lower", "compute", local[x])
    BY ONLY <2>1 DEF HeatSwap
  <2>3. x = n - 1
    BY ONLY <1>1, <1>6
  <2>4. HeatDone(n, w)
    BY ONLY <2>1, <2>2, <2>3, HeatSkips
  <2> QED BY ONLY HeatRuns(n, w, x), <2>1, <2>4, HeatRunsOn
<1> QED BY <1>4, <1>5, <1>6

(* All exchanges of rows.                                                  *)
LEMMA HeatExchanges ==
  ASSUME NEW n, NEW w, NEW x, HeatRuns(n, w, x), Heat!Exchanges(x)
  PROVE  HeatInv(n)'
<1>1. Heat!Quietly
  BY DEF Heat!Exchanges
<1>2. \/ \/ x > 0 /\ Heat!SendsBorder(x, x - 1, "exchange", "above")
         \/ Heat!ReceivesBorder(x, x - 1, "above", "lower", "above")
         \/ x = 0 /\ Heat!Skips(x, "exchange", "lower")
      \/ \/ x < Heat!Count - 1 /\ Heat!SendsBorder(x, x + 1, "lower", "below")
         \/ Heat!ReceivesBorder(x, x + 1, "below", "compute", "below")
         \/ x = Heat!Count - 1 /\ Heat!Skips(x, "lower", "compute")
  BY DEF Heat!Exchanges
<1> QED BY ONLY <1>1, <1>2, HeatRuns(n, w, x), HeatExchangesUp, HeatExchangesDown

(* A process learns whether the plate has settled.                         *)
LEMMA HeatAgreesOn ==
  ASSUME NEW n, NEW w, NEW x, HeatRuns(n, w, x), Heat!Agrees(x)
  PROVE  HeatInv(n)'
<1>1. /\ HeatNow(n, w) /\ x \in Procs(n) /\ Talks(n, HeatLetters(n), HeatWords) /\ Heat!Processes = Procs(n)
  BY HeatRunsNow
<1>2. output' = output /\ mail' = mail /\ entered' = entered /\ waits' = waits
  BY DEF Heat!Agrees, Heat!Quietly, Heat!Computes, Heat!communication
<1>3. PICK settled : settled = \A q \in Procs(n) : entered[q][Len(entered[x])]
  OBVIOUS
<1>4. settled = \A q \in Heat!Processes : Heat!FromAll(x)[q]
  BY <1>1, <1>3 DEF Heat!FromAll
<1>5. PICK to : to = IF settled THEN "gather" ELSE "exchange"
  OBVIOUS
<1>6. PICK f, d : /\ f = [local[x] EXCEPT !.state = local[x].state + 1] /\ d = [f EXCEPT !.settled = settled]
  OBVIOUS
<1>7. Heat!Goes(x, "agree", to)
  BY <1>4, <1>5 DEF Heat!Agrees
<1>8. Keeps(x, d)
  BY <1>4, <1>6 DEF Heat!Agrees, Heat!Keep, Keeps
<1>9. at[x] = "agree" /\ Moves(x, to) /\ \A q \in waits[x].entry : Len(entered[q]) >= Len(entered[x])
  BY <1>7, HeatGoesSays
<1>10. /\ ~Past(w, at[x], entered[x]) /\ HeatBefore(w, local[x], entered[x])
       /\ HeatHas(n, w, x, local[x]) /\ Len(local[x].results) < Len(local[x].lines)
       /\ (\A q \in Procs(n) : entered[q][Len(entered[x])]) \in BOOLEAN
       /\ (\A q \in Procs(n) : entered[q][Len(entered[x])]) <=> w.settled
  BY ONLY <1>1, <1>9, HeatLeaves
<1>11. settled \in BOOLEAN /\ (settled <=> w.settled)
  BY ONLY <1>3, <1>10
<1>12. to \in HeatPoints
  BY <1>5 DEF HeatPoints
<1>13. HeatStepped(n, w, x, to, d)
  BY ONLY <1>1, <1>2, <1>8, <1>9, <1>12 DEF HeatStepped
<1>14. HeatAlone(n, w, x, to, d) /\ Stands(n, HeatPoints, Seq(HeatResults))'
  BY ONLY <1>2, <1>13, HeatMovesAlone
<1>15. HeatDone(n, w)
  BY ONLY <1>2, <1>5, <1>6, <1>9, <1>10, <1>11, <1>14, HeatAgrees
<1>16. Talks(n, HeatLetters(n), HeatWords)'
  BY <1>1, <1>2, StaysAlone DEF Alone
<1> QED BY ONLY HeatRuns(n, w, x), <1>14, <1>15, <1>16, HeatRunsOn

(* The rows of a plate are gathered, and it is written.                    *)
LEMMA HeatGathers ==
  ASSUME NEW n, NEW w, NEW x, HeatRuns(n, w, x), Heat!Gathers(x)
  PROVE  HeatInv(n)'
<1>1. /\ HeatNow(n, w) /\ x \in Procs(n) /\ n \in Nat \ {0} /\ Talks(n, HeatLetters(n), HeatWords)
      /\ HeatFits(n, w, x, at[x], local[x], entered[x], waits[x]) /\ Heat!Count = n /\ 0 \in Procs(n)
  BY HeatRunsNow
<1>2. output' = output
  BY DEF Heat!Gathers, Heat!Quietly
<1>3. PICK rows : rows = Heat!Cardinality(Heat!RowsOf(x)) /\ rows \in 0..PlateRows
  BY ONLY <1>1, HeatRowsOf
<1>4. CASE /\ Heat!Goes(x, "gather", "gather") /\ x # 0 /\ local[x].row < rows
           /\ Heat!Sends(x, 0, Heat!BorderRow(x)) /\ Heat!Keep(x, [local[x] EXCEPT !.row = @ + 1])
  <2>1. at[x] = "gather" /\ Moves(x, "gather")
    BY <1>4, HeatGoesSays
  <2>2. local[x] \in HeatRecord(n)
    BY ONLY <1>1, <2>1 DEF HeatFits
  <2>3. PICK what : what = Heat!BorderRow(x) /\ what \in HeatLetters(n)
    <3>1. local[x].state \in 0..MostStates /\ local[x].results \in Seq(HeatResults)
      BY <2>2 DEF HeatRecord
    <3>2. Len(local[x].results) + 1 \in Nat
      BY <3>1, LenProperties
    <3>3. Heat!BorderRow(x) \in HeatLetters(n)
      BY ONLY <1>1, <3>1, <3>2 DEF Heat!BorderRow, Heat!Ordinal, HeatLetters
    <3> QED BY ONLY <3>3
  <2>4. local[x].row < PlateRows
    <3>1. local[x].row \in 0..PlateRows
      BY <2>2 DEF HeatRecord
    <3> QED BY <1>3, <1>4, <3>1, NumbersAssumption
  <2>5. PICK d : d = [local[x] EXCEPT !.row = local[x].row + 1]
    OBVIOUS
  <2>6. Keeps(x, d) /\ Heat!Sends(x, 0, what)
    BY <1>4, <2>3, <2>5 DEF Heat!Keep, Keeps
  <2>7. /\ Talks(n, HeatLetters(n), HeatWords)' /\ HeatPut(n, x, 0, what) /\ entered' = entered
        /\ \A a \in Procs(n) : a # x => waits'[a] = waits[a]
    BY ONLY <1>1, <2>3, <2>6, HeatSends
  <2>8. "gather" \in HeatPoints
    BY DEF HeatPoints
  <2>9. HeatStepped(n, w, x, "gather", d)
    BY ONLY <1>1, <1>2, <2>1, <2>6, <2>8 DEF HeatStepped
  <2>10. HeatAlone(n, w, x, "gather", d) /\ Stands(n, HeatPoints, Seq(HeatResults))'
    BY ONLY <2>7, <2>9, HeatMovesAlone
  <2>11. HeatDone(n, w)
    BY ONLY <1>4, <2>1, <2>4, <2>5, <2>7, <2>10, HeatSendsRow
  <2> QED BY ONLY HeatRuns(n, w, x), <2>7, <2>10, <2>11, HeatRunsOn
<1>5. CASE /\ Heat!Goes(x, "gather", "plate") /\ Heat!Computes
           /\ Heat!Keep(x, [local[x] EXCEPT !.row = 0,
                 !.results = Append(@, [line |-> local[x].lines[Heat!Ordinal(x)], states |-> local[x].state])])
  <2>1. at[x] = "gather" /\ Moves(x, "plate")
    BY <1>5, HeatGoesSays
  <2>2. mail' = mail /\ entered' = entered /\ waits' = waits
    BY <1>5 DEF Heat!Computes, Heat!communication
  <2>3. PICK f, r, s, d :
          /\ f = [local[x] EXCEPT !.row = 0]
          /\ r = [line |-> local[x].lines[Len(local[x].results) + 1], states |-> local[x].state]
          /\ s = Append(local[x].results, r) /\ d = [f EXCEPT !.results = s]
    OBVIOUS
  <2>4. Keeps(x, d)
    <3>1. local[x] \in HeatRecord(n)
      BY ONLY <1>1, <2>1 DEF HeatFits
    <3>2. f.results = local[x].results
      BY <2>3, <3>1 DEF HeatRecord
    <3>3. Keeps(x, [local[x] EXCEPT !.row = 0, !.results = Append(@, r)])
      BY <1>5, <2>3 DEF Heat!Keep, Keeps, Heat!Ordinal
    <3> QED BY ONLY <2>3, <3>2, <3>3
  <2>5. "plate" \in HeatPoints
    BY DEF HeatPoints
  <2>6. HeatStepped(n, w, x, "plate", d)
    BY ONLY <1>1, <1>2, <2>1, <2>4, <2>5 DEF HeatStepped
  <2>7. HeatAlone(n, w, x, "plate", d) /\ Stands(n, HeatPoints, Seq(HeatResults))'
    BY ONLY <2>2, <2>6, HeatMovesAlone
  <2>8. HeatDone(n, w)
    <3>1. HeatFiled(local[x], f, r, s, d)
      BY ONLY <2>3 DEF HeatFiled
    <3> QED BY ONLY <2>1, <2>2, <2>7, <3>1, HeatWrites
  <2>9. Talks(n, HeatLetters(n), HeatWords)'
    BY <1>1, <2>2, StaysAlone DEF Alone
  <2> QED BY ONLY HeatRuns(n, w, x), <2>7, <2>8, <2>9, HeatRunsOn
<1> QED BY <1>3, <1>4, <1>5 DEF Heat!Gathers

(* Every step.                                                             *)
LEMMA HeatStep ==
  ASSUME NEW n, HeatInv(n), NEW p \in Procs(n), Heat!Step(Heat!ProcessStep(p))
  PROVE  HeatInv(n)'
<1>1. /\ program \in Heat!Programs /\ program' = program /\ input' = input /\ Heat!ProcessStep(p)
  BY DEF HeatInv, Heat!Step
<1>2. PICK w : HeatNow(n, w) \/ HeatOver(n, w)
  BY DEF HeatInv
<1>3. CASE HeatNow(n, w)
  <2>1. HeatRuns(n, w, p)
    BY <1>1, <1>3 DEF HeatRuns
  <2> QED BY ONLY <1>1, <2>1, HeatBegins, HeatDeals, HeatIsDealt, HeatReadsOn, HeatFinishes, HeatAborts,
             HeatExchanges, HeatComputesOn, HeatAgreesOn, HeatGathers DEF Heat!ProcessStep
<1>4. CASE HeatOver(n, w)
  <2>1. at[p] = "aborted"
    BY <1>4 DEF HeatOver
  <2>2. \A from, to : Heat!Goes(p, from, to) => from = "aborted"
    BY <2>1 DEF Heat!Goes
  <2>3. p = 0 => ~Heat!Goes(0, "deal", "deal") /\ ~Heat!Goes(0, "deal", "plate")
    BY <2>2
  <2>4. ~Heat!Begins(p) /\ ~Heat!Deals(p) /\ ~Heat!IsDealt(p) /\ ~Heat!Reads(p) /\ ~Heat!Finishes(p)
    BY <2>2 DEF Heat!Begins, Heat!Deals, Heat!IsDealt, Heat!Reads, Heat!Finishes
  <2>5. ~Heat!CannotRead(p)
    BY <2>1 DEF Heat!CannotRead
  <2>6. ~Heat!ComputesRows(p) /\ ~Heat!Gathers(p)
    BY <2>2 DEF Heat!ComputesRows, Heat!Gathers
  <2>7. ~Heat!Agrees(p)
    BY <2>1 DEF Heat!Agrees, Heat!Goes
  <2>8. ~Heat!Exchanges(p)
    BY <2>1, <2>2 DEF Heat!Exchanges, Heat!SendsBorder, Heat!Skips, Heat!ReceivesBorder
  <2> QED BY ONLY <1>1, <2>4, <2>5, <2>6, <2>7, <2>8 DEF Heat!ProcessStep
<1> QED BY <1>2, <1>3, <1>4

(* Nothing changes.                                                        *)
LEMMA HeatStutter ==
  ASSUME NEW n, HeatInv(n), UNCHANGED programVars
  PROVE  HeatInv(n)'
<1>1. /\ program' = program /\ input' = input /\ at' = at /\ local' = local /\ mail' = mail
      /\ entered' = entered /\ waits' = waits /\ output' = output
  BY DEF programVars
<1>2. PICK w : HeatNow(n, w) \/ HeatOver(n, w)
  BY DEF HeatInv
<1>3. HeatNow(n, w) => HeatNow(n, w)'
  BY ONLY <1>1 DEF HeatNow, Talks, Stands
<1>4. HeatOver(n, w) => HeatOver(n, w)'
  BY ONLY <1>1 DEF HeatOver, Talks, Stands, HeatSums
<1> QED BY <1>1, <1>2, <1>3, <1>4 DEF HeatInv, Heat!Programs

(* Before anything is done, nothing has been shared.                       *)
HeatFirst(job) ==
  [level |-> 0, past |-> <<>>, before |-> 0, done |-> <<>>, now |-> 0, settled |-> FALSE, job |-> job]

(* The world in which all have started.                                    *)
LEMMA HeatFirsts ==
  ASSUME NEW n \in Nat \ {0}, input \in HeatInputs, Started(n)
  PROVE  \E w : HeatNow(n, w)
<1>1. PICK w : w = HeatFirst(input)
  OBVIOUS
<1>2. /\ w.level = 0 /\ w.past = <<>> /\ w.before = 0 /\ w.done = <<>> /\ w.now = 0 /\ w.settled = FALSE
      /\ w.job = input
  BY <1>1 DEF HeatFirst
<1>3. w \in HeatWorlds
  <2>1. 0 \in HeatStates
    BY NumbersAssumption DEF HeatStates
  <2>2. <<>> \in Seq(Nat)
    BY EmptySeq
  <2> QED BY ONLY <1>1, <2>1, <2>2, input \in HeatInputs DEF HeatFirst, HeatWorlds
<1>4. HeatPast(w) /\ HeatVoices(n, w, entered)
  BY ONLY <1>2 DEF HeatPast, HeatVoices
<1>5. /\ Talks(n, HeatLetters(n), HeatWords) /\ Stands(n, HeatPoints, Seq(HeatResults))
      /\ \A p \in Procs(n) : at[p] = "start" /\ entered[p] = <<>>
      /\ \A p, q \in Procs(n) : mail[p][q] = <<>>
  <2>1. "start" \in HeatPoints
    BY DEF HeatPoints
  <2> QED BY <2>1, StartedTalks
<1>6. \A p \in Procs(n) : local[p] = <<>>
  BY DEF Started
<1>7. ASSUME NEW q \in Procs(n) PROVE HeatFits(n, w, q, at[q], local[q], entered[q], waits[q])
  <2>1. "start" \in HeatPoints \ {"aborted"}
    BY DEF HeatPoints
  <2>2. Len(entered[q]) = 0
    BY <1>5, EmptySeq
  <2> QED BY ONLY <1>2, <1>5, <1>6, <2>1, <2>2, q \in Procs(n) DEF HeatFits
<1>8. \A q \in Procs(n) : /\ ~SentDown(w, at[q], entered[q]) /\ ~GotDown(w, at[q], entered[q])
                          /\ ~SentUp(w, at[q], entered[q]) /\ ~GotUp(w, at[q], entered[q])
                          /\ ~Past(w, at[q], entered[q])
  BY ONLY <1>5 DEF SentDown, GotDown, SentUp, GotUp, Past
<1>9. ASSUME NEW p \in Procs(n), NEW q \in Procs(n), p < q PROVE HeatDown(n, w, p, q, at, local, mail, entered)
  BY ONLY <1>5, <1>8, p \in Procs(n), q \in Procs(n) DEF HeatDown, Due, Owes, HasDealt
<1>10. ASSUME NEW p \in Procs(n), NEW q \in Procs(n) PROVE HeatUp(w, q, p, at, mail, entered)
  BY ONLY <1>5, <1>8, p \in Procs(n), q \in Procs(n) DEF HeatUp, Lent
<1>11. HeatKeeps(n, w, at, local, mail, entered, waits)
  BY ONLY <1>3, <1>4, <1>7, <1>9, <1>10 DEF HeatKeeps
<1>12. 0 \in Procs(n)
  BY DEF Procs
<1>13. HeatHolds(n, w, at, local, mail, entered, waits)
  BY ONLY <1>8, <1>11, <1>12 DEF HeatHolds
<1>14. HeatNow(n, w)
  BY ONLY n \in Nat \ {0}, <1>2, <1>5, <1>13 DEF HeatNow
<1> QED BY ONLY <1>14

(* The heat simulation starts in its invariant.                            *)
LEMMA HeatBegin ==
  ASSUME Heat!Init
  PROVE  \E n : HeatInv(n)
<1>1. program \in Heat!Programs
  BY DEF Heat!Init
<1>2. PICK shape \in Shapes : /\ input \in [proper : BOOLEAN, readable : BOOLEAN, lines : {shape[2]}]
                              /\ Heat!Starts(shape[1])
  BY DEF Heat!Init
<1>3. PICK n : n = shape[1] /\ n \in 1..MostProcesses /\ shape[2] \in Nat
  <2>1. shape \in (1..MostProcesses) \X Nat
    BY CountsAssumption
  <2> QED BY <2>1
<1>4. n \in Nat \ {0}
  BY <1>3, CountsAssumption
<1>5. Started(n)
  BY <1>2, <1>3 DEF Heat!Starts, Started, Procs
<1>6. input \in HeatInputs
  BY <1>2, <1>3 DEF HeatInputs
<1>7. PICK w : HeatNow(n, w)
  BY ONLY <1>4, <1>5, <1>6, HeatFirsts
<1> QED BY ONLY <1>1, <1>7 DEF HeatInv

-----------------------------------------------------------------------------
(* What the heat simulation promises follows.                              *)
LEMMA HeatMeans ==
  ASSUME NEW n, HeatInv(n)
  PROVE  /\ n \in Nat \ {0} /\ program \in Heat!Programs /\ Heat!Processes = Procs(n) /\ Heat!Count = n
         /\ Talks(n, HeatLetters(n), HeatWords) /\ Stands(n, HeatPoints, Seq(HeatResults))
         /\ \E w : /\ w \in HeatWorlds /\ HeatPast(w) /\ HeatSums(n, w) /\ w.job = input
                   /\ HeatNow(n, w) \/ \A p \in Procs(n) : at[p] = "aborted"
<1>1. PICK w : HeatNow(n, w) \/ HeatOver(n, w)
  BY DEF HeatInv
<1>2. /\ n \in Nat \ {0} /\ w.job = input /\ w \in HeatWorlds /\ HeatPast(w) /\ HeatSums(n, w)
      /\ Talks(n, HeatLetters(n), HeatWords) /\ Stands(n, HeatPoints, Seq(HeatResults))
  <2>1. CASE HeatNow(n, w)
    <3>1. HeatSums(n, w)
      BY <2>1, HeatNowSums
    <3>2. w \in HeatWorlds /\ HeatPast(w)
      BY <2>1 DEF HeatNow, HeatHolds, HeatKeeps
    <3> QED BY <2>1, <3>1, <3>2 DEF HeatNow
  <2>2. CASE HeatOver(n, w)
    BY <2>2 DEF HeatOver
  <2> QED BY <1>1, <2>1, <2>2
<1>3. Heat!Processes = Procs(n) /\ Heat!Count = n
  BY ONLY <1>2, HeatCounts
<1>4. program \in Heat!Programs
  BY DEF HeatInv
<1>5. HeatNow(n, w) \/ \A p \in Procs(n) : at[p] = "aborted"
  BY <1>1 DEF HeatOver
<1> QED BY ONLY <1>2, <1>3, <1>4, <1>5

(* The variables have their types.                                         *)
LEMMA HeatTypes ==
  ASSUME NEW n, HeatInv(n)
  PROVE  Heat!TypeOK
<1>1. /\ n \in Nat \ {0} /\ program \in Heat!Programs /\ Heat!Processes = Procs(n) /\ Heat!Count = n
      /\ Talks(n, HeatLetters(n), HeatWords) /\ Stands(n, HeatPoints, Seq(HeatResults))
  BY HeatMeans
<1>2. PICK w : HeatSums(n, w)
  BY HeatMeans
<1>3. Heat!CommonTypes({"deal", "plate", "exchange", "above", "lower", "below", "compute", "agree", "gather"})
  <2>1. ASSUME NEW p \in Procs(n)
        PROVE  /\ at[p] \in {"deal", "plate", "exchange", "above", "lower", "below", "compute", "agree", "gather"}
                              \cup {"start", "ended", "failed", "aborted"}
               /\ waits[p].receipt \subseteq Procs(n) /\ waits[p].entry \subseteq Procs(n)
               /\ waits[p].receipt = {} \/ waits[p].entry = {}
    <3>1. at[p] \in HeatPoints /\ waits[p] \in Answers(n) /\ (waits[p].receipt = {} \/ waits[p].entry = {})
      BY <1>1 DEF Talks, Stands
    <3>2. waits[p].receipt \subseteq Procs(n) /\ waits[p].entry \subseteq Procs(n)
      BY <3>1 DEF Answers
    <3> QED BY ONLY <3>1, <3>2 DEF HeatPoints
  <2>2. \A i \in DOMAIN output : output[i].by \in Procs(n)
    <3>1. output \in Seq([by : Procs(n), says : Seq(HeatResults)])
      BY <1>1 DEF Stands
    <3>2. \A i \in DOMAIN output : output[i] \in [by : Procs(n), says : Seq(HeatResults)]
      BY ONLY <3>1, ElementOfSeq, LenProperties
    <3> QED BY ONLY <3>2
  <2> QED BY ONLY <1>1, <2>1, <2>2 DEF Heat!CommonTypes
<1>4. ASSUME NEW p \in Heat!Begun
      PROVE  /\ local[p].state \in 0..MostStates /\ local[p].row \in 0..PlateRows
             /\ local[p].dealt \in 1..Heat!Count /\ Heat!IsLast(p) \in BOOLEAN
  <2>1. p \in Procs(n) /\ local[p] # <<>>
    BY <1>1 DEF Heat!Begun
  <2>2. local[p] \in HeatRecord(n)
    BY ONLY <1>2, <2>1 DEF HeatSums
  <2>3. /\ local[p].state \in 0..MostStates /\ local[p].row \in 0..PlateRows /\ local[p].dealt \in 1..n
        /\ local[p].results \in Seq(HeatResults) /\ local[p].lines \in Seq(Int)
    BY ONLY <2>2 DEF HeatRecord
  <2>4. Heat!IsLast(p) \in BOOLEAN
    BY DEF Heat!IsLast, Heat!Ordinal
  <2> QED BY ONLY <1>1, <2>3, <2>4
<1> QED BY ONLY <1>1, <1>3, <1>4 DEF Heat!TypeOK

(* The neighbours' rows are of the same state.                             *)
LEMMA HeatGhosts ==
  ASSUME NEW n, HeatInv(n)
  PROVE  Heat!GhostsInStep
<1>1. n \in Nat \ {0} /\ Heat!Processes = Procs(n) /\ Heat!Count = n
  BY HeatMeans
<1>2. PICK w : HeatNow(n, w) \/ \A p \in Procs(n) : at[p] = "aborted"
  BY HeatMeans
<1>3. ASSUME NEW p \in Heat!Begun, at[p] = "compute"
      PROVE  /\ p > 0 => local[p].above = [Heat!BorderRow(p) EXCEPT !.from = p - 1]
             /\ p < Heat!Count - 1 /\ (p > 0 \/ Heat!Ordinal(p) = 1) =>
                  local[p].below = [Heat!BorderRow(p) EXCEPT !.from = p + 1]
  <2>1. p \in Procs(n) /\ HeatNow(n, w)
    BY <1>1, <1>2, <1>3 DEF Heat!Begun
  <2>2. HeatFits(n, w, p, at[p], local[p], entered[p], waits[p]) /\ w.done \in Seq(Nat)
    BY ONLY <2>1, HeatIsNow
  <2>3. /\ Recorded(local[p], w.done) /\ local[p].state = w.now
        /\ p # 0 => local[p].above = HeatRow(w, p - 1)
        /\ p # n - 1 /\ (p # 0 \/ w.done = <<>>) => local[p].below = HeatRow(w, p + 1)
    BY ONLY <1>3, <2>2 DEF HeatFits
  <2>4. Heat!BorderRow(p) = HeatRow(w, p)
    BY ONLY <2>3 DEF Heat!BorderRow, Heat!Ordinal, HeatRow, Recorded
  <2>5. \A q : [HeatRow(w, p) EXCEPT !.from = q] = HeatRow(w, q)
    BY DEF HeatRow
  <2>6. Heat!Ordinal(p) = 1 => w.done = <<>>
    <3>1. Heat!Ordinal(p) = Len(w.done) + 1
      BY ONLY <2>3 DEF Heat!Ordinal, Recorded
    <3> QED BY ONLY <2>2, <3>1, LenProperties, EmptySeq
  <2>7. (p > 0 <=> p # 0) /\ (p < n - 1 => p # n - 1)
    BY <1>1, <2>1 DEF Procs
  <2> QED BY ONLY <1>1, <2>3, <2>4, <2>5, <2>6, <2>7
<1> QED BY ONLY <1>3 DEF Heat!GhostsInStep

(* Plates of the same ordinal settle after as many states.                 *)
LEMMA HeatSettles ==
  ASSUME NEW n, HeatInv(n)
  PROVE  Heat!SettleTogether
<1>1. Heat!Processes = Procs(n)
  BY HeatMeans
<1>2. PICK w : w \in HeatWorlds /\ HeatPast(w) /\ HeatSums(n, w)
  BY HeatMeans
<1>3. w.past \in Seq(Nat) /\ w.done \in Seq(Nat) /\ w.before + 1 \in Nat
  BY <1>2 DEF HeatWorlds, HeatStates
<1>4. w.level # 0 => \A i \in 1..Len(w.past) : w.done[i] = w.past[i]
  <2>1. CASE w.level # 0 /\ w.done = Append(w.past, w.before + 1)
    BY <1>3, <2>1, AppendProperties
  <2> QED BY ONLY <1>2, <2>1 DEF HeatPast
<1>5. ASSUME NEW p \in Heat!Begun, NEW i \in DOMAIN local[p].results
      PROVE  local[p].results[i].states = w.done[i]
  <2>1. p \in Procs(n) /\ local[p] # <<>>
    BY <1>1 DEF Heat!Begun
  <2>2. /\ local[p] \in HeatRecord(n)
        /\ Recorded(local[p], w.done) \/ (w.level # 0 /\ Recorded(local[p], w.past))
    BY ONLY <1>2, <2>1 DEF HeatSums
  <2>3. i \in 1..Len(local[p].results)
    <3>1. local[p].results \in Seq(HeatResults)
      BY <2>2 DEF HeatRecord
    <3> QED BY <3>1, LenProperties
  <2> QED BY ONLY <1>4, <2>2, <2>3 DEF Recorded
<1> QED BY ONLY <1>5 DEF Heat!SettleTogether

(* Every line of the job is dealt to one process.                          *)
LEMMA HeatLinesDealt ==
  ASSUME NEW n, HeatInv(n)
  PROVE  Heat!EachLineDealt
<1>1. n \in Nat \ {0} /\ Heat!Processes = Procs(n) /\ Heat!Count = n /\ 0 \in Procs(n)
  <2>1. n \in Nat \ {0} /\ Heat!Processes = Procs(n) /\ Heat!Count = n
    BY HeatMeans
  <2> QED BY <2>1 DEF Procs
<1>2. PICK w : w \in HeatWorlds /\ w.job = input /\ (HeatNow(n, w) \/ \A p \in Procs(n) : at[p] = "aborted")
  BY HeatMeans
<1>3. PICK size \in Nat : size = input.lines
  BY <1>2 DEF HeatWorlds, HeatInputs
<1>4. ASSUME \A p \in Procs(n) : Heat!Dealt(p), NEW i \in 0..size - 1
      PROVE  Heat!Cardinality({p \in Procs(n) : i \in Heat!Range(local[p].lines)}) = 1
  <2>1. HeatNow(n, w)
    BY <1>1, <1>2, <1>4 DEF Heat!Dealt
  <2>2. ASSUME NEW p \in Procs(n)
        PROVE  i \in Heat!Range(local[p].lines) <=> InPart(i, p, size, n)
    <3>1. HeatFits(n, w, p, at[p], local[p], entered[p], waits[p])
      BY ONLY <2>1, p \in Procs(n), HeatIsNow
    <3>2. at[p] \notin {"start", "failed", "deal"}
      <4>1. local[p] # <<>> /\ at[p] \notin {"start", "deal"}
        BY <1>4 DEF Heat!Dealt, Heat!Begun
      <4> QED BY ONLY <3>1, <4>1 DEF HeatFits
    <3>3. local[p].lines = HeatShare(n, size, p)
      BY ONLY <1>2, <1>3, <3>1, <3>2 DEF HeatFits
    <3>4. i \in Int
      BY <1>3
    <3>5. i \in Heat!Range(HeatShare(n, size, p)) <=> InPart(i, p, size, n)
      BY ONLY <1>1, <1>3, <3>4, p \in Procs(n), HeatShares
    <3> QED BY ONLY <3>3, <3>5
  <2>3. PICK k \in Procs(n) : \A j \in Procs(n) : InPart(i, j, size, n) <=> j = k
    <3>1. \E k \in 0..n - 1 : \A j \in 0..n - 1 : InPart(i, j, size, n) <=> j = k
      BY ONLY <1>1, <1>3, i \in 0..size - 1, PartsOnce
    <3> QED BY ONLY <3>1 DEF Procs
  <2>4. {p \in Procs(n) : i \in Heat!Range(local[p].lines)} = {k}
    BY ONLY <2>2, <2>3
  <2>5. Cardinality({k}) = 1 /\ Heat!Cardinality({k}) = Cardinality({k})
    BY FS_Singleton, SameCounts
  <2> QED BY ONLY <2>4, <2>5
<1> QED BY ONLY <1>1, <1>3, <1>4 DEF Heat!EachLineDealt

-----------------------------------------------------------------------------
(* The programs, side by side.                                             *)
ProgramsInv == \E n : MessagesInv(n) \/ CollectivesInv(n) \/ HeatInv(n)

(* Which program runs says which invariant holds, and who the processes    *)
(* are.                                                                    *)
LEMMA ProgramsApart ==
  ASSUME NEW n, MessagesInv(n) \/ CollectivesInv(n) \/ HeatInv(n)
  PROVE  /\ DOMAIN at = Procs(n)
         /\ MessagesInv(n) => program \in Messages!Programs
         /\ CollectivesInv(n) => program \in Collectives!Programs
         /\ HeatInv(n) => program \in Heat!Programs
         /\ program \in Messages!Programs => MessagesInv(n)
         /\ program \in Collectives!Programs => CollectivesInv(n)
         /\ program \in Heat!Programs => HeatInv(n)
<1>1. MessagesInv(n) => program \in Messages!Programs /\ DOMAIN at = Procs(n)
  BY MessagesRun, RunsTypes
<1>2. CollectivesInv(n) => program \in Collectives!Programs /\ DOMAIN at = Procs(n)
  BY CollectivesRun, RunsTypes
<1>3. HeatInv(n) => program \in Heat!Programs /\ DOMAIN at = Procs(n)
  BY HeatMeans DEF Stands
<1>4. /\ program \in Messages!Programs => program \notin Collectives!Programs \cup Heat!Programs
      /\ program \in Collectives!Programs => program \notin Heat!Programs
  BY DEF Messages!Programs, Collectives!Programs, Heat!Programs,
         Collectives!Lucky, Collectives!Hybrid
<1> QED BY ONLY <1>1, <1>2, <1>3, <1>4, MessagesInv(n) \/ CollectivesInv(n) \/ HeatInv(n)

(* The invariant is that of a state that is reached, and stays.            *)
THEOREM ProgramsInvariance == ProgramsSpec => []ProgramsInv
<1>1. ProgramsInit => ProgramsInv
  BY MessagesBegin, CollectivesBegin, HeatBegin DEF ProgramsInit, ProgramsInv
<1>2. ProgramsInv /\ [ProgramsNext]_programVars => ProgramsInv'
  <2> SUFFICES ASSUME ProgramsInv, [ProgramsNext]_programVars PROVE ProgramsInv'
    OBVIOUS
  <2>1. PICK n : MessagesInv(n) \/ CollectivesInv(n) \/ HeatInv(n)
    BY DEF ProgramsInv
  <2>2. /\ DOMAIN at = Procs(n)
        /\ program \in Messages!Programs => MessagesInv(n)
        /\ program \in Collectives!Programs => CollectivesInv(n)
        /\ program \in Heat!Programs => HeatInv(n)
    BY ONLY <2>1, ProgramsApart
  <2>3. CASE ProgramsNext
    <3>1. PICK p : ProcessSteps(p)
      BY <2>3 DEF ProgramsNext
    <3>2. p \in Procs(n)
      BY <2>2, <3>1 DEF ProcessSteps
    <3>3. \/ MessagesInv(n) /\ Messages!Step(Messages!ProcessStep(p))
          \/ CollectivesInv(n) /\ Collectives!Step(Collectives!ProcessStep(p))
          \/ HeatInv(n) /\ Heat!Step(Heat!ProcessStep(p))
      BY ONLY <2>2, <3>1 DEF ProcessSteps
    <3>4. MessagesInv(n)' \/ CollectivesInv(n)' \/ HeatInv(n)'
      BY ONLY <3>2, <3>3, MessagesStep, CollectivesStep, HeatStep
    <3> QED BY ONLY <3>4 DEF ProgramsInv
  <2>4. CASE UNCHANGED programVars
    <3>1. MessagesInv(n)' \/ CollectivesInv(n)' \/ HeatInv(n)'
      BY ONLY <2>1, <2>4, MessagesStutter, CollectivesStutter, HeatStutter
    <3> QED BY ONLY <3>1 DEF ProgramsInv
  <2> QED BY <2>3, <2>4
<1> QED BY <1>1, <1>2, PTL DEF ProgramsSpec

(* Every program keeps the types of its variables: the processes wait for  *)
(* receipts or for entries, never for both, scores and ordinals stay in    *)
(* their bounds, however many processes there are.                         *)
THEOREM ProgramsTypes == ProgramsSpec => []TypesOK
<1>1. ProgramsInv => TypesOK
  BY MessagesTypes, CollectivesTypes, HeatTypes DEF ProgramsInv, TypesOK
<1> QED BY ProgramsInvariance, <1>1, PTL

(* However many processes there are and whichever sends wait: greetings    *)
(* come in the order of the ranks, a team runs with one baton, the ball is *)
(* with one player, and MPI_Sendrecv gives a plate its neighbours' rows of *)
(* the same state.                                                         *)
THEOREM ProgramsTurns == ProgramsSpec => []TurnsTaken
<1>1. ProgramsInv => TurnsTaken
  <2> SUFFICES ASSUME NEW n, MessagesInv(n) \/ CollectivesInv(n) \/ HeatInv(n)
               PROVE  TurnsTaken
    BY DEF ProgramsInv
  <2> QED BY ProgramsApart, MessagesTurns, HeatGhosts DEF TurnsTaken
<1> QED BY ProgramsInvariance, <1>1, PTL

(* What the processes find out together is right on all of them: the sum   *)
(* of the ring, the score, the statistics of the reductions, and after how *)
(* many states a plate has settled.                                        *)
THEOREM ProgramsResults == ProgramsSpec => []ResultsAgree
<1>1. ProgramsInv => ResultsAgree
  <2> SUFFICES ASSUME NEW n, MessagesInv(n) \/ CollectivesInv(n) \/ HeatInv(n)
               PROVE  ResultsAgree
    BY DEF ProgramsInv
  <2> QED BY ProgramsApart, MessagesResults, CollectivesStatistics, HeatSettles DEF ResultsAgree
<1> QED BY ProgramsInvariance, <1>1, PTL

(* Every number of a range is some thread's of some process, every line of *)
(* the job and every row of a plate some process's, and nobody else's.     *)
THEOREM ProgramsWork == ProgramsSpec => []WorkDividedOnce
<1>1. ProgramsInv => WorkDividedOnce
  <2> SUFFICES ASSUME NEW n, MessagesInv(n) \/ CollectivesInv(n) \/ HeatInv(n)
               PROVE  WorkDividedOnce
    BY DEF ProgramsInv
  <2>1. program \in Heat!Programs => Heat!EachRowOnce
    BY ProgramsApart, HeatMeans, HeatRowsOnce
  <2> QED BY <2>1, ProgramsApart, CollectivesParts, HeatLinesDealt DEF WorkDividedOnce
<1> QED BY ProgramsInvariance, <1>1, PTL
=============================================================================
