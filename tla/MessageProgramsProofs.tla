------------------------- MODULE MessageProgramsProofs -------------------------
(***************************************************************************)
(* The MPI programs of single messages keep their types, take turns and    *)
(* get their results right, for any number of processes, any arguments and *)
(* any choice of which sends and calls wait.  The philosophers of the last *)
(* part are safe and their waiter never waits in vain, for any number of   *)
(* them.                                                                   *)
(*                                                                         *)
(* Each program has an invariant of its own, about n processes: where they *)
(* can be together, what is then in the mail and what has been given to    *)
(* the collective calls.  What of the past it needs is a function of the   *)
(* state, except for ping-pong with a score (the score after each          *)
(* service), which the invariant says exists.                              *)
(***************************************************************************)
EXTENDS ProcessPrograms, DiningWaiter, TLAPS, FiniteSetTheorems, SequenceTheorems,
        WellFoundedInduction


(* The processes of a communicator of n, and what they have to do with one *)
(* another: what is in the mail is of M, what is given to collective calls *)
(* of E.                                                                   *)
Procs(n) == 0..n - 1
Nothing == {}
Answers(n) == [receipt : SUBSET Procs(n), entry : SUBSET Procs(n)]

Talks(n, M, E) ==
  /\ mail \in [Procs(n) -> [Procs(n) -> Seq(M)]]
  /\ entered \in [Procs(n) -> Seq(E)]
  /\ waits \in [Procs(n) -> Answers(n)]
  /\ \A p \in Procs(n) : waits[p].receipt = {} \/ waits[p].entry = {}

(* Where they are, and what they have reported.                            *)
Stands(n, points, R) ==
  /\ at \in [Procs(n) -> points]
  /\ DOMAIN local = Procs(n) /\ local = [p \in Procs(n) |-> local[p]]
  /\ output \in Seq([by : Procs(n), says : R])

(* Steps in general: to go on, to keep data, to report, and to send, to    *)
(* receive, or to enter a collective call.                                 *)
Moves(p, to) == at' = [at EXCEPT ![p] = to]
Keeps(p, data) == local' = [local EXCEPT ![p] = data]
Tells(p, what) == output' = Append(output, [by |-> p, says |-> what])
Alone == mail' = mail /\ entered' = entered /\ waits' = waits

Puts(p, q, what, receipt) ==
  /\ mail' = [mail EXCEPT ![p][q] = Append(@, what)]
  /\ waits' = [waits EXCEPT ![p] = [receipt |-> receipt, entry |-> {}]]
  /\ entered' = entered

Takes(p, q, what) ==
  /\ mail[q][p] # <<>> /\ what = Head(mail[q][p])
  /\ mail' = [mail EXCEPT ![q][p] = Tail(@)]
  /\ entered' = entered /\ waits' = waits

Calls(p, what, others) ==
  /\ entered' = [entered EXCEPT ![p] = Append(@, what)]
  /\ waits' = [waits EXCEPT ![p] = [receipt |-> {}, entry |-> others]]
  /\ mail' = mail

-----------------------------------------------------------------------------
(* There are n processes.                                                  *)
LEMMA ProcsCount ==
  ASSUME NEW n \in Nat
  PROVE  IsFiniteSet(Procs(n)) /\ Cardinality(Procs(n)) = n
<1>1. IsFiniteSet(0..n - 1) /\ Cardinality(0..n - 1) = IF 0 > n - 1 THEN 0 ELSE (n - 1) - 0 + 1
  BY FS_Interval
<1> QED BY <1>1 DEF Procs

(* The modules of the programs count alike.                                *)
LEMMA SameCounts ==
  /\ \A S : Messages!Cardinality(S) = Cardinality(S)
  /\ \A S : Collectives!Cardinality(S) = Cardinality(S)
  /\ \A S : Heat!Cardinality(S) = Cardinality(S)
<1>1. \A S : Messages!Cardinality(S) = Cardinality(S)
  BY DEF Messages!Cardinality, Cardinality
<1>2. \A S : Collectives!Cardinality(S) = Cardinality(S)
  BY DEF Collectives!Cardinality, Cardinality
<1>3. \A S : Heat!Cardinality(S) = Cardinality(S)
  BY DEF Heat!Cardinality, Cardinality
<1> QED BY <1>1, <1>2, <1>3

(* A message is sent.                                                      *)
LEMMA PutsMessage ==
  ASSUME NEW n, NEW M, NEW E, Talks(n, M, E), NEW p \in Procs(n), NEW q \in Procs(n),
         NEW what \in M, NEW receipt \in SUBSET Procs(n), Puts(p, q, what, receipt)
  PROVE  /\ Talks(n, M, E)'
         /\ mail'[p][q] = Append(mail[p][q], what)
         /\ \A a, b \in Procs(n) : a # p \/ b # q => mail'[a][b] = mail[a][b]
         /\ entered' = entered
         /\ waits'[p].receipt = receipt /\ waits'[p].entry = {}
         /\ \A a \in Procs(n) : a # p => waits'[a] = waits[a]
<1>1. /\ mail[p] \in [Procs(n) -> Seq(M)] /\ mail[p][q] \in Seq(M)
      /\ DOMAIN mail = Procs(n) /\ \A a \in Procs(n) : DOMAIN mail[a] = Procs(n)
  BY DEF Talks
<1>2. Append(mail[p][q], what) \in Seq(M)
  BY <1>1, AppendProperties
<1>3. mail' = [mail EXCEPT ![p] = [mail[p] EXCEPT ![q] = Append(mail[p][q], what)]]
  BY <1>1 DEF Puts
<1>4. /\ mail'[p][q] = Append(mail[p][q], what)
      /\ \A a, b \in Procs(n) : a # p \/ b # q => mail'[a][b] = mail[a][b]
  BY <1>1, <1>3
<1>5. mail' \in [Procs(n) -> [Procs(n) -> Seq(M)]]
  BY <1>1, <1>2, <1>3 DEF Talks
<1>6. /\ waits'[p] = [receipt |-> receipt, entry |-> {}]
      /\ \A a \in Procs(n) : a # p => waits'[a] = waits[a]
      /\ waits' \in [Procs(n) -> Answers(n)]
  <2>1. [receipt |-> receipt, entry |-> {}] \in Answers(n)
    BY DEF Answers
  <2> QED BY <2>1 DEF Talks, Puts
<1>7. \A a \in Procs(n) : waits'[a].receipt = {} \/ waits'[a].entry = {}
  <2>1. \A a \in Procs(n) : waits[a].receipt = {} \/ waits[a].entry = {}
    BY DEF Talks
  <2>2. waits'[p].entry = {}
    BY <1>6
  <2> QED BY ONLY <1>6, <2>1, <2>2
<1> QED BY <1>4, <1>5, <1>6, <1>7 DEF Talks, Puts

(* A message is received.                                                  *)
LEMMA TakesMessage ==
  ASSUME NEW n, NEW M, NEW E, Talks(n, M, E), NEW p \in Procs(n), NEW q \in Procs(n),
         NEW what, Takes(p, q, what)
  PROVE  /\ Talks(n, M, E)'
         /\ mail[q][p] \in Seq(M) /\ mail[q][p] # <<>>
         /\ what \in M /\ what = Head(mail[q][p]) /\ what = mail[q][p][1]
         /\ mail'[q][p] = Tail(mail[q][p])
         /\ \A a, b \in Procs(n) : a # q \/ b # p => mail'[a][b] = mail[a][b]
         /\ entered' = entered /\ waits' = waits
<1>1. /\ mail[q] \in [Procs(n) -> Seq(M)] /\ mail[q][p] \in Seq(M)
      /\ DOMAIN mail = Procs(n) /\ \A a \in Procs(n) : DOMAIN mail[a] = Procs(n)
  BY DEF Talks
<1>2. /\ mail[q][p] # <<>> /\ what = Head(mail[q][p]) /\ what \in M
      /\ Tail(mail[q][p]) \in Seq(M) /\ what = mail[q][p][1]
  <2>1. mail[q][p] # <<>> /\ what = Head(mail[q][p])
    BY DEF Takes
  <2>2. Head(mail[q][p]) \in M /\ Tail(mail[q][p]) \in Seq(M)
    BY <1>1, <2>1, HeadTailProperties
  <2> QED BY <1>1, <2>1, <2>2
<1>3. mail' = [mail EXCEPT ![q] = [mail[q] EXCEPT ![p] = Tail(mail[q][p])]]
  BY <1>1 DEF Takes
<1>4. /\ mail'[q][p] = Tail(mail[q][p])
      /\ \A a, b \in Procs(n) : a # q \/ b # p => mail'[a][b] = mail[a][b]
  BY <1>1, <1>3
<1>5. mail' \in [Procs(n) -> [Procs(n) -> Seq(M)]]
  BY <1>1, <1>2, <1>3 DEF Talks
<1> QED BY <1>1, <1>2, <1>4, <1>5 DEF Talks, Takes

(* A collective call is entered.                                           *)
LEMMA CallsTogether ==
  ASSUME NEW n, NEW M, NEW E, Talks(n, M, E), NEW p \in Procs(n),
         NEW what \in E, NEW others \in SUBSET Procs(n), Calls(p, what, others)
  PROVE  /\ Talks(n, M, E)'
         /\ entered'[p] = Append(entered[p], what)
         /\ Len(entered'[p]) = Len(entered[p]) + 1
         /\ entered'[p][Len(entered[p]) + 1] = what
         /\ \A k \in 1..Len(entered[p]) : entered'[p][k] = entered[p][k]
         /\ \A a \in Procs(n) : a # p => entered'[a] = entered[a]
         /\ waits'[p].receipt = {} /\ waits'[p].entry = others
         /\ \A a \in Procs(n) : a # p => waits'[a] = waits[a]
         /\ mail' = mail
<1>1. entered[p] \in Seq(E) /\ entered'[p] = Append(entered[p], what)
  BY DEF Talks, Calls
<1>2. /\ Append(entered[p], what) \in Seq(E)
      /\ Len(Append(entered[p], what)) = Len(entered[p]) + 1
      /\ Append(entered[p], what)[Len(entered[p]) + 1] = what
      /\ \A k \in 1..Len(entered[p]) : Append(entered[p], what)[k] = entered[p][k]
  BY <1>1, AppendProperties
<1>3. /\ entered' \in [Procs(n) -> Seq(E)]
      /\ \A a \in Procs(n) : a # p => entered'[a] = entered[a]
  BY <1>1, <1>2 DEF Talks, Calls
<1>4. /\ waits'[p] = [receipt |-> {}, entry |-> others]
      /\ \A a \in Procs(n) : a # p => waits'[a] = waits[a]
      /\ waits' \in [Procs(n) -> Answers(n)]
  <2>1. [receipt |-> {}, entry |-> others] \in Answers(n)
    BY DEF Answers
  <2> QED BY <2>1 DEF Talks, Calls
<1>5. \A a \in Procs(n) : waits'[a].receipt = {} \/ waits'[a].entry = {}
  <2>1. \A a \in Procs(n) : waits[a].receipt = {} \/ waits[a].entry = {}
    BY DEF Talks
  <2>2. waits'[p].receipt = {}
    BY <1>4
  <2> QED BY ONLY <1>4, <2>1, <2>2
<1> QED BY <1>1, <1>2, <1>3, <1>4, <1>5 DEF Talks, Calls

(* Nothing is communicated.                                                *)
LEMMA StaysAlone ==
  ASSUME NEW n, NEW M, NEW E, Talks(n, M, E), Alone
  PROVE  Talks(n, M, E)'
BY DEF Talks, Alone

(* A process goes on with its data.                                        *)
LEMMA StandsMoved ==
  ASSUME NEW n, NEW points, NEW R, Stands(n, points, R), NEW p \in Procs(n),
         NEW to \in points, Moves(p, to),
         local' = local \/ \E data : Keeps(p, data),
         output' = output \/ \E what \in R : Tells(p, what)
  PROVE  /\ Stands(n, points, R)'
         /\ at'[p] = to /\ \A q \in Procs(n) : q # p => at'[q] = at[q]
         /\ \A q \in Procs(n) : q # p => local'[q] = local[q]
<1>1. /\ at' \in [Procs(n) -> points] /\ at'[p] = to
      /\ \A q \in Procs(n) : q # p => at'[q] = at[q]
  BY DEF Stands, Moves
<1>2. /\ DOMAIN local' = Procs(n) /\ local' = [q \in Procs(n) |-> local'[q]]
      /\ \A q \in Procs(n) : q # p => local'[q] = local[q]
  BY DEF Stands, Keeps
<1>3. output' \in Seq([by : Procs(n), says : R])
  <2>1. CASE output' = output
    BY <2>1 DEF Stands
  <2>2. ASSUME NEW what \in R, Tells(p, what) PROVE output' \in Seq([by : Procs(n), says : R])
    <3>1. [by |-> p, says |-> what] \in [by : Procs(n), says : R]
      OBVIOUS
    <3> QED BY <2>2, <3>1, AppendProperties DEF Stands, Tells
  <2> QED BY <2>1, <2>2
<1> QED BY <1>1, <1>2, <1>3 DEF Stands

(* The data that is kept.                                                  *)
LEMMA KeepsData ==
  ASSUME NEW n, NEW points, NEW R, Stands(n, points, R), NEW p \in Procs(n),
         NEW data, Keeps(p, data)
  PROVE  local'[p] = data
BY DEF Stands, Keeps

(* A report is the last of those printed.                                  *)
LEMMA TellsMore ==
  ASSUME NEW n, NEW points, NEW R, Stands(n, points, R), NEW p \in Procs(n),
         NEW what \in R, Tells(p, what)
  PROVE  /\ Len(output') = Len(output) + 1
         /\ output'[Len(output) + 1] = [by |-> p, says |-> what]
         /\ \A i \in 1..Len(output) : output'[i] = output[i]
<1>1. [by |-> p, says |-> what] \in [by : Procs(n), says : R]
  OBVIOUS
<1>2. output \in Seq([by : Procs(n), says : R])
  BY DEF Stands
<1> QED BY <1>1, <1>2, AppendProperties DEF Tells

(* n processes before they do anything.                                    *)
Started(n) ==
  /\ at = [p \in Procs(n) |-> "start"]
  /\ local = [p \in Procs(n) |-> <<>>]
  /\ mail = [p \in Procs(n) |-> [q \in Procs(n) |-> <<>>]]
  /\ entered = [p \in Procs(n) |-> <<>>]
  /\ waits = [p \in Procs(n) |-> [receipt |-> {}, entry |-> {}]]
  /\ output = <<>>

(* Processes that have only started have said nothing yet.                 *)
LEMMA StartedTalks ==
  ASSUME NEW n, NEW M, NEW E, NEW points, NEW R, "start" \in points, Started(n)
  PROVE  /\ Talks(n, M, E) /\ Stands(n, points, R)
         /\ \A p \in Procs(n) : at[p] = "start" /\ entered[p] = <<>>
         /\ \A p, q \in Procs(n) : mail[p][q] = <<>>
         /\ output = <<>> /\ Len(output) = 0
<1>1. <<>> \in Seq(M) /\ <<>> \in Seq(E) /\ <<>> \in Seq([by : Procs(n), says : R])
  BY EmptySeq
<1>2. mail \in [Procs(n) -> [Procs(n) -> Seq(M)]]
  BY <1>1 DEF Started
<1>3. entered \in [Procs(n) -> Seq(E)]
  BY <1>1 DEF Started
<1>4. /\ waits \in [Procs(n) -> Answers(n)]
      /\ \A p \in Procs(n) : waits[p].receipt = {} \/ waits[p].entry = {}
  <2>1. [receipt |-> {}, entry |-> {}] \in Answers(n)
    BY DEF Answers
  <2> QED BY <2>1 DEF Started
<1>5. Stands(n, points, R)
  BY <1>1 DEF Started, Stands
<1>6. Len(output) = 0
  BY EmptySeq DEF Started
<1> QED BY <1>2, <1>3, <1>4, <1>5, <1>6 DEF Talks, Started

(* A program that runs with n processes.                                   *)
Runs(name, n, points, M, E, R) ==
  /\ program = name /\ n \in CountsOf[name] /\ n \in Nat \ {0}
  /\ Talks(n, M, E) /\ Stands(n, points, R)

(* What the types of the variables are in all of these programs.           *)
LEMMA RunsTypes ==
  ASSUME NEW name, NEW n, NEW points, NEW M, NEW E, NEW R, Runs(name, n, points, M, E, R)
  PROVE  /\ DOMAIN at = Procs(n) /\ Cardinality(DOMAIN at) = n
         /\ \A p \in Procs(n) :
              /\ at[p] \in points
              /\ waits[p].receipt \subseteq Procs(n) /\ waits[p].entry \subseteq Procs(n)
              /\ waits[p].receipt = {} \/ waits[p].entry = {}
         /\ \A i \in DOMAIN output : output[i].by \in Procs(n)
         /\ \A i \in DOMAIN output : output[i].says \in R
         /\ DOMAIN output = 1..Len(output) /\ Len(output) \in Nat
<1>1. DOMAIN at = Procs(n) /\ \A p \in Procs(n) : at[p] \in points
  BY DEF Runs, Stands
<1>2. Cardinality(DOMAIN at) = n
  BY <1>1, ProcsCount DEF Runs
<1>3. \A p \in Procs(n) :
        /\ waits[p].receipt \subseteq Procs(n) /\ waits[p].entry \subseteq Procs(n)
        /\ waits[p].receipt = {} \/ waits[p].entry = {}
  <2>1. \A p \in Procs(n) : waits[p] \in Answers(n)
    BY DEF Runs, Talks
  <2>2. \A a \in Answers(n) : a.receipt \subseteq Procs(n) /\ a.entry \subseteq Procs(n)
    BY DEF Answers
  <2>3. \A p \in Procs(n) : waits[p].receipt = {} \/ waits[p].entry = {}
    BY DEF Runs, Talks
  <2> QED BY <2>1, <2>2, <2>3
<1>4. output \in Seq([by : Procs(n), says : R])
  BY DEF Runs, Stands
<1>5. \A i \in DOMAIN output : output[i] \in [by : Procs(n), says : R]
  BY <1>4, ElementOfSeq, LenProperties
<1>6. \A i \in DOMAIN output : output[i].by \in Procs(n) /\ output[i].says \in R
  BY <1>5
<1> QED BY <1>1, <1>2, <1>3, <1>4, <1>6, LenProperties

(* The modules of the programs agree on who the processes are.             *)
LEMMA CountIs ==
  ASSUME NEW name, NEW n, NEW points, NEW M, NEW E, NEW R, Runs(name, n, points, M, E, R)
  PROVE  /\ Messages!Processes = Procs(n) /\ Messages!Count = n
         /\ Collectives!Processes = Procs(n) /\ Collectives!Count = n
         /\ Heat!Processes = Procs(n) /\ Heat!Count = n
<1>1. DOMAIN at = Procs(n) /\ Cardinality(DOMAIN at) = n
  BY RunsTypes
<1> QED BY <1>1, SameCounts DEF Messages!Processes, Messages!Count,
           Collectives!Processes, Collectives!Count, Heat!Processes, Heat!Count

(* Induction on the natural numbers for a given set of numbers.            *)
LEMMA Induction ==
  ASSUME NEW S, 0 \in S, \A n \in Nat : n \in S => n + 1 \in S
  PROVE  Nat \subseteq S
<1> DEFINE Less == OpToRel(<, Nat)
           Rest == Nat \ S
<1> SUFFICES ASSUME Rest # {} PROVE FALSE
  OBVIOUS
<1>1. PICK x \in Rest : \A y \in Rest : <<y, x>> \notin Less
  BY NatLessThanWellFounded, WFMin
<1>2. x \in Nat /\ x \notin S /\ x # 0
  BY <1>1
<1>3. x - 1 \in Nat /\ x - 1 + 1 = x /\ x - 1 < x
  BY <1>2
<1>4. x - 1 \in Rest
  BY <1>2, <1>3
<1>5. <<x - 1, x>> \in Less
  BY <1>2, <1>3 DEF OpToRel
<1> QED BY <1>1, <1>4, <1>5

(* The sum of a function, as the modules compute it: g has the sums of all *)
(* subsets.                                                                *)
Anyone(s) == CHOOSE x \in s : TRUE
AddsUp(f, S, g) ==
  g = [s \in SUBSET S |-> IF s = {} THEN 0 ELSE f[Anyone(s)] + g[s \ {Anyone(s)}]]
Sums(f, S) == CHOOSE g : AddsUp(f, S, g)

(* The sums of the programs are the fold over the domain.                  *)
LEMMA SumIs ==
  /\ \A f : Messages!SumFunction(f) = Sums(f, DOMAIN f)[DOMAIN f]
  /\ \A f : Collectives!SumFunction(f) = Sums(f, DOMAIN f)[DOMAIN f]
<1>1. \A f : Messages!SumFunction(f) = Sums(f, DOMAIN f)[DOMAIN f]
  BY DEF Messages!SumFunction, Messages!SumFunctionOnSet, Messages!FoldFunctionOnSet,
     Messages!MapThenFoldSet, Sums, AddsUp, Anyone
<1>2. \A f : Collectives!SumFunction(f) = Sums(f, DOMAIN f)[DOMAIN f]
  BY DEF Collectives!SumFunction, Collectives!SumFunctionOnSet, Collectives!FoldFunctionOnSet,
     Collectives!MapThenFoldSet, Sums, AddsUp, Anyone
<1> QED BY <1>1, <1>2

(* The sum over a finite set exists: it adds up one by one.                *)
LEMMA SumsExist ==
  ASSUME NEW f, NEW S, IsFiniteSet(S)
  PROVE  AddsUp(f, S, Sums(f, S))
<1> DEFINE Level(k) == {s \in SUBSET S : Cardinality(s) <= k}
           Of(g, s) == IF s = {} THEN 0 ELSE f[Anyone(s)] + g[s \ {Anyone(s)}]
           Known == {k \in Nat : \E g : g = [s \in Level(k) |-> Of(g, s)]}
<1>1. /\ Cardinality(S) \in Nat
      /\ \A s \in SUBSET S : IsFiniteSet(s) /\ Cardinality(s) \in Nat /\ Cardinality(s) <= Cardinality(S)
      /\ \A s \in SUBSET S : Cardinality(s) = 0 <=> s = {}
  BY FS_Subset, FS_CardinalityType, FS_EmptySet
<1>2. ASSUME NEW s \in SUBSET S, s # {}
      PROVE  /\ Anyone(s) \in s /\ s \ {Anyone(s)} \in SUBSET S
             /\ Cardinality(s \ {Anyone(s)}) = Cardinality(s) - 1
  <2>1. Anyone(s) \in s
    BY <1>2 DEF Anyone
  <2> QED BY <1>1, <2>1, FS_RemoveElement
<1>3. 0 \in Known
  <2> DEFINE g == [s \in Level(0) |-> 0]
  <2>1. \A s \in Level(0) : s = {}
    BY <1>1
  <2>2. \A s \in Level(0) : Of(g, s) = 0
    BY <2>1
  <2>3. g = [s \in Level(0) |-> Of(g, s)]
    BY <2>2
  <2> QED BY <2>3
<1>4. ASSUME NEW k \in Nat, k \in Known PROVE k + 1 \in Known
  <2>1. PICK g : g = [s \in Level(k) |-> Of(g, s)]
    BY <1>4
  <2> DEFINE h == [s \in Level(k + 1) |-> Of(g, s)]
  <2>2. \A s \in Level(k) : s \in Level(k + 1) /\ h[s] = g[s]
    <3>1. \A s \in Level(k) : s \in Level(k + 1)
      BY <1>1
    <3>2. \A s \in Level(k) : g[s] = Of(g, s)
      <4> HIDE DEF Of, Level
      <4> QED BY <2>1
    <3>3. \A s \in Level(k + 1) : h[s] = Of(g, s)
      <4> HIDE DEF Of, Level
      <4> QED OBVIOUS
    <3> HIDE DEF Of, Level, h
    <3> QED BY <3>1, <3>2, <3>3
  <2>3. ASSUME NEW s \in Level(k + 1) PROVE Of(g, s) = Of(h, s)
    <3>1. CASE s = {}
      BY <3>1
    <3>2. CASE s # {}
      <4>1. s \ {Anyone(s)} \in Level(k)
        BY <1>1, <1>2, <3>2
      <4>2. h[s \ {Anyone(s)}] = g[s \ {Anyone(s)}]
        <5> HIDE DEF Level, h
        <5> QED BY <2>2, <4>1
      <4> HIDE DEF h, Level
      <4> QED BY <4>2
    <3> QED BY <3>1, <3>2
  <2>4. h = [s \in Level(k + 1) |-> Of(h, s)]
    <3> HIDE DEF Of, Level
    <3> QED BY <2>3
  <2> HIDE DEF h, Of, Level
  <2> QED BY <2>4
<1>5. Cardinality(S) \in Known
  <2> HIDE DEF Known
  <2> QED BY <1>1, <1>3, <1>4, Induction
<1>6. Level(Cardinality(S)) = SUBSET S
  BY <1>1
<1>7. \E g : AddsUp(f, S, g)
  <2>1. PICK g : g = [s \in Level(Cardinality(S)) |-> Of(g, s)]
    BY <1>5
  <2>2. AddsUp(f, S, g)
    <3>1. g = [s \in SUBSET S |-> Of(g, s)]
      <4> HIDE DEF Of, Level
      <4> QED BY <1>6, <2>1
    <3> QED BY <3>1 DEF AddsUp
  <2> QED BY <2>2
<1> QED BY <1>7 DEF Sums

(* What is asked of sums: they are integers, they can be taken apart       *)
(* anywhere, and they are between as often the least and the greatest.     *)
LEMMA SumsOfSets ==
  ASSUME NEW S, IsFiniteSet(S), NEW f \in [S -> Int]
  PROVE  /\ Sums(f, S)[{}] = 0
         /\ \A s \in SUBSET S : Sums(f, S)[s] \in Int
         /\ \A s \in SUBSET S : \A x \in s : Sums(f, S)[s] = f[x] + Sums(f, S)[s \ {x}]
<1> DEFINE g == Sums(f, S)
           Good(s) == g[s] \in Int /\ \A x \in s : g[s] = f[x] + g[s \ {x}]
           Known == {k \in Nat : \A s \in SUBSET S : Cardinality(s) <= k => Good(s)}
<1>1. /\ Cardinality(S) \in Nat
      /\ \A s \in SUBSET S : IsFiniteSet(s) /\ Cardinality(s) \in Nat
      /\ \A s \in SUBSET S : Cardinality(s) = 0 <=> s = {}
  BY FS_Subset, FS_CardinalityType, FS_EmptySet
<1>2. ASSUME NEW s \in SUBSET S, NEW x \in s
      PROVE  s \ {x} \in SUBSET S /\ Cardinality(s \ {x}) = Cardinality(s) - 1
  BY <1>1, FS_RemoveElement
<1>3. /\ g[{}] = 0
      /\ \A s \in SUBSET S : s # {} => Anyone(s) \in s /\ g[s] = f[Anyone(s)] + g[s \ {Anyone(s)}]
  <2>1. AddsUp(f, S, g)
    BY SumsExist
  <2> HIDE DEF g
  <2>2. \A s \in SUBSET S : g[s] = IF s = {} THEN 0 ELSE f[Anyone(s)] + g[s \ {Anyone(s)}]
    BY <2>1 DEF AddsUp
  <2>3. \A s \in SUBSET S : s # {} => Anyone(s) \in s
    BY DEF Anyone
  <2> QED BY <2>2, <2>3
<1> HIDE DEF g
<1>4. 0 \in Known
  <2>1. Good({})
    BY <1>3
  <2>2. \A s \in SUBSET S : Cardinality(s) <= 0 => s = {}
    BY <1>1
  <2> HIDE DEF Good
  <2> QED BY <2>1, <2>2
<1>5. ASSUME NEW k \in Nat, k \in Known PROVE k + 1 \in Known
  <2> SUFFICES ASSUME NEW s \in SUBSET S, Cardinality(s) = k + 1 PROVE Good(s)
    <3>1. \A s \in SUBSET S : Cardinality(s) <= k => Good(s)
      <4> HIDE DEF Good
      <4> QED BY <1>5
    <3>2. \A s \in SUBSET S : Cardinality(s) <= k + 1 => Cardinality(s) <= k \/ Cardinality(s) = k + 1
      BY <1>1
    <3> HIDE DEF Good
    <3> QED BY <3>1, <3>2
  <2>1. s # {}
    BY <1>1
  <2> DEFINE a == Anyone(s)
  <2>2. a \in s /\ g[s] = f[a] + g[s \ {a}]
    BY <1>3, <2>1
  <2> HIDE DEF a
  <2>3. \A x \in s : s \ {x} \in SUBSET S /\ Cardinality(s \ {x}) = k
    BY <1>2
  <2>4. \A x \in s : Good(s \ {x})
    <3> HIDE DEF Good
    <3> QED BY <1>5, <2>3
  <2>5. g[s] \in Int
    BY <2>2, <2>4
  <2>6. ASSUME NEW x \in s, x # a PROVE g[s] = f[x] + g[s \ {x}]
    <3>1. g[s \ {a}] = f[x] + g[(s \ {a}) \ {x}]
      BY <2>2, <2>4, <2>6
    <3>2. g[s \ {x}] = f[a] + g[(s \ {x}) \ {a}]
      BY <2>2, <2>4, <2>6
    <3>3. (s \ {a}) \ {x} = (s \ {x}) \ {a}
      OBVIOUS
    <3>4. g[(s \ {x}) \ {a}] \in Int
      <4>1. (s \ {x}) \ {a} \in SUBSET S /\ a \in s \ {x}
        BY <2>2, <2>6
      <4>2. Cardinality((s \ {x}) \ {a}) = k - 1
        BY <1>2, <2>3, <4>1
      <4>3. Good((s \ {x}) \ {a})
        <5>1. Cardinality((s \ {x}) \ {a}) <= k
          BY <4>2
        <5> HIDE DEF Good
        <5> QED BY <1>5, <4>1, <5>1
      <4> QED BY <4>3
    <3>5. PICK u : u = g[(s \ {x}) \ {a}] /\ u \in Int
      BY <3>4
    <3>6. g[s] = f[a] + (f[x] + u) /\ g[s \ {x}] = f[a] + u /\ f[a] \in Int /\ f[x] \in Int
      BY <2>2, <3>1, <3>2, <3>3, <3>5
    <3> QED BY <3>5, <3>6
  <2> QED BY <2>2, <2>5, <2>6
<1>6. \A s \in SUBSET S : Good(s)
  <2> HIDE DEF Known
  <2>1. Nat \subseteq Known
    BY <1>4, <1>5, Induction
  <2> QED BY <1>1, <2>1 DEF Known
<1> QED BY <1>3, <1>6 DEF g

(* A sum lies between as many times its least and its greatest summand,    *)
(* and is the lower bound only if all are the least.                       *)
LEMMA SumBounds ==
  ASSUME NEW S, IsFiniteSet(S), NEW f \in [S -> Int], NEW least \in Int, NEW greatest \in Int,
         \A x \in S : least <= f[x] /\ f[x] <= greatest
  PROVE  /\ Sums(f, S)[S] \in Int
         /\ Cardinality(S) * least <= Sums(f, S)[S] /\ Sums(f, S)[S] <= Cardinality(S) * greatest
         /\ Sums(f, S)[S] = Cardinality(S) * least => \A x \in S : f[x] = least
<1> DEFINE g == Sums(f, S)
           Good(s, k) == /\ k * least <= g[s] /\ g[s] <= k * greatest
                         /\ g[s] = k * least => \A x \in s : f[x] = least
           Known == {k \in Nat : \A s \in SUBSET S : Cardinality(s) = k => Good(s, k)}
<1>1. /\ Cardinality(S) \in Nat
      /\ \A s \in SUBSET S : IsFiniteSet(s)
      /\ \A s \in SUBSET S : Cardinality(s) = 0 <=> s = {}
  BY FS_Subset, FS_CardinalityType, FS_EmptySet
<1>2. /\ g[{}] = 0
      /\ \A s \in SUBSET S : g[s] \in Int
      /\ \A s \in SUBSET S : \A x \in s : g[s] = f[x] + g[s \ {x}]
  BY SumsOfSets
<1> HIDE DEF g
<1>3. 0 \in Known
  <2>1. 0 * least = 0 /\ 0 * greatest = 0
    OBVIOUS
  <2>2. Good({}, 0)
    BY <1>2, <2>1
  <2>3. \A s \in SUBSET S : Cardinality(s) = 0 => s = {}
    BY <1>1
  <2> HIDE DEF Good
  <2> QED BY <2>2, <2>3
<1>4. ASSUME NEW k \in Nat, k \in Known PROVE k + 1 \in Known
  <2> SUFFICES ASSUME NEW s \in SUBSET S, Cardinality(s) = k + 1 PROVE Good(s, k + 1)
    <3> HIDE DEF Good
    <3> QED OBVIOUS
  <2>1. PICK x \in s : TRUE
    BY <1>1
  <2>2. Cardinality(s \ {x}) = k /\ s \ {x} \in SUBSET S
    <3>1. IsFiniteSet(s) /\ s \ {x} \in SUBSET S
      BY <1>1
    <3>2. Cardinality(s \ {x}) = Cardinality(s) - 1
      BY <2>1, <3>1, FS_RemoveElement
    <3> QED BY <3>1, <3>2
  <2>3. Good(s \ {x}, k)
    <3> HIDE DEF Good
    <3> QED BY <1>4, <2>2
  <2>4. /\ (k + 1) * least = k * least + least /\ (k + 1) * greatest = k * greatest + greatest
        /\ k * least \in Int /\ k * greatest \in Int
    OBVIOUS
  <2>5. PICK low, high, rest, own :
          /\ low = k * least /\ high = k * greatest /\ rest = g[s \ {x}] /\ own = f[x]
          /\ low \in Int /\ high \in Int /\ rest \in Int /\ own \in Int
    BY <1>2, <2>2, <2>4
  <2>6. g[s] = own + rest /\ least <= own /\ own <= greatest /\ low <= rest /\ rest <= high
    BY <1>2, <2>3, <2>5
  <2>7. (k + 1) * least <= g[s] /\ g[s] <= (k + 1) * greatest
    BY ONLY <2>4, <2>5, <2>6, least \in Int, greatest \in Int
  <2>8. g[s] = (k + 1) * least => own = least /\ rest = low
    BY ONLY <2>4, <2>5, <2>6, least \in Int, greatest \in Int
  <2>9. g[s] = (k + 1) * least => \A y \in s : f[y] = least
    BY <2>3, <2>5, <2>8
  <2> QED BY <2>7, <2>9
<1>5. Good(S, Cardinality(S))
  <2> HIDE DEF Known
  <2>1. Nat \subseteq Known
    BY <1>3, <1>4, Induction
  <2> HIDE DEF Good
  <2> QED BY <1>1, <2>1 DEF Known
<1> QED BY <1>2, <1>5 DEF g

(* Sums of two numbers, and of four.                                       *)
LEMMA SumOfTwo ==
  ASSUME NEW f \in [0..1 -> Int]
  PROVE  Sums(f, 0..1)[0..1] = f[0] + f[1]
<1>0. IsFiniteSet(0..1)
  BY FS_Interval, 0 \in Int, 1 \in Int
<1>1. 0..1 = {0, 1}
  OBVIOUS
<1> DEFINE g == Sums(f, 0..1)
<1>a. /\ g[{}] = 0 /\ \A s \in SUBSET (0..1) : \A x \in s : g[s] = f[x] + g[s \ {x}]
  BY <1>0, SumsOfSets
<1> HIDE DEF g
<1>2. g[{0, 1}] = f[0] + g[{1}]
  <2>1. {0, 1} \ {0} = {1} /\ {0, 1} \in SUBSET (0..1) /\ 0 \in {0, 1}
    OBVIOUS
  <2> QED BY <1>a, <2>1
<1>3. g[{1}] = f[1] + 0
  <2>1. {1} \ {1} = {} /\ {1} \in SUBSET (0..1) /\ 1 \in {1}
    OBVIOUS
  <2> QED BY <1>a, <2>1
<1> QED BY <1>1, <1>2, <1>3 DEF g

(* The sum of the four numbers of the ring.                                *)
LEMMA SumOfFour ==
  ASSUME NEW f \in [0..3 -> Int]
  PROVE  Sums(f, 0..3)[0..3] = f[0] + f[1] + f[2] + f[3]
<1>0. IsFiniteSet(0..3)
  BY FS_Interval, 0 \in Int, 3 \in Int
<1>1. 0..3 = {0, 1, 2, 3}
  OBVIOUS
<1> DEFINE g == Sums(f, 0..3)
<1>2. /\ g[{}] = 0 /\ \A s \in SUBSET (0..3) : \A x \in s : g[s] = f[x] + g[s \ {x}]
  BY <1>0, SumsOfSets
<1> HIDE DEF g
<1>3. g[{0, 1, 2, 3}] = f[0] + g[{1, 2, 3}]
  <2>1. {0, 1, 2, 3} \ {0} = {1, 2, 3} /\ {0, 1, 2, 3} \in SUBSET (0..3) /\ 0 \in {0, 1, 2, 3}
    OBVIOUS
  <2> QED BY <1>2, <2>1
<1>4. g[{1, 2, 3}] = f[1] + g[{2, 3}]
  <2>1. {1, 2, 3} \ {1} = {2, 3} /\ {1, 2, 3} \in SUBSET (0..3) /\ 1 \in {1, 2, 3}
    OBVIOUS
  <2> QED BY <1>2, <2>1
<1>5. g[{2, 3}] = f[2] + g[{3}]
  <2>1. {2, 3} \ {2} = {3} /\ {2, 3} \in SUBSET (0..3) /\ 2 \in {2, 3}
    OBVIOUS
  <2> QED BY <1>2, <2>1
<1>6. g[{3}] = f[3] + 0
  <2>1. {3} \ {3} = {} /\ {3} \in SUBSET (0..3) /\ 3 \in {3}
    OBVIOUS
  <2> QED BY <1>2, <2>1
<1> QED BY <1>1, <1>3, <1>4, <1>5, <1>6 DEF g

(* hello_task_sep: nothing but types.                                      *)
SeparatePoints == {"start", "ended", "failed"}
SeparateWords == {"hello", "number"}

SeparateInv(n) ==
  Runs("hello_task_sep", n, SeparatePoints, Nothing, Nothing, SeparateWords)

(* send_recv_ord_sem: the processes greet in their order.  Only the last   *)
(* that greeted has a message on its way, or will send one.                *)
GreetPoints == {"start", "pass", "ended"}
GreetMail == {"can_print"}
GreetWords == {"hello"}

GreetInv(n) ==
  /\ Runs("send_recv_ord_sem", n, GreetPoints, GreetMail, Nothing, GreetWords)
  /\ \A i \in 1..Len(output) : output[i].by = i - 1
  /\ \A p \in Procs(n) : at[p] = "start" <=> p >= Len(output)
  /\ \A p \in Procs(n) : p + 1 \in Procs(n) =>
       /\ mail[p][p + 1] \in {<<>>, <<"can_print">>}
       /\ mail[p][p + 1] # <<>> => p = Len(output) - 1 /\ at[p] = "ended"
       /\ p + 1 < Len(output) => at[p] = "ended"

(* A program of messages starts with n processes.                          *)
LEMMA MessagesStart ==
  ASSUME Messages!Init
  PROVE  /\ program \in Messages!Programs
         /\ \E n \in CountsOf[program] : n \in Nat \ {0} /\ Started(n)
<1>1. program \in Messages!Programs
  BY DEF Messages!Init
<1>2. PICK n \in CountsOf[program] : Messages!Starts(n)
  BY DEF Messages!Init
<1>3. CountsOf[program] \subseteq 1..MostProcesses
  BY <1>1, CountsAssumption
<1>4. n \in Nat \ {0}
  BY <1>2, <1>3, CountsAssumption
<1>5. Started(n)
  BY <1>2 DEF Messages!Starts, Started, Procs
<1> QED BY <1>1, <1>2, <1>4, <1>5

(* What a step of a process does, in the terms used here.                  *)
LEMMA MessagesMoves ==
  ASSUME NEW p, NEW from, NEW to, Messages!Goes(p, from, to)
  PROVE  at[p] = from /\ Messages!Returned(p) /\ Moves(p, to)
BY DEF Messages!Goes, Moves

(* A process that refuses its arguments fails without a message.           *)
LEMMA MessagesRefuse ==
  ASSUME NEW p, Messages!Refuses(p)
  PROVE  at[p] = "start" /\ Moves(p, "failed") /\ local' = local /\ output' = output /\ Alone
BY DEF Messages!Refuses, Messages!Goes, Messages!Computes, Messages!communication, Moves, Alone

(* The neighbours in a row of processes.                                   *)
LEMMA Neighbours ==
  ASSUME NEW name, NEW n, NEW points, NEW M, NEW E, NEW R, Runs(name, n, points, M, E, R),
         NEW p \in Procs(n)
  PROVE  /\ Messages!Following(p) = IF p = n - 1 THEN 0 ELSE p + 1
         /\ Messages!Previous(p) = IF p = 0 THEN n - 1 ELSE p - 1
         /\ Messages!Following(p) \in Procs(n) /\ Messages!Previous(p) \in Procs(n)
<1>1. Messages!Count = n
  BY CountIs
<1>2. n \in Nat \ {0} /\ p \in Nat /\ p < n
  BY DEF Runs, Procs
<1>3. (p + 1) % n = IF p = n - 1 THEN 0 ELSE p + 1
  <2>1. CASE p = n - 1
    BY <1>2, <2>1, SMTT(20)
  <2>2. CASE p # n - 1
    BY <1>2, <2>2, SMTT(20)
  <2> QED BY <2>1, <2>2
<1>4. (n + p - 1) % n = IF p = 0 THEN n - 1 ELSE p - 1
  <2>1. CASE p = 0
    BY <1>2, <2>1, SMTT(20)
  <2>2. CASE p # 0
    BY <1>2, <2>2, SMTT(20)
  <2> QED BY <2>1, <2>2
<1> QED BY <1>1, <1>2, <1>3, <1>4 DEF Messages!Following, Messages!Previous, Procs

(* Sending and receiving, as the programs of messages do it.               *)
LEMMA MessagesSend ==
  ASSUME NEW n, NEW M, NEW E, Talks(n, M, E), NEW p \in Procs(n), NEW q \in Procs(n),
         NEW what \in M,
         Messages!Sends(p, q, what) \/ Messages!SendsSynchronously(p, q, what)
  PROVE  /\ Talks(n, M, E)'
         /\ mail'[p][q] = Append(mail[p][q], what)
         /\ \A a, b \in Procs(n) : a # p \/ b # q => mail'[a][b] = mail[a][b]
         /\ entered' = entered /\ waits'[p].entry = {}
         /\ \A a \in Procs(n) : a # p => waits'[a] = waits[a]
<1>1. PICK receipt : receipt \in {{}, {q}} /\ Messages!PutsMail(p, q, what, receipt)
  BY DEF Messages!Sends, Messages!SendsSynchronously
<1>2. receipt \in SUBSET Procs(n)
  BY <1>1
<1>3. Puts(p, q, what, receipt)
  BY <1>1 DEF Messages!PutsMail, Puts
<1> QED BY ONLY Talks(n, M, E), p \in Procs(n), q \in Procs(n), what \in M, <1>2, <1>3, PutsMessage

(* A reception takes the first message from the mail.                      *)
LEMMA MessagesReceive ==
  ASSUME NEW n, NEW M, NEW E, Talks(n, M, E), NEW p \in Procs(n), NEW q \in Procs(n),
         NEW what, Messages!Receives(p, q, what)
  PROVE  /\ Talks(n, M, E)'
         /\ mail[q][p] \in Seq(M) /\ mail[q][p] # <<>>
         /\ what \in M /\ what = Head(mail[q][p]) /\ what = mail[q][p][1]
         /\ mail'[q][p] = Tail(mail[q][p])
         /\ \A a, b \in Procs(n) : a # q \/ b # p => mail'[a][b] = mail[a][b]
         /\ entered' = entered /\ waits' = waits
<1>1. Takes(p, q, what)
  BY DEF Messages!Receives, Takes
<1> QED BY <1>1, TakesMessage

-----------------------------------------------------------------------------
(* A step of hello_task_sep keeps its invariant.                           *)
LEMMA SeparateStep ==
  ASSUME NEW n, SeparateInv(n), NEW p \in Procs(n), Messages!SeparateTasks(p),
         program' = program
  PROVE  SeparateInv(n)'
<1>1. /\ Runs("hello_task_sep", n, SeparatePoints, Nothing, Nothing, SeparateWords)
      /\ "ended" \in SeparatePoints /\ "failed" \in SeparatePoints
      /\ "hello" \in SeparateWords /\ "number" \in SeparateWords
  BY DEF SeparateInv, SeparatePoints, SeparateWords
<1>2. CASE Messages!Refuses(p)
  <2>1. Moves(p, "failed") /\ local' = local /\ Alone /\ output' = output
    BY <1>2, MessagesRefuse
  <2>2. Talks(n, Nothing, Nothing)' /\ Stands(n, SeparatePoints, SeparateWords)'
    BY <1>1, <2>1, StaysAlone, StandsMoved DEF Runs
  <2> QED BY <1>1, <2>2 DEF Runs, SeparateInv
<1>3. CASE ~Messages!Refuses(p)
  <2> DEFINE word == IF p = 0 THEN "hello" ELSE "number"
  <2>1. /\ Moves(p, "ended") /\ local' = local /\ Alone /\ Tells(p, word)
        /\ word \in SeparateWords
    BY <1>1, <1>3 DEF Messages!SeparateTasks, Messages!Says, Messages!Goes, Messages!Computes,
       Messages!communication, Moves, Alone, Tells
  <2> HIDE DEF word
  <2>2. Talks(n, Nothing, Nothing)' /\ Stands(n, SeparatePoints, SeparateWords)'
    BY <1>1, <2>1, StaysAlone, StandsMoved DEF Runs
  <2> QED BY <1>1, <2>2 DEF Runs, SeparateInv
<1> QED BY <1>2, <1>3

(* A step of send_recv_ord_sem keeps its invariant.                        *)
LEMMA GreetStep ==
  ASSUME NEW n, GreetInv(n), NEW p \in Procs(n), Messages!Greets(p), program' = program
  PROVE  GreetInv(n)'
<1>0. Talks(n, GreetMail, Nothing) /\ "can_print" \in GreetMail
  BY DEF GreetInv, Runs, GreetMail
<1>1. /\ Runs("send_recv_ord_sem", n, GreetPoints, GreetMail, Nothing, GreetWords)
      /\ n \in Nat \ {0} /\ Talks(n, GreetMail, Nothing) /\ Stands(n, GreetPoints, GreetWords) /\ p \in Nat /\ p < n
      /\ {"start", "pass", "ended"} = GreetPoints /\ "can_print" \in GreetMail /\ "hello" \in GreetWords
  BY DEF GreetInv, Runs, Procs, GreetPoints, GreetMail, GreetWords
<1>2. /\ \A i \in 1..Len(output) : output[i].by = i - 1
      /\ \A q \in Procs(n) : at[q] = "start" <=> q >= Len(output)
      /\ \A q \in Procs(n) : q + 1 \in Procs(n) =>
           /\ mail[q][q + 1] \in {<<>>, <<"can_print">>}
           /\ mail[q][q + 1] # <<>> => q = Len(output) - 1 /\ at[q] = "ended"
           /\ q + 1 < Len(output) => at[q] = "ended"
  BY DEF GreetInv
<1>3. /\ Messages!Following(p) = IF p = n - 1 THEN 0 ELSE p + 1
      /\ Messages!Previous(p) = IF p = 0 THEN n - 1 ELSE p - 1
      /\ Messages!Following(p) \in Procs(n) /\ Messages!Previous(p) \in Procs(n)
  BY <1>1, Neighbours
<1>4. Len(output) \in Nat
  BY <1>1, RunsTypes
<1>5. CASE /\ at[p] = "start" /\ Moves(p, "pass") /\ Tells(p, "hello") /\ local' = local
           /\ IF p > 0 THEN Messages!Receives(p, Messages!Previous(p), "can_print") ELSE Alone
  <2>1. Len(output) = p
    <3>1. p >= Len(output)
      BY <1>2, <1>5
    <3>2. CASE p = 0
      BY <1>4, <3>1, <3>2
    <3>3. CASE p > 0
      <4>1. p - 1 \in Procs(n) /\ mail[p - 1][p] # <<>> /\ (p - 1) + 1 = p
        BY <1>1, <1>3, <1>5, <3>3 DEF Messages!Receives, Procs
      <4> QED BY <1>2, <1>4, <4>1
    <3> QED BY <1>1, <3>2, <3>3
  <2>2. /\ Talks(n, GreetMail, Nothing)'
        /\ \A q \in Procs(n) : q + 1 \in Procs(n) => mail'[q][q + 1] = <<>>
    <3>1. \A q \in Procs(n) : q + 1 \in Procs(n) /\ q # p - 1 => mail[q][q + 1] = <<>>
      BY <1>2, <2>1, <1>1 DEF Procs
    <3>2. CASE p = 0
      BY <1>1, <1>5, <3>1, <3>2, StaysAlone DEF Alone, Procs
    <3>3. CASE p > 0
      <4> DEFINE s == p - 1
      <4>1. s \in Procs(n) /\ s + 1 = p /\ Messages!Receives(p, s, "can_print")
        BY <1>1, <1>3, <1>5, <3>3 DEF Procs
      <4>2. \A q \in Procs(n) : q + 1 \in Procs(n) /\ q # s => mail[q][q + 1] = <<>>
        BY <3>1
      <4> HIDE DEF s
      <4>3. /\ Talks(n, GreetMail, Nothing)' /\ mail[s][p] # <<>>
            /\ mail'[s][p] = Tail(mail[s][p])
            /\ \A a, b \in Procs(n) : a # s \/ b # p => mail'[a][b] = mail[a][b]
        BY <1>0, <4>1, MessagesReceive
      <4>4. mail[s][p] = <<"can_print">>
        BY <1>2, <4>1, <4>3
      <4>5. mail'[s][p] = <<>>
        BY <4>3, <4>4
      <4>6. ASSUME NEW q \in Procs(n), q + 1 \in Procs(n), q # s
            PROVE  mail'[q][q + 1] = <<>>
        BY <4>2, <4>3, <4>6
      <4> QED BY <4>1, <4>3, <4>5, <4>6
    <3> QED BY <1>1, <3>2, <3>3
  <2>3. /\ Stands(n, GreetPoints, GreetWords)' /\ at'[p] = "pass"
        /\ \A q \in Procs(n) : q # p => at'[q] = at[q]
    BY <1>1, <1>5, StandsMoved
  <2>4. /\ Len(output') = p + 1 /\ output'[p + 1] = [by |-> p, says |-> "hello"]
        /\ \A i \in 1..p : output'[i] = output[i]
    BY <1>1, <1>5, <2>1, TellsMore
  <2>5. \A i \in 1..Len(output') : output'[i].by = i - 1
    BY <1>1, <1>2, <2>1, <2>4
  <2>6. \A q \in Procs(n) : at'[q] = "start" <=> q >= Len(output')
    BY <1>1, <1>2, <2>1, <2>3, <2>4 DEF Procs
  <2>7. ASSUME NEW q \in Procs(n), q + 1 \in Procs(n), q + 1 < Len(output')
        PROVE  at'[q] = "ended"
    <3>1. CASE q + 1 < p
      BY <1>1, <1>2, <2>1, <2>3, <2>7, <3>1 DEF Procs
    <3>2. CASE q + 1 = p
      <4>1. mail[q][q + 1] # <<>>
        BY <1>1, <1>3, <1>5, <2>7, <3>2 DEF Messages!Receives, Procs
      <4>2. at[q] = "ended" /\ q # p
        BY <1>2, <2>7, <4>1, <3>2 DEF Procs
      <4> QED BY <2>3, <4>2
    <3> QED BY <1>1, <2>4, <2>7, <3>1, <3>2 DEF Procs
  <2> QED BY <1>1, <2>2, <2>3, <2>5, <2>6, <2>7 DEF GreetInv, Runs
<1>6. CASE /\ at[p] = "pass" /\ Moves(p, "ended") /\ output' = output /\ local' = local
           /\ Messages!Sends(p, Messages!Following(p), "can_print")
  <2> DEFINE f == Messages!Following(p)
  <2>1. Messages!Sends(p, f, "can_print")
    BY <1>6
  <2>2. f \in Procs(n) /\ (p + 1 \in Procs(n) => f = p + 1)
    BY <1>1, <1>3 DEF Procs
  <2> HIDE DEF f
  <2>3. /\ Talks(n, GreetMail, Nothing)' /\ mail'[p][f] = Append(mail[p][f], "can_print")
        /\ \A a, b \in Procs(n) : a # p \/ b # f => mail'[a][b] = mail[a][b]
    BY <1>0, <2>1, <2>2, MessagesSend
  <2>4. /\ Stands(n, GreetPoints, GreetWords)' /\ at'[p] = "ended"
        /\ \A q \in Procs(n) : q # p => at'[q] = at[q]
    BY <1>1, <1>6, StandsMoved
  <2>5. /\ \A i \in 1..Len(output') : output'[i].by = i - 1
        /\ \A q \in Procs(n) : at'[q] = "start" <=> q >= Len(output')
    BY <1>2, <1>6, <2>4
  <2>6. p + 1 \in Procs(n) =>
          mail[p][p + 1] = <<>> /\ p = Len(output) - 1 /\ mail'[p][p + 1] = <<"can_print">>
    <3> SUFFICES ASSUME p + 1 \in Procs(n)
                 PROVE  /\ mail[p][p + 1] = <<>> /\ p = Len(output) - 1
                        /\ mail'[p][p + 1] = <<"can_print">>
      OBVIOUS
    <3>1. mail[p][p + 1] = <<>>
      BY <1>2, <1>6
    <3>2. p < Len(output) /\ ~(p + 1 < Len(output))
      BY <1>1, <1>2, <1>4, <1>6
    <3> QED BY <1>1, <1>4, <2>2, <2>3, <3>1, <3>2
  <2>7. ASSUME NEW q \in Procs(n), q + 1 \in Procs(n)
        PROVE  /\ mail'[q][q + 1] \in {<<>>, <<"can_print">>}
               /\ mail'[q][q + 1] # <<>> => q = Len(output') - 1 /\ at'[q] = "ended"
               /\ q + 1 < Len(output') => at'[q] = "ended"
    <3>1. CASE q = p
      BY <1>6, <2>4, <2>6, <2>7, <3>1
    <3>2. CASE q # p
      BY <1>2, <1>6, <2>3, <2>4, <2>7, <3>2
    <3> QED BY <3>1, <3>2
  <2> QED BY <1>1, <2>3, <2>4, <2>5, <2>7 DEF GreetInv, Runs
<1> QED
  <2>1. \/ /\ Messages!Goes(p, "start", "pass") /\ Tells(p, "hello") /\ local' = local
           /\ IF p > 0 THEN Messages!Receives(p, Messages!Previous(p), "can_print") ELSE Alone
        \/ /\ Messages!Goes(p, "pass", "ended") /\ output' = output /\ local' = local
           /\ Messages!Sends(p, Messages!Following(p), "can_print")
    BY DEF Messages!Greets, Messages!Says, Messages!Quietly, Messages!Computes,
       Messages!communication, Alone, Tells
  <2> QED BY <1>5, <1>6, <2>1, MessagesMoves

(* ping_pong_perfect: there is one ball, and one player who serves or to   *)
(* whom it flies.                                                          *)
PerfectPoints == {"start", "failed", "serve", "return"}
PerfectMail == {"ball"}

Rallies(first, second, to, fro) ==
  at[0] \in first /\ at[1] \in second /\ mail[0][1] = to /\ mail[1][0] = fro

PerfectInv(n) ==
  /\ Runs("ping_pong_perfect", n, PerfectPoints, PerfectMail, Nothing, Nothing)
  /\ \/ /\ n # 2 \/ ~input.proper
        /\ \A p \in Procs(n) : at[p] \in {"start", "failed"}
     \/ /\ n = 2 /\ input.proper
        /\ \/ Rallies({"start"}, {"start", "return"}, <<>>, <<>>)
           \/ Rallies({"serve"}, {"start", "return"}, <<>>, <<>>)
           \/ Rallies({"return"}, {"serve"}, <<>>, <<>>)
           \/ Rallies({"return"}, {"start", "return"}, <<"ball">>, <<>>)
           \/ Rallies({"return"}, {"return"}, <<>>, <<"ball">>)

(* A step of the endless game keeps its invariant.                         *)
LEMMA PerfectStep ==
  ASSUME NEW n, PerfectInv(n), NEW p \in Procs(n), Messages!PerfectGame(p),
         program' = program, input' = input
  PROVE  PerfectInv(n)'
<1>0. /\ Talks(n, PerfectMail, Nothing) /\ Stands(n, PerfectPoints, Nothing)
      /\ "ball" \in PerfectMail /\ PerfectPoints = {"start", "failed", "serve", "return"}
  BY DEF PerfectInv, Runs, PerfectMail, PerfectPoints
<1>1. /\ Runs("ping_pong_perfect", n, PerfectPoints, PerfectMail, Nothing, Nothing)
      /\ Messages!Count = n
  BY CountIs DEF PerfectInv
<1>2. CASE Messages!Refuses(p) /\ (n # 2 \/ ~input.proper)
  <2>1. Moves(p, "failed") /\ local' = local /\ Alone /\ output' = output
    BY <1>2, MessagesRefuse
  <2>2. /\ Talks(n, PerfectMail, Nothing)' /\ Stands(n, PerfectPoints, Nothing)'
        /\ at'[p] = "failed" /\ \A q \in Procs(n) : q # p => at'[q] = at[q]
    BY <1>0, <2>1, StaysAlone, StandsMoved
  <2> QED BY <1>1, <1>2, <2>2 DEF Runs, PerfectInv
<1>3. CASE Messages!PerfectStarts(p)
  <2> DEFINE to == IF p = 0 THEN "serve" ELSE "return"
  <2>a. /\ at[p] = "start" /\ Moves(p, to) /\ local' = local /\ Alone /\ output' = output
        /\ to \in PerfectPoints
    BY <1>0, <1>3, MessagesMoves DEF Messages!PerfectStarts, Messages!Quietly,
       Messages!Computes, Messages!communication, Alone
  <2>1. /\ at[p] = "start" /\ n = 2 /\ input.proper /\ Alone
    BY <1>0, <1>1, <1>3, MessagesMoves DEF Messages!PerfectStarts, Messages!Quietly,
       Messages!Computes, Messages!communication, Alone
  <2>2. (p = 0 /\ to = "serve") \/ (p = 1 /\ to = "return")
    BY <2>1 DEF Procs
  <2> HIDE DEF to
  <2>3. /\ Talks(n, PerfectMail, Nothing)' /\ Stands(n, PerfectPoints, Nothing)'
        /\ at'[p] = to /\ \A q \in Procs(n) : q # p => at'[q] = at[q]
    BY <1>0, <2>a, StaysAlone, StandsMoved
  <2>5. p = 1 => at'[0] = at[0]
    BY <2>1, <2>3 DEF Procs
  <2>6. p = 0 => at'[1] = at[1]
    BY <2>1, <2>3 DEF Procs
  <2> QED BY <1>1, <2>1, <2>2, <2>3, <2>5, <2>6 DEF Runs, PerfectInv, Rallies, Alone
<1>4. CASE /\ Messages!Goes(p, "serve", "return") /\ local' = local /\ output' = output
           /\ Messages!SendsSynchronously(p, 1 - p, "ball")
  <2>a. at[p] = "serve" /\ Moves(p, "return") /\ "return" \in PerfectPoints
    BY <1>0, <1>4, MessagesMoves
  <2>1. n = 2 /\ input.proper /\ at[p] = "serve" /\ Moves(p, "return")
    BY <1>4, MessagesMoves DEF PerfectInv
  <2> DEFINE q == 1 - p
  <2>2. q \in Procs(n) /\ Messages!SendsSynchronously(p, q, "ball") /\ ((p = 0 /\ q = 1) \/ (p = 1 /\ q = 0))
    BY <1>4, <2>1 DEF Procs
  <2> HIDE DEF q
  <2>3. /\ Talks(n, PerfectMail, Nothing)' /\ mail'[p][q] = Append(mail[p][q], "ball")
        /\ \A a, b \in Procs(n) : a # p \/ b # q => mail'[a][b] = mail[a][b]
    BY <1>0, <2>2, MessagesSend
  <2>4. /\ Stands(n, PerfectPoints, Nothing)'
        /\ at'[p] = "return" /\ \A a \in Procs(n) : a # p => at'[a] = at[a]
    BY <1>0, <1>4, <2>a, StandsMoved
  <2>5. mail'[q][p] = mail[q][p] /\ at'[q] = at[q]
    BY <2>2, <2>3, <2>4
  <2>6. mail[p][q] = <<>> => mail'[p][q] = <<"ball">>
    BY <2>3
  <2>7. \/ Rallies({"return"}, {"start", "return"}, <<"ball">>, <<>>)'
        \/ Rallies({"return"}, {"return"}, <<>>, <<"ball">>)'
    BY <2>1, <2>2, <2>4, <2>5, <2>6 DEF PerfectInv, Rallies
  <2> QED BY <1>1, <2>1, <2>3, <2>4, <2>7 DEF Runs, PerfectInv
<1>5. CASE /\ Messages!Goes(p, "return", "serve") /\ local' = local /\ output' = output
           /\ Messages!Receives(p, 1 - p, "ball")
  <2>a. at[p] = "return" /\ Moves(p, "serve") /\ "serve" \in PerfectPoints
    BY <1>0, <1>5, MessagesMoves
  <2>1. n = 2 /\ input.proper /\ at[p] = "return" /\ Moves(p, "serve")
    BY <1>5, MessagesMoves DEF PerfectInv
  <2> DEFINE q == 1 - p
  <2>2. q \in Procs(n) /\ Messages!Receives(p, q, "ball") /\ ((p = 0 /\ q = 1) \/ (p = 1 /\ q = 0))
    BY <1>5, <2>1 DEF Procs
  <2> HIDE DEF q
  <2>3. /\ Talks(n, PerfectMail, Nothing)' /\ mail[q][p] # <<>> /\ mail'[q][p] = Tail(mail[q][p])
        /\ \A a, b \in Procs(n) : a # q \/ b # p => mail'[a][b] = mail[a][b]
    BY <1>0, <2>2, MessagesReceive
  <2>4. /\ Stands(n, PerfectPoints, Nothing)'
        /\ at'[p] = "serve" /\ \A a \in Procs(n) : a # p => at'[a] = at[a]
    BY <1>0, <1>5, <2>a, StandsMoved
  <2>5. mail'[p][q] = mail[p][q] /\ at'[q] = at[q]
    BY <2>2, <2>3, <2>4
  <2>6. mail[q][p] = <<"ball">> => mail'[q][p] = <<>>
    BY <2>3
  <2>7. \/ Rallies({"serve"}, {"start", "return"}, <<>>, <<>>)'
        \/ Rallies({"return"}, {"serve"}, <<>>, <<>>)'
    BY <2>1, <2>2, <2>3, <2>4, <2>5, <2>6 DEF PerfectInv, Rallies
  <2> QED BY <1>1, <2>1, <2>3, <2>4, <2>7 DEF Runs, PerfectInv
<1> QED BY <1>1, <1>2, <1>3, <1>4, <1>5 DEF Messages!PerfectGame, Messages!Quietly

(* One ball, in the terms of the property.                                 *)
LEMMA OneBall ==
  ASSUME NEW n, PerfectInv(n), 0 \in Messages!Playing
  PROVE  Messages!Cardinality({p \in Messages!Processes : at[p] = "serve"})
           + Messages!Cardinality({p \in Messages!Processes :
                                     Messages!Count = 2 /\ mail[p][1 - p] # <<>>}) = 1
<1>1. /\ Messages!Processes = Procs(n) /\ Messages!Count = n
      /\ \A S : Messages!Cardinality(S) = Cardinality(S)
  BY CountIs, SameCounts DEF PerfectInv
<1>2. n = 2 /\ Procs(n) = {0, 1} /\ at[0] # "start" /\ at[0] # "failed"
  BY <1>1 DEF PerfectInv, Messages!Playing, Procs
<1> DEFINE serving == {p \in Procs(n) : at[p] = "serve"}
           flying == {p \in Procs(n) : n = 2 /\ mail[p][1 - p] # <<>>}
<1>3. /\ serving = (IF at[0] = "serve" THEN {0} ELSE {}) \cup (IF at[1] = "serve" THEN {1} ELSE {})
      /\ flying = (IF mail[0][1] # <<>> THEN {0} ELSE {}) \cup (IF mail[1][0] # <<>> THEN {1} ELSE {})
  BY <1>2
<1>4. \/ serving = {0} /\ flying = {}
      \/ serving = {1} /\ flying = {}
      \/ serving = {} /\ flying = {0}
      \/ serving = {} /\ flying = {1}
  <2> HIDE DEF serving, flying
  <2>1. \/ at[0] = "serve" /\ at[1] # "serve" /\ mail[0][1] = <<>> /\ mail[1][0] = <<>>
        \/ at[0] # "serve" /\ at[1] = "serve" /\ mail[0][1] = <<>> /\ mail[1][0] = <<>>
        \/ at[0] # "serve" /\ at[1] # "serve" /\ mail[0][1] # <<>> /\ mail[1][0] = <<>>
        \/ at[0] # "serve" /\ at[1] # "serve" /\ mail[0][1] = <<>> /\ mail[1][0] # <<>>
    <3>1. <<"ball">> # <<>> /\ at[0] \notin {"start", "failed"}
      BY <1>2 DEF Messages!Playing
    <3> QED BY <1>2, <3>1 DEF PerfectInv, Rallies
  <2> QED BY <1>3, <2>1
<1>5. Cardinality({0}) = 1 /\ Cardinality({1}) = 1 /\ Cardinality({}) = 0
  BY FS_Singleton, FS_EmptySet
<1> HIDE DEF serving, flying
<1>6. Cardinality(serving) + Cardinality(flying) = 1
  BY <1>4, <1>5
<1> QED BY <1>1, <1>6 DEF serving, flying

(* relay_race_dist: the runners of a team are T apart.                     *)
RelayPoints == {"start", "failed", "race", "run", "ended"}
RelayMail == {"baton"} \cup Nat
RelayCalls == {"barrier"}
RelayWords == [position : Nat, team : Nat]

Team(T, a, b) == a \in 1..T /\ b \in T + 1..2 * T /\ b = a + T

(* Who runs, or has run, does so after its teammate; what the referee has  *)
(* not received yet is the number of a team that is not placed.            *)
RelayRuns(T) ==
  /\ \A q \in 0..T : mail[q][0] = <<>>
  /\ \A b \in T + 1..2 * T : mail[b][0] = <<>> \/ (at[b] = "ended" /\ mail[b][0] = <<b - T>>)
  /\ \A a, b \in Int : Team(T, a, b) =>
       (mail[a][b] # <<>> \/ at[b] \in {"run", "ended"} => at[a] = "ended")

RelayPlaces(T) ==
  /\ Len(output) <= T
  /\ IF at[0] = "start" THEN Len(output) = 0 ELSE local[0].position = Len(output)
  /\ \A i \in 1..Len(output) : output[i].says.position = i /\ output[i].says.team \in 1..T
  /\ \A i \in 1..Len(output), b \in T + 1..2 * T :
       output[i].says.team = b - T => at[b] = "ended" /\ mail[b][0] = <<>>
  /\ \A i, j \in 1..Len(output) : output[i].says.team = output[j].says.team => i = j

RelayWill(n) == input.proper /\ n >= 3 /\ n % 2 = 1

RelayInv(n) ==
  /\ Runs("relay_race_dist", n, RelayPoints, RelayMail, RelayCalls, RelayWords)
  /\ ~RelayWill(n) => Len(output) = 0 /\ \A p \in Procs(n) : at[p] \in {"start", "failed"}
  /\ RelayWill(n) =>
       /\ \A p \in Procs(n) :
            at[p] # "failed" /\ (at[p] # "start" => local[p].position \in 0..(n - 1) \div 2)
       /\ RelayRuns((n - 1) \div 2) /\ RelayPlaces((n - 1) \div 2)

(* Teams of two and the referee: the number of processes is odd.           *)
LEMMA TeamsOf ==
  ASSUME NEW n \in Nat, n >= 3, n % 2 = 1
  PROVE  (n - 1) \div 2 \in Nat \ {0} /\ n = 2 * ((n - 1) \div 2) + 1
OBVIOUS

(* The start of the race, or of none.                                      *)
LEMMA RelayStarts ==
  ASSUME NEW n, RelayInv(n), NEW p \in Procs(n),
         program' = program, input' = input,
         Messages!RaceStarts(p) \/ Messages!RaceRefuses(p)
  PROVE  RelayInv(n)'
<1>0. /\ Talks(n, RelayMail, RelayCalls) /\ Stands(n, RelayPoints, RelayWords)
      /\ "barrier" \in RelayCalls /\ {"start", "failed", "race", "run", "ended"} = RelayPoints
  BY DEF RelayInv, Runs, RelayCalls, RelayPoints
<1>1. /\ Runs("relay_race_dist", n, RelayPoints, RelayMail, RelayCalls, RelayWords)
      /\ Messages!Count = n /\ Messages!Processes = Procs(n) /\ n \in Nat \ {0}
  BY CountIs DEF RelayInv, Runs
<1>2. CASE Messages!RaceRefuses(p)
  <2>1. Moves(p, "failed") /\ local' = local /\ Alone /\ output' = output
    BY <1>2, MessagesRefuse DEF Messages!RaceRefuses
  <2>2. ~RelayWill(n)
    <3>1. ~input.proper \/ n < 3 \/ n % 2 = 0
      BY <1>1, <1>2 DEF Messages!RaceRefuses
    <3> QED BY <1>1, <3>1 DEF RelayWill
  <2>3. /\ Talks(n, RelayMail, RelayCalls)' /\ Stands(n, RelayPoints, RelayWords)'
        /\ at'[p] = "failed" /\ \A q \in Procs(n) : q # p => at'[q] = at[q]
    BY <1>0, <2>1, StaysAlone, StandsMoved
  <2>4. Len(output') = 0 /\ \A q \in Procs(n) : at'[q] \in {"start", "failed"}
    BY <2>1, <2>2, <2>3 DEF RelayInv
  <2> QED BY <1>1, <2>2, <2>3, <2>4 DEF Runs, RelayInv, RelayWill
<1>3. CASE Messages!RaceStarts(p)
  <2>1. /\ at[p] = "start" /\ Moves(p, "race") /\ output' = output
        /\ Keeps(p, [position |-> 0]) /\ Messages!Meets(p)
    BY <1>3, MessagesMoves DEF Messages!RaceStarts, Messages!Quietly, Messages!Keep, Keeps
  <2>2. PICK others \in SUBSET Procs(n) : Calls(p, "barrier", others)
    <3>1. PICK others \in {Messages!Processes} : Calls(p, "barrier", others)
      BY <2>1 DEF Messages!Meets, Messages!Enters, Calls
    <3> QED BY <1>1, <3>1
  <2>3. RelayWill(n)
    BY <1>1, <1>3 DEF Messages!RaceStarts, RelayWill
  <2>4. Talks(n, RelayMail, RelayCalls)' /\ mail' = mail
    BY <1>0, <2>2, CallsTogether
  <2>5. /\ Stands(n, RelayPoints, RelayWords)'
        /\ at'[p] = "race" /\ \A q \in Procs(n) : q # p => at'[q] = at[q]
        /\ \A q \in Procs(n) : q # p => local'[q] = local[q]
    BY <1>0, <2>1, StandsMoved
  <2>6. local'[p].position = 0
    BY <1>0, <2>1, KeepsData
  <2> DEFINE T == (n - 1) \div 2
  <2>7. T \in Nat \ {0} /\ n = 2 * T + 1
    BY <1>1, <2>3, TeamsOf DEF RelayWill
  <2>8. /\ \A q \in Procs(n) : at[q] # "failed" /\ (at[q] # "start" => local[q].position \in 0..T)
        /\ RelayRuns(T) /\ RelayPlaces(T)
    BY <2>3 DEF RelayInv
  <2> HIDE DEF T
  <2>9. \A q \in Procs(n) : at'[q] # "failed" /\ (at'[q] # "start" => local'[q].position \in 0..T)
    BY <2>5, <2>6, <2>7, <2>8
  <2>10. \A q \in Int : q \in 0..T \/ q \in T + 1..2 * T => q \in Procs(n)
    BY <2>7 DEF Procs
  <2>11. RelayRuns(T)'
    <3>1. \A a, b \in Int : Team(T, a, b) => a \in Procs(n) /\ b \in Procs(n)
      BY <2>7 DEF Team, Procs
    <3> QED BY <2>1, <2>4, <2>5, <2>8, <2>10, <3>1 DEF RelayRuns
  <2>12. RelayPlaces(T)'
    <3>1. 0 \in Procs(n) /\ (p # 0 => at'[0] = at[0] /\ local'[0] = local[0])
      BY <2>5, <2>7 DEF Procs
    <3>2. \A b \in T + 1..2 * T : at[b] = "ended" => at'[b] = "ended"
      BY <2>1, <2>5, <2>10
    <3>3. IF at'[0] = "start" THEN Len(output') = 0 ELSE local'[0].position = Len(output')
      BY <2>1, <2>5, <2>6, <2>8, <3>1 DEF RelayPlaces
    <3> QED BY <2>1, <2>4, <2>8, <3>2, <3>3 DEF RelayPlaces
  <2>13. RelayInv(n)'
    <3>1. Runs("relay_race_dist", n, RelayPoints, RelayMail, RelayCalls, RelayWords)'
      BY <1>1, <2>4, <2>5 DEF Runs
    <3>2. RelayWill(n)'
      BY <2>3 DEF RelayWill
    <3> QED BY <3>1, <3>2, <2>9, <2>11, <2>12 DEF RelayInv, T
  <2> QED BY <2>13
<1> QED BY <1>2, <1>3

(* The first runners pass the baton on, the second ones take it and tell   *)
(* the referee, who places one team after the other.                       *)
LEMMA RelayStep ==
  ASSUME NEW n, RelayInv(n), NEW p \in Procs(n), Messages!Relay(p),
         program' = program, input' = input
  PROVE  RelayInv(n)'
<1>0. /\ Talks(n, RelayMail, RelayCalls) /\ Stands(n, RelayPoints, RelayWords)
      /\ {"start", "failed", "race", "run", "ended"} = RelayPoints
  BY DEF RelayInv, Runs, RelayPoints
<1>1. /\ Runs("relay_race_dist", n, RelayPoints, RelayMail, RelayCalls, RelayWords)
      /\ Messages!Count = n /\ Messages!Processes = Procs(n) /\ n \in Nat \ {0}
  BY CountIs DEF RelayInv, Runs
<1>2. CASE Messages!RaceStarts(p) \/ Messages!RaceRefuses(p)
  BY <1>2, RelayStarts
<1> SUFFICES ASSUME at[p] \in {"race", "run"},
                    Messages!etapa_1(p) \/ Messages!etapa_2(p) \/ Messages!referee(p)
             PROVE  RelayInv(n)'
  BY <1>2 DEF Messages!Relay
<1>3. RelayWill(n)
  BY DEF RelayInv
<1> DEFINE T == (n - 1) \div 2
<1>4. T \in Nat \ {0} /\ n = 2 * T + 1
  BY <1>1, <1>3, TeamsOf DEF RelayWill
<1>5. /\ \A q \in Procs(n) : at[q] # "failed" /\ (at[q] # "start" => local[q].position \in 0..T)
      /\ RelayRuns(T) /\ RelayPlaces(T)
  BY <1>3 DEF RelayInv
<1>6. Messages!Teams = T /\ Messages!Teammate(p) = p - T
  BY <1>1 DEF Messages!Teams, Messages!Teammate
<1>7. ASSUME Talks(n, RelayMail, RelayCalls)', Stands(n, RelayPoints, RelayWords)',
             \A q \in Procs(n) : at'[q] # "failed" /\ (at'[q] # "start" => local'[q].position \in 0..T),
             RelayRuns(T)', RelayPlaces(T)'
      PROVE  RelayInv(n)'
  <2>1. Runs("relay_race_dist", n, RelayPoints, RelayMail, RelayCalls, RelayWords)'
    BY <1>1, <1>7 DEF Runs
  <2>2. RelayWill(n)'
    BY <1>3 DEF RelayWill
  <2> QED BY <2>1, <2>2, <1>7 DEF RelayInv
<1> HIDE DEF T
<1>8. /\ \A q \in Int : q \in 0..T \/ q \in T + 1..2 * T => q \in Procs(n)
      /\ 0 \in Procs(n) /\ p \in Int
      /\ \A a, b \in Int : Team(T, a, b) => a \in Procs(n) /\ b \in Procs(n) /\ a # b /\ b # 0
  BY <1>4 DEF Procs, Team
<1>9. CASE /\ p \in 1..T /\ Messages!Goes(p, "race", "ended") /\ local' = local /\ output' = output
           /\ Messages!Sends(p, p + T, "baton")
  <2> DEFINE b == p + T
  <2>1. Team(T, p, b) /\ b \in Procs(n) /\ b # 0 /\ Messages!Sends(p, b, "baton")
    BY <1>4, <1>8, <1>9 DEF Team
  <2> HIDE DEF b
  <2>2. /\ at[p] = "race" /\ Moves(p, "ended") /\ "ended" \in RelayPoints /\ "baton" \in RelayMail
    BY <1>0, <1>9, MessagesMoves DEF RelayMail
  <2>3. /\ Talks(n, RelayMail, RelayCalls)'
        /\ \A x, y \in Procs(n) : x # p \/ y # b => mail'[x][y] = mail[x][y]
    BY <1>0, <2>1, <2>2, MessagesSend
  <2>4. /\ Stands(n, RelayPoints, RelayWords)' /\ at'[p] = "ended"
        /\ \A q \in Procs(n) : q # p => at'[q] = at[q]
    BY <1>0, <1>9, <2>2, StandsMoved
  <2>5. \A x \in Procs(n) : mail'[x][0] = mail[x][0]
    BY <1>8, <2>1, <2>3
  <2>6. RelayRuns(T)'
    <3>1. /\ \A q \in 0..T : mail'[q][0] = <<>>
          /\ \A c \in T + 1..2 * T :
               mail'[c][0] = <<>> \/ (at'[c] = "ended" /\ mail'[c][0] = <<c - T>>)
      BY <1>5, <1>8, <2>2, <2>4, <2>5 DEF RelayRuns
    <3>2. ASSUME NEW a \in Int, NEW c \in Int, Team(T, a, c),
                 mail'[a][c] # <<>> \/ at'[c] \in {"run", "ended"}
          PROVE  at'[a] = "ended"
      <4>1. CASE a = p
        BY <2>4, <4>1
      <4>2. CASE a # p
        <5>1. a \in Procs(n) /\ c \in Procs(n) /\ at'[a] = at[a] /\ mail'[a][c] = mail[a][c]
          BY <1>8, <2>3, <2>4, <3>2, <4>2
        <5>2. c # p
          BY <1>9, <3>2, <1>4 DEF Team
        <5> QED BY <1>5, <2>4, <3>2, <5>1, <5>2 DEF RelayRuns
      <4> QED BY <4>1, <4>2
    <3> QED BY <3>1, <3>2 DEF RelayRuns
  <2>7. RelayPlaces(T)'
    <3>1. at'[0] = at[0] /\ \A c \in T + 1..2 * T : at[c] = "ended" => at'[c] = "ended"
      BY <1>4, <1>8, <1>9, <2>4
    <3> QED BY <1>5, <1>8, <1>9, <2>5, <3>1 DEF RelayPlaces
  <2> QED BY <1>5, <1>7, <1>9, <2>2, <2>3, <2>4, <2>6, <2>7
<1>10. CASE /\ p > T /\ Messages!Goes(p, "race", "run") /\ local' = local /\ output' = output
            /\ Messages!Receives(p, p - T, "baton")
  <2> DEFINE a == p - T
  <2>1. Team(T, a, p) /\ a \in Procs(n) /\ a \in 1..T /\ Messages!Receives(p, a, "baton")
    BY <1>4, <1>8, <1>10 DEF Team, Procs
  <2> HIDE DEF a
  <2>2. /\ at[p] = "race" /\ Moves(p, "run") /\ "run" \in RelayPoints
    BY <1>0, <1>10, MessagesMoves
  <2>3. /\ Talks(n, RelayMail, RelayCalls)' /\ mail[a][p] # <<>>
        /\ \A x, y \in Procs(n) : x # a \/ y # p => mail'[x][y] = mail[x][y]
    BY <1>0, <2>1, <2>2, MessagesReceive
  <2>4. /\ Stands(n, RelayPoints, RelayWords)' /\ at'[p] = "run"
        /\ \A q \in Procs(n) : q # p => at'[q] = at[q]
    BY <1>0, <1>10, <2>2, StandsMoved
  <2>5. \A x \in Procs(n) : mail'[x][0] = mail[x][0]
    BY <1>8, <2>1, <2>3 DEF Team
  <2>6. RelayRuns(T)'
    <3>1. /\ \A q \in 0..T : mail'[q][0] = <<>>
          /\ \A c \in T + 1..2 * T :
               mail'[c][0] = <<>> \/ (at'[c] = "ended" /\ mail'[c][0] = <<c - T>>)
      BY <1>5, <1>8, <2>2, <2>4, <2>5 DEF RelayRuns
    <3>2. ASSUME NEW x \in Int, NEW c \in Int, Team(T, x, c),
                 mail'[x][c] # <<>> \/ at'[c] \in {"run", "ended"}
          PROVE  at'[x] = "ended"
      <4>0. x # p
        BY <1>4, <1>10, <3>2 DEF Team
      <4>1. CASE c = p
        <5>1. x = a
          BY <1>4, <2>1, <3>2, <4>1 DEF Team
        <5> QED BY <1>5, <1>8, <2>1, <2>3, <2>4, <4>0, <5>1 DEF RelayRuns
      <4>2. CASE c # p
        <5>1. x \in Procs(n) /\ c \in Procs(n) /\ at'[x] = at[x] /\ mail'[x][c] = mail[x][c]
          BY <1>8, <2>3, <2>4, <3>2, <4>0, <4>2
        <5> QED BY <1>5, <2>4, <3>2, <4>2, <5>1 DEF RelayRuns
      <4> QED BY <4>1, <4>2
    <3> QED BY <3>1, <3>2 DEF RelayRuns
  <2>7. RelayPlaces(T)'
    <3>1. at'[0] = at[0] /\ \A c \in T + 1..2 * T : at[c] = "ended" => at'[c] = "ended"
      BY <1>4, <1>8, <1>10, <2>2, <2>4
    <3> QED BY <1>5, <1>8, <1>10, <2>5, <3>1 DEF RelayPlaces
  <2> QED BY <1>5, <1>7, <1>10, <2>2, <2>3, <2>4, <2>6, <2>7
<1>11. CASE /\ p > T /\ Messages!Goes(p, "run", "ended") /\ local' = local /\ output' = output
            /\ Messages!Sends(p, 0, p - T)
  <2> DEFINE t == p - T
  <2>1. p \in T + 1..2 * T /\ t \in 1..T /\ Messages!Sends(p, 0, t)
    BY <1>4, <1>8, <1>11 DEF Team, Procs
  <2>a. t = p - T
    OBVIOUS
  <2> HIDE DEF t
  <2>2. /\ at[p] = "run" /\ Moves(p, "ended") /\ "ended" \in RelayPoints /\ t \in RelayMail
    BY <1>0, <1>11, <2>1, MessagesMoves DEF RelayMail
  <2>z. 0 \in Procs(n)
    BY <1>8
  <2>3. /\ Talks(n, RelayMail, RelayCalls)' /\ mail'[p][0] = Append(mail[p][0], t)
        /\ \A x, y \in Procs(n) : x # p \/ y # 0 => mail'[x][y] = mail[x][y]
    <3>1. PICK zero : zero = 0
      OBVIOUS
    <3>2. zero \in Procs(n) /\ Messages!Sends(p, zero, t) /\ t \in RelayMail
      BY <2>1, <2>2, <2>z, <3>1
    <3>3. /\ Talks(n, RelayMail, RelayCalls)' /\ mail'[p][zero] = Append(mail[p][zero], t)
          /\ \A x, y \in Procs(n) : x # p \/ y # zero => mail'[x][y] = mail[x][y]
      BY <1>0, <3>2, MessagesSend
    <3> QED BY <3>1, <3>3
  <2>4. /\ Stands(n, RelayPoints, RelayWords)' /\ at'[p] = "ended"
        /\ \A q \in Procs(n) : q # p => at'[q] = at[q]
    BY <1>0, <1>11, <2>2, StandsMoved
  <2>5. \A x \in Procs(n) : x # p => mail'[x][0] = mail[x][0]
    BY <1>8, <2>1, <2>3
  <2>6. mail'[p][0] = <<t>>
    <3>1. mail[p][0] = <<>>
      BY <1>5, <2>1, <2>2 DEF RelayRuns
    <3> QED BY <2>3, <3>1
  <2>7. RelayRuns(T)'
    <3>1. \A q \in 0..T : mail'[q][0] = <<>>
      BY <1>4, <1>5, <1>8, <2>1, <2>5 DEF RelayRuns
    <3>2. ASSUME NEW c \in T + 1..2 * T
          PROVE  mail'[c][0] = <<>> \/ (at'[c] = "ended" /\ mail'[c][0] = <<c - T>>)
      <4>1. CASE c = p
        BY <2>a, <2>4, <2>6, <4>1
      <4>2. CASE c # p
        BY <1>5, <1>8, <2>4, <2>5, <4>2 DEF RelayRuns
      <4> QED BY <4>1, <4>2
    <3>3. ASSUME NEW x \in Int, NEW c \in Int, Team(T, x, c),
                 mail'[x][c] # <<>> \/ at'[c] \in {"run", "ended"}
          PROVE  at'[x] = "ended"
      <4>0. x # p /\ x \in Procs(n) /\ c \in Procs(n) /\ c # 0
        BY <1>4, <1>8, <1>11, <3>3 DEF Team
      <4>1. at'[x] = at[x] /\ mail'[x][c] = mail[x][c] /\ (at'[c] \in {"run", "ended"} => at[c] \in {"run", "ended"})
        BY <2>2, <2>3, <2>4, <4>0
      <4> QED BY <1>5, <3>3, <4>1 DEF RelayRuns
    <3> QED BY <3>1, <3>2, <3>3 DEF RelayRuns
  <2>8. RelayPlaces(T)'
    <3>1. at'[0] = at[0] /\ \A c \in T + 1..2 * T : at[c] = "ended" => at'[c] = "ended" /\ c # p
      BY <1>4, <1>8, <1>11, <2>2, <2>4
    <3>2. ASSUME NEW i \in 1..Len(output'), NEW c \in T + 1..2 * T,
                 output'[i].says.team = c - T
          PROVE  at'[c] = "ended" /\ mail'[c][0] = <<>>
      <4>1. at[c] = "ended" /\ mail[c][0] = <<>>
        BY <1>5, <1>11, <3>2 DEF RelayPlaces
      <4> QED BY <1>8, <2>5, <3>1, <4>1
    <3> QED BY <1>5, <1>11, <3>1, <3>2 DEF RelayPlaces
  <2> QED BY <1>5, <1>7, <1>11, <2>2, <2>3, <2>4, <2>7, <2>8
<1>12. ASSUME p = 0, Messages!Goes(p, "race", "race"), local[p].position < T,
              NEW q \in Procs(n), NEW team, Messages!Receives(p, q, team),
              Keeps(p, [position |-> local[p].position + 1]),
              Tells(p, [position |-> local[p].position + 1, team |-> team])
       PROVE  RelayInv(n)'
  <2> DEFINE place == local[p].position + 1
             word == [position |-> place, team |-> team]
  <2>1. at[p] = "race" /\ Moves(p, "race") /\ "race" \in RelayPoints
    BY <1>0, <1>12, MessagesMoves
  <2>2. Len(output) \in Nat /\ place = Len(output) + 1 /\ place \in 1..T
    <3>1. Len(output) \in Nat
      BY <1>1, RunsTypes
    <3>2. local[0].position = Len(output) /\ Len(output) < T
      BY <1>5, <1>12, <2>1 DEF RelayPlaces
    <3> QED BY <1>4, <1>12, <3>1, <3>2
  <2> HIDE DEF place
  <2>3. /\ Talks(n, RelayMail, RelayCalls)' /\ mail[q][p] # <<>> /\ team = mail[q][p][1]
        /\ mail'[q][p] = Tail(mail[q][p])
        /\ \A x, y \in Procs(n) : x # q \/ y # p => mail'[x][y] = mail[x][y]
    <3>1. Messages!Receives(p, q, team)
      BY <1>12
    <3> QED BY <1>0, <3>1, MessagesReceive
  <2>4. /\ q \in T + 1..2 * T /\ at[q] = "ended" /\ mail[q][0] = <<q - T>>
        /\ team = q - T /\ mail'[q][0] = <<>> /\ team \in 1..T
    <3>1. mail[q][0] # <<>>
      BY <1>12, <2>3
    <3>2. q \in T + 1..2 * T
      <4>1. q \notin 0..T
        BY <1>5, <3>1 DEF RelayRuns
      <4> QED BY <1>4, <4>1 DEF Procs
    <3>3. at[q] = "ended" /\ mail[q][0] = <<q - T>>
      BY <1>5, <3>1, <3>2 DEF RelayRuns
    <3>4. team = q - T /\ mail'[q][0] = <<>>
      BY <1>12, <2>3, <3>3
    <3>5. team \in 1..T
      BY <1>4, <3>2, <3>4
    <3> QED BY <3>2, <3>3, <3>4, <3>5
  <2>5. word \in RelayWords
    BY <2>2, <2>4 DEF RelayWords
  <2>6. Keeps(p, [position |-> place]) /\ Tells(p, word)
    BY <1>12 DEF place
  <2>7. word.position = place /\ word.team = team
    OBVIOUS
  <2> HIDE DEF word
  <2>8. /\ Stands(n, RelayPoints, RelayWords)' /\ at'[p] = "race"
        /\ \A x \in Procs(n) : x # p => at'[x] = at[x] /\ local'[x] = local[x]
        /\ local'[p].position = place
    <3>1. /\ Stands(n, RelayPoints, RelayWords)' /\ at'[p] = "race"
          /\ \A x \in Procs(n) : x # p => at'[x] = at[x]
          /\ \A x \in Procs(n) : x # p => local'[x] = local[x]
      BY <1>0, <2>1, <2>5, <2>6, StandsMoved
    <3>2. local'[p] = [position |-> place]
      BY <1>0, <2>6, KeepsData
    <3> QED BY <3>1, <3>2
  <2>9. /\ Len(output') = Len(output) + 1 /\ output'[Len(output) + 1] = [by |-> p, says |-> word]
        /\ \A i \in 1..Len(output) : output'[i] = output[i]
    BY <1>0, <2>5, <2>6, TellsMore
  <2>10. \A x \in Procs(n) : at'[x] = at[x] /\ (x # q => mail'[x][0] = mail[x][0])
    BY <1>8, <1>12, <2>1, <2>3, <2>8
  <2>11. RelayRuns(T)'
    <3>1. \A x \in 0..T : mail'[x][0] = <<>>
      BY <1>5, <1>8, <2>4, <2>10 DEF RelayRuns
    <3>2. ASSUME NEW c \in T + 1..2 * T
          PROVE  mail'[c][0] = <<>> \/ (at'[c] = "ended" /\ mail'[c][0] = <<c - T>>)
      BY <1>5, <1>8, <2>4, <2>10 DEF RelayRuns
    <3>3. ASSUME NEW x \in Int, NEW c \in Int, Team(T, x, c),
                 mail'[x][c] # <<>> \/ at'[c] \in {"run", "ended"}
          PROVE  at'[x] = "ended"
      <4>1. x \in Procs(n) /\ c \in Procs(n) /\ c # p
        BY <1>8, <1>12, <3>3
      <4>2. mail'[x][c] = mail[x][c] /\ at'[x] = at[x] /\ at'[c] = at[c]
        BY <2>3, <2>10, <4>1
      <4> QED BY <1>5, <3>3, <4>2 DEF RelayRuns
    <3> QED BY <3>1, <3>2, <3>3 DEF RelayRuns
  <2>12. \A i \in 1..Len(output) : output[i].says.team # team
    <3>1. <<q - T>> # <<>>
      OBVIOUS
    <3> QED BY <1>5, <2>4, <3>1 DEF RelayPlaces
  <2>13. /\ output'[place].says = word /\ Len(output') = place
         /\ \A i \in 1..place : i # place => i \in 1..Len(output) /\ output'[i] = output[i]
    BY <2>2, <2>9
  <2>14. RelayPlaces(T)'
    <3>1. at'[0] = "race" /\ local'[0].position = place /\ Len(output') <= T
      BY <1>12, <2>2, <2>8, <2>13
    <3>2. ASSUME NEW i \in 1..place
          PROVE  output'[i].says.position = i /\ output'[i].says.team \in 1..T
      BY <1>5, <2>4, <2>7, <2>13 DEF RelayPlaces
    <3>3. ASSUME NEW i \in 1..place, NEW c \in T + 1..2 * T, output'[i].says.team = c - T
          PROVE  at'[c] = "ended" /\ mail'[c][0] = <<>>
      <4>1. CASE i = place
        <5>1. c = q
          BY <1>4, <2>4, <2>7, <2>13, <3>3, <4>1
        <5> QED BY <1>8, <2>4, <2>10, <5>1
      <4>2. CASE i # place
        <5>1. at[c] = "ended" /\ mail[c][0] = <<>>
          BY <1>5, <2>13, <3>3, <4>2 DEF RelayPlaces
        <5> QED BY <1>8, <2>4, <2>10, <5>1
      <4> QED BY <4>1, <4>2
    <3>4. ASSUME NEW i \in 1..place, NEW j \in 1..place, output'[i].says.team = output'[j].says.team
          PROVE  i = j
      BY <1>5, <2>7, <2>12, <2>13, <3>4 DEF RelayPlaces
    <3> QED BY <2>13, <3>1, <3>2, <3>3, <3>4 DEF RelayPlaces
  <2>15. \A x \in Procs(n) : at'[x] # "failed" /\ (at'[x] # "start" => local'[x].position \in 0..T)
    BY <1>5, <2>2, <2>8, <2>10
  <2> QED BY <1>7, <2>3, <2>8, <2>11, <2>14, <2>15
<1>13. CASE p = 0 /\ Messages!Goes(p, "race", "ended") /\ local' = local /\ output' = output /\ Alone
  <2>1. at[p] = "race" /\ Moves(p, "ended") /\ "ended" \in RelayPoints
    BY <1>0, <1>13, MessagesMoves
  <2>2. /\ Talks(n, RelayMail, RelayCalls)' /\ Stands(n, RelayPoints, RelayWords)'
        /\ at'[p] = "ended" /\ \A q \in Procs(n) : q # p => at'[q] = at[q]
    BY <1>0, <1>13, <2>1, StaysAlone, StandsMoved
  <2>3. /\ \A c \in T + 1..2 * T : c \in Procs(n) /\ at'[c] = at[c]
        /\ at'[0] = "ended" /\ at[0] = "race"
    BY <1>4, <1>8, <1>13, <2>1, <2>2
  <2>4. \A a, b \in Int : Team(T, a, b) => at'[a] = at[a] /\ at'[b] = at[b]
    BY <1>4, <1>8, <1>13, <2>2 DEF Team
  <2>5. RelayRuns(T)' /\ RelayPlaces(T)'
    BY <1>5, <1>13, <2>3, <2>4 DEF RelayRuns, RelayPlaces, Alone
  <2> QED BY <1>5, <1>7, <1>13, <2>1, <2>2, <2>5
<1> QED
  <2>1. CASE Messages!etapa_1(p)
    BY <1>6, <1>9, <2>1 DEF Messages!etapa_1, Messages!Quietly
  <2>2. CASE Messages!etapa_2(p)
    BY <1>6, <1>10, <1>11, <2>2 DEF Messages!etapa_2, Messages!Quietly
  <2>3. CASE Messages!referee(p)
    BY <1>1, <1>6, <1>12, <1>13, <2>3 DEF Messages!referee, Messages!Quietly, Messages!Computes,
       Messages!communication, Alone, Messages!Keep, Keeps, Messages!Says, Tells
  <2> QED BY <2>1, <2>2, <2>3

(* ring: Behind(p, k) is k places before p, and RingSum the sum of the     *)
(* numbers of p and of the j processes before it.  A process sums up the   *)
(* numbers of as many processes as it has received sums.                   *)
RingPoints == {"start", "failed", "send", "receive", "report", "ended"}
RingRecord == [number : Int, sum : Int, i : 0..4]

Behind(p, k) == IF p >= k THEN p - k ELSE (p - k) + 4
RingSum(num, p, j) ==
  num[p] + (IF j >= 1 THEN num[Behind(p, 1)] ELSE 0)
         + (IF j >= 2 THEN num[Behind(p, 2)] ELSE 0)
         + (IF j >= 3 THEN num[Behind(p, 3)] ELSE 0)

Sent(p) == IF at[p] = "start" THEN 0 ELSE local[p].i
Got(p) == IF at[p] = "start" THEN 0
          ELSE IF at[p] = "send" THEN local[p].i
          ELSE IF at[p] = "receive" THEN local[p].i - 1 ELSE 3

RingData(num, p) ==
  /\ at[p] # "failed"
  /\ at[p] # "start" =>
       /\ local[p] \in RingRecord /\ local[p].number = num[p]
       /\ local[p].sum = RingSum(num, p, Got(p))
       /\ at[p] = "send" => local[p].i <= 3
       /\ at[p] = "receive" => local[p].i \in 1..3
       /\ at[p] \in {"report", "ended"} => local[p].i = 4
       /\ \A k \in 0..Got(p) : at[Behind(p, k)] # "start"

RingMail(num, p) ==
  LET q == Behind(p, 1) IN
  /\ Len(mail[q][p]) = Sent(q) - Got(p)
  /\ \A k \in 1..Len(mail[q][p]) : mail[q][p][k] = RingSum(num, q, (Got(p) + k) - 1)

RingGoes(num) == \A p \in 0..3 : RingData(num, p) /\ RingMail(num, p)

RingInv(n) ==
  /\ Runs("ring", n, RingPoints, Int, Nothing, Nothing)
  /\ n # 4 => \A p \in Procs(n) : at[p] \in {"start", "failed"}
  /\ n = 4 => \E num \in [0..3 -> Int] : RingGoes(num)

(* What there is to know of places and sums.                               *)
LEMMA RingPlaces ==
  /\ \A p, k \in 0..3 : Behind(p, k) \in 0..3
  /\ \A p \in 0..3 : Behind(p, 0) = p /\ Behind(p, 1) # p
  /\ \A p \in 0..3, k \in 1..3 : Behind(p, k) = Behind(Behind(p, 1), k - 1)
  /\ \A p \in 0..3 : Behind(IF p = 3 THEN 0 ELSE p + 1, 1) = p
  /\ \A p \in 0..3 : Behind(p, 1) = IF p = 0 THEN 3 ELSE p - 1
  /\ \A p, q \in 0..3 : Behind(p, 1) = Behind(q, 1) => p = q
<1>1. \A p, k \in 0..3 : Behind(p, k) \in 0..3
  BY DEF Behind
<1>2. \A p \in 0..3 : Behind(p, 0) = p /\ Behind(p, 1) # p
  BY DEF Behind
<1>3. \A p \in 0..3, k \in 1..3 : Behind(p, k) = Behind(Behind(p, 1), k - 1)
  BY DEF Behind
<1>4. \A p \in 0..3 : Behind(IF p = 3 THEN 0 ELSE p + 1, 1) = p
  BY DEF Behind
<1>5. \A p \in 0..3 : Behind(p, 1) = IF p = 0 THEN 3 ELSE p - 1
  BY DEF Behind
<1>6. \A p, q \in 0..3 : Behind(p, 1) = Behind(q, 1) => p = q
  BY <1>5
<1> QED BY <1>1, <1>2, <1>3, <1>4, <1>5, <1>6

(* The partial sums of the ring are integers, one number longer at every   *)
(* pass.                                                                   *)
LEMMA RingSums ==
  ASSUME NEW num \in [0..3 -> Int]
  PROVE  /\ \A p, j \in 0..3 : RingSum(num, p, j) \in Int
         /\ \A p \in 0..3 : RingSum(num, p, 0) = num[p]
         /\ \A p \in 0..3, j \in 0..2 : RingSum(num, p, j + 1) = RingSum(num, Behind(p, 1), j) + num[p]
<1>1. ASSUME NEW p \in 0..3, NEW j \in 0..3 PROVE RingSum(num, p, j) \in Int
  <2>1. Behind(p, 1) \in 0..3 /\ Behind(p, 2) \in 0..3 /\ Behind(p, 3) \in 0..3
    BY DEF Behind
  <2> QED BY <2>1 DEF RingSum
<1>2. ASSUME NEW p \in 0..3 PROVE RingSum(num, p, 0) = num[p]
  BY DEF RingSum
<1>3. ASSUME NEW p \in 0..3, NEW j \in 0..2
      PROVE  RingSum(num, p, j + 1) = RingSum(num, Behind(p, 1), j) + num[p]
  <2> DEFINE q == Behind(p, 1)
  <2>1. /\ q \in 0..3 /\ Behind(q, 1) = Behind(p, 2) /\ Behind(q, 2) = Behind(p, 3)
        /\ Behind(p, 2) \in 0..3 /\ Behind(p, 3) \in 0..3
    BY DEF Behind
  <2> HIDE DEF q
  <2>2. PICK a, b, c, d \in Int : a = num[p] /\ b = num[q] /\ c = num[Behind(p, 2)] /\ d = num[Behind(p, 3)]
    BY <2>1
  <2>3. RingSum(num, p, j + 1) =
          a + b + (IF j + 1 >= 2 THEN c ELSE 0) + (IF j + 1 >= 3 THEN d ELSE 0)
    BY <2>2 DEF RingSum, q
  <2>4. RingSum(num, q, j) = b + (IF j >= 1 THEN c ELSE 0) + (IF j >= 2 THEN d ELSE 0)
    BY <2>1, <2>2 DEF RingSum
  <2> QED BY <2>2, <2>3, <2>4 DEF q
<1> QED BY <1>1, <1>2, <1>3

(* A sum does not change with a number that is not in it.                  *)
LEMMA RingSumStays ==
  ASSUME NEW num \in [0..3 -> Int], NEW new \in [0..3 -> Int], NEW x \in 0..3,
         \A p \in 0..3 : p # x => new[p] = num[p],
         NEW p \in 0..3, NEW j \in 0..3, \A k \in 0..j : Behind(p, k) # x
  PROVE  RingSum(new, p, j) = RingSum(num, p, j)
<1>1. /\ Behind(p, 0) = p /\ Behind(p, 1) \in 0..3 /\ Behind(p, 2) \in 0..3 /\ Behind(p, 3) \in 0..3
  BY DEF Behind
<1>2. /\ new[p] = num[p]
      /\ j >= 1 => new[Behind(p, 1)] = num[Behind(p, 1)]
      /\ j >= 2 => new[Behind(p, 2)] = num[Behind(p, 2)]
      /\ j >= 3 => new[Behind(p, 3)] = num[Behind(p, 3)]
  BY <1>1
<1> QED BY <1>2 DEF RingSum

(* How many have been sent, and received.                                  *)
LEMMA RingCounts ==
  ASSUME NEW num, RingGoes(num)
  PROVE  /\ \A p \in 0..3 : Got(p) \in 0..3 /\ Sent(p) \in 0..4 /\ Sent(p) <= Got(p) + 1
         /\ \A p \in 0..3 : at[p] = "start" => Sent(p) = 0 /\ Got(p) = 0
         /\ \A p \in 0..3 : at[p] = "send" => Sent(p) = Got(p)
<1> SUFFICES ASSUME NEW p \in 0..3
             PROVE  /\ Got(p) \in 0..3 /\ Sent(p) \in 0..4 /\ Sent(p) <= Got(p) + 1
                    /\ at[p] = "start" => Sent(p) = 0 /\ Got(p) = 0
                    /\ at[p] = "send" => Sent(p) = Got(p)
  OBVIOUS
<1>1. RingData(num, p)
  BY DEF RingGoes
<1>2. CASE at[p] = "start"
  BY <1>2 DEF Got, Sent
<1>3. CASE at[p] # "start"
  <2>1. local[p].i \in 0..4
    BY <1>1, <1>3 DEF RingData, RingRecord
  <2>2. CASE at[p] = "send"
    BY <1>1, <1>3, <2>1, <2>2 DEF RingData, Got, Sent
  <2>3. CASE at[p] = "receive"
    BY <1>1, <1>3, <2>1, <2>3 DEF RingData, Got, Sent
  <2>4. CASE at[p] \notin {"send", "receive"}
    BY <1>1, <1>3, <2>1, <2>4 DEF RingData, Got, Sent
  <2> QED BY <2>2, <2>3, <2>4
<1> QED BY <1>2, <1>3

(* A process draws its number: no sum has it yet.                          *)
LEMMA RingDraw ==
  ASSUME NEW num \in [0..3 -> Int], RingGoes(num), NEW x \in 0..3, NEW number \in Int,
         at[x] = "start", at'[x] = "send", \A p \in 0..3 : p # x => at'[p] = at[p] /\ local'[p] = local[p],
         local'[x] = [number |-> number, sum |-> number, i |-> 0], mail' = mail
  PROVE  RingGoes([num EXCEPT ![x] = number])'
<1> DEFINE new == [num EXCEPT ![x] = number]
<1>1. new \in [0..3 -> Int] /\ new[x] = number /\ \A p \in 0..3 : p # x => new[p] = num[p]
  OBVIOUS
<1> HIDE DEF new
<1>2. \A p \in 0..3 : RingData(num, p) /\ RingMail(num, p)
  BY DEF RingGoes
<1>3. /\ \A p \in 0..3 : Got(p) \in 0..3 /\ Sent(p) \in 0..4 /\ Sent(p) <= Got(p) + 1
      /\ \A p \in 0..3 : at[p] = "start" => Sent(p) = 0 /\ Got(p) = 0
  BY RingCounts
<1>4. \A p \in 0..3 : Got(p)' = Got(p) /\ Sent(p)' = Sent(p)
  BY <1>3 DEF Got, Sent
<1>5. \A p \in 0..3 : at[p] # "start" => at'[p] # "start" /\ at'[p] = at[p] /\ local'[p] = local[p] /\ p # x
  OBVIOUS
<1>6. ASSUME NEW p \in 0..3, at[p] # "start", NEW j \in 0..Got(p)
      PROVE  RingSum(new, p, j) = RingSum(num, p, j)
  <2>1. j \in 0..3 /\ \A k \in 0..j : k \in 0..Got(p) /\ Behind(p, k) # x
    BY <1>2, <1>3, <1>6 DEF RingData
  <2> QED BY <1>1, <2>1, RingSumStays
<1>7. ASSUME NEW p \in 0..3 PROVE RingData(new, p)'
  <2>1. CASE p = x
    <3>1. \A k \in 0..0 : Behind(p, k) = x
      BY <2>1, RingPlaces
    <3>2. RingSum(new, x, 0) = number
      BY <1>1, RingSums
    <3>3. Got(x)' = 0
      BY <1>3, <1>4
    <3>4. local'[x] \in RingRecord /\ local'[x].number = number /\ local'[x].sum = number /\ local'[x].i = 0
      BY DEF RingRecord
    <3> HIDE DEF Got
    <3> QED BY <1>1, <2>1, <3>1, <3>2, <3>3, <3>4 DEF RingData
  <2>2. CASE p # x
    <3>1. at'[p] = at[p] /\ local'[p] = local[p] /\ new[p] = num[p] /\ Got(p)' = Got(p)
      BY <1>1, <1>4, <2>2
    <3>2. at[p] # "start" => RingSum(new, p, Got(p)) = RingSum(num, p, Got(p))
      BY <1>3, <1>6
    <3>3. at[p] # "start" => \A k \in 0..Got(p) : at'[Behind(p, k)] # "start"
      <4>1. \A k \in 0..Got(p) : Behind(p, k) \in 0..3
        BY <1>3, RingPlaces
      <4> QED BY <1>2, <1>5, <4>1 DEF RingData
    <3> QED BY <1>2, <3>1, <3>2, <3>3 DEF RingData
  <2> QED BY <2>1, <2>2
<1>8. ASSUME NEW p \in 0..3 PROVE RingMail(new, p)'
  <2> DEFINE q == Behind(p, 1)
  <2>1. q \in 0..3
    BY RingPlaces
  <2>2. /\ Len(mail[q][p]) = Sent(q) - Got(p)
        /\ \A k \in 1..Len(mail[q][p]) : mail[q][p][k] = RingSum(num, q, (Got(p) + k) - 1)
    BY <1>2 DEF RingMail
  <2> HIDE DEF q
  <2>3. ASSUME NEW k \in 1..Len(mail[q][p])
        PROVE  RingSum(new, q, (Got(p) + k) - 1) = RingSum(num, q, (Got(p) + k) - 1)
    <3>1. Sent(q) # 0 /\ (Got(p) + k) - 1 \in 0..Got(q)
      <4>1. /\ Sent(q) \in 0..4 /\ Got(p) \in 0..3 /\ Got(q) \in 0..3 /\ Sent(q) <= Got(q) + 1
        BY <1>3, <2>1
      <4>2. Len(mail[q][p]) = Sent(q) - Got(p) /\ k \in 1..Len(mail[q][p])
        BY <2>2
      <4>3. PICK l, s, g, h \in Int : l = Len(mail[q][p]) /\ s = Sent(q) /\ g = Got(p) /\ h = Got(q)
        BY <4>1, <4>2
      <4>4. s <= h + 1 /\ l = s - g /\ k \in 1..l /\ h \in 0..3 /\ g \in 0..3
        BY <4>1, <4>2, <4>3
      <4>5. s # 0 /\ (g + k) - 1 \in 0..h
        BY <4>3, <4>4
      <4> QED BY <4>3, <4>5
    <3>2. at[q] # "start"
      BY <1>3, <2>1, <3>1
    <3> QED BY <1>6, <2>1, <3>1, <3>2
  <2>4. /\ Len(mail'[q][p]) = Sent(q)' - Got(p)'
        /\ \A k \in 1..Len(mail'[q][p]) : mail'[q][p][k] = RingSum(new, q, (Got(p)' + k) - 1)
    BY <1>4, <2>1, <2>2, <2>3
  <2> QED BY <2>4 DEF RingMail, q
<1> QED BY <1>7, <1>8 DEF RingGoes, new

(* A process passes its sum on.                                            *)
LEMMA RingPasses ==
  ASSUME NEW num \in [0..3 -> Int], RingGoes(num), NEW x \in 0..3, NEW f \in 0..3,
         Behind(f, 1) = x, at[x] = "send",
         at'[x] = IF local[x].i = 3 THEN "report" ELSE "receive",
         local'[x] = [local[x] EXCEPT !.i = @ + 1],
         \A p \in 0..3 : p # x => at'[p] = at[p] /\ local'[p] = local[p],
         mail[x][f] \in Seq(Int), mail'[x][f] = Append(mail[x][f], local[x].sum),
         \A a, b \in 0..3 : a # x \/ b # f => mail'[a][b] = mail[a][b]
  PROVE  RingGoes(num)'
<1>1. \A p \in 0..3 : RingData(num, p) /\ RingMail(num, p)
  BY DEF RingGoes
<1>2. /\ \A p \in 0..3 : Got(p) \in 0..3 /\ Sent(p) \in 0..4 /\ Sent(p) <= Got(p) + 1
      /\ Sent(x) = Got(x)
  BY RingCounts
<1>3. /\ local[x] \in RingRecord /\ local[x].i \in 0..3 /\ local[x].sum = RingSum(num, x, Got(x))
      /\ local[x].number = num[x] /\ Got(x) = local[x].i
  BY <1>1 DEF RingData, RingRecord, Got
<1>4. /\ local'[x] \in RingRecord /\ local'[x].i = local[x].i + 1
      /\ local'[x].sum = local[x].sum /\ local'[x].number = local[x].number
  BY <1>3 DEF RingRecord
<1>5. Got(x)' = Got(x) /\ Sent(x)' = Sent(x) + 1
  BY <1>3, <1>4 DEF Got, Sent
<1>6. \A p \in 0..3 : p # x => Got(p)' = Got(p) /\ Sent(p)' = Sent(p)
  BY DEF Got, Sent
<1>7. \A p \in 0..3 : at'[p] = "start" <=> at[p] = "start"
  OBVIOUS
<1>8. ASSUME NEW p \in 0..3 PROVE RingData(num, p)'
  <2>1. at[p] # "start" => \A k \in 0..Got(p) : at'[Behind(p, k)] # "start"
    <3>1. \A k \in 0..Got(p) : Behind(p, k) \in 0..3
      BY <1>2, RingPlaces
    <3> QED BY <1>1, <1>7, <3>1 DEF RingData
  <2>2. CASE p = x
    <3>1. /\ local[x].i + 1 \in 1..4 /\ (at'[x] = "receive" => local[x].i + 1 <= 3)
          /\ (at'[x] = "report" => local[x].i + 1 = 4) /\ at'[x] \in {"receive", "report"}
      BY <1>3
    <3>2. PICK g : g = Got(x) /\ g = Got(x)'
      BY <1>5
    <3>3. Got(p)' = g
      BY <2>2, <3>2 DEF Got
    <3>4. /\ local'[x].number = num[x] /\ local'[x].sum = RingSum(num, x, g)
          /\ local'[x].i = local[x].i + 1 /\ local'[x] \in RingRecord
          /\ \A k \in 0..g : at'[Behind(x, k)] # "start"
      BY <1>3, <1>4, <2>1, <2>2, <3>2
    <3> HIDE DEF Got
    <3>5. /\ at'[x] # "failed" /\ at'[x] # "send" /\ at'[x] # "start"
          /\ at'[x] = "receive" => local'[x].i \in 1..3
          /\ at'[x] \in {"report", "ended"} => local'[x].i = 4
      BY ONLY <1>3, <3>1, <3>4
    <3> QED BY ONLY <2>2, <3>3, <3>4, <3>5 DEF RingData
  <2>3. CASE p # x
    <3>1. at'[p] = at[p] /\ local'[p] = local[p] /\ Got(p)' = Got(p)
      BY <1>6, <2>3
    <3> HIDE DEF Got
    <3> QED BY <1>1, <2>1, <3>1 DEF RingData
  <2> QED BY <2>2, <2>3
<1>9. ASSUME NEW p \in 0..3 PROVE RingMail(num, p)'
  <2> DEFINE q == Behind(p, 1)
  <2>1. q \in 0..3 /\ (q = x <=> p = f)
    BY RingPlaces
  <2>2. /\ Len(mail[q][p]) = Sent(q) - Got(p)
        /\ \A k \in 1..Len(mail[q][p]) : mail[q][p][k] = RingSum(num, q, (Got(p) + k) - 1)
    BY <1>1 DEF RingMail
  <2>3. Got(p)' = Got(p)
    BY <1>5, <1>6
  <2>4. CASE q = x
    <3>1. p = f /\ q = x
      BY <2>1, <2>4
    <3> HIDE DEF q
    <3>2. /\ Len(mail'[x][f]) = Len(mail[x][f]) + 1
          /\ mail'[x][f][Len(mail[x][f]) + 1] = local[x].sum
          /\ \A k \in 1..Len(mail[x][f]) : mail'[x][f][k] = mail[x][f][k]
      BY <1>3, AppendProperties DEF RingRecord
    <3>3. Len(mail[x][f]) = Sent(x) - Got(f) /\ Len(mail[x][f]) \in Nat
      BY <2>2, <3>1
    <3>4. (Got(f) + (Len(mail[x][f]) + 1)) - 1 = Got(x)
      <4>1. Got(f) \in 0..3 /\ Sent(x) \in 0..4 /\ Got(x) \in 0..3 /\ Sent(x) = Got(x)
        BY <1>2
      <4> QED BY ONLY <3>3, <4>1
    <3>5. ASSUME NEW k \in 1..Len(mail'[x][f])
          PROVE  mail'[x][f][k] = RingSum(num, x, (Got(f) + k) - 1)
      <4>1. CASE k = Len(mail[x][f]) + 1
        BY <1>3, <3>2, <3>4, <4>1
      <4>2. CASE k # Len(mail[x][f]) + 1
        <5>1. k \in 1..Len(mail[x][f])
          BY <3>2, <3>3, <4>2
        <5> QED BY <2>2, <3>1, <3>2, <5>1
      <4> QED BY <4>1, <4>2
    <3>6. Len(mail'[x][f]) = Sent(x)' - Got(f)'
      BY <1>2, <1>5, <2>3, <3>1, <3>2, <3>3
    <3> QED BY <2>3, <3>1, <3>5, <3>6 DEF RingMail, q
  <2>5. CASE q # x
    <3> HIDE DEF q
    <3>1. mail'[q][p] = mail[q][p] /\ Sent(q)' = Sent(q)
      BY <1>6, <2>1, <2>5
    <3>2. /\ Len(mail'[q][p]) = Sent(q)' - Got(p)'
          /\ \A k \in 1..Len(mail'[q][p]) : mail'[q][p][k] = RingSum(num, q, (Got(p)' + k) - 1)
      BY <2>2, <2>3, <3>1
    <3> QED BY <3>2 DEF RingMail, q
  <2> QED BY <2>4, <2>5
<1> QED BY <1>8, <1>9 DEF RingGoes

(* A process receives a sum and adds its number.                           *)
LEMMA RingAdds ==
  ASSUME NEW num \in [0..3 -> Int], RingGoes(num), NEW x \in 0..3, NEW y \in 0..3,
         Behind(x, 1) = y, at[x] = "receive", at'[x] = "send",
         mail[y][x] \in Seq(Int), mail[y][x] # <<>>,
         local'[x] = [local[x] EXCEPT !.sum = mail[y][x][1] + local[x].number],
         \A p \in 0..3 : p # x => at'[p] = at[p] /\ local'[p] = local[p],
         mail'[y][x] = Tail(mail[y][x]),
         \A a, b \in 0..3 : a # y \/ b # x => mail'[a][b] = mail[a][b]
  PROVE  RingGoes(num)'
<1>1. \A p \in 0..3 : RingData(num, p) /\ RingMail(num, p)
  BY DEF RingGoes
<1>2. /\ \A p \in 0..3 : Got(p) \in 0..3 /\ Sent(p) \in 0..4 /\ Sent(p) <= Got(p) + 1
      /\ \A p \in 0..3 : at[p] = "start" => Sent(p) = 0 /\ Got(p) = 0
  BY RingCounts
<1>3. /\ local[x] \in RingRecord /\ local[x].i \in 1..3 /\ Got(x) = local[x].i - 1
      /\ local[x].number = num[x]
  BY <1>1 DEF RingData, RingRecord, Got
<1>4. /\ Len(mail[y][x]) = Sent(y) - Got(x) /\ Len(mail[y][x]) \in Nat \ {0}
      /\ \A k \in 1..Len(mail[y][x]) : mail[y][x][k] = RingSum(num, y, (Got(x) + k) - 1)
  <2>1. Len(mail[y][x]) \in Nat \ {0}
    BY EmptySeq, LenProperties
  <2> QED BY <1>1, <2>1 DEF RingMail
<1>5. mail[y][x][1] = RingSum(num, y, Got(x)) /\ Got(x) <= Got(y) /\ Got(x) \in 0..2 /\ at[y] # "start"
  <2>1. 1 \in 1..Len(mail[y][x]) /\ (Got(x) + 1) - 1 = Got(x)
    BY <1>2, <1>4
  <2>2. mail[y][x][1] = RingSum(num, y, Got(x))
    BY <1>4, <2>1
  <2>3. /\ Sent(y) \in 0..4 /\ Got(x) \in 0..3 /\ Got(y) \in 0..3 /\ Sent(y) <= Got(y) + 1
        /\ at[y] = "start" => Sent(y) = 0
    BY <1>2
  <2>4. local[x].i \in 1..3 /\ Got(x) = local[x].i - 1
    BY <1>3
  <2>5. Len(mail[y][x]) = Sent(y) - Got(x) /\ Len(mail[y][x]) \in Nat \ {0}
    BY <1>4
  <2>6. Got(x) <= Got(y) /\ Got(x) \in 0..2 /\ at[y] # "start"
    BY ONLY <2>3, <2>4, <2>5
  <2> QED BY <2>2, <2>6
<1>6. /\ local'[x] \in RingRecord /\ local'[x].i = local[x].i /\ local'[x].number = num[x]
      /\ local'[x].sum = RingSum(num, x, Got(x) + 1)
  <2>1. RingSum(num, y, Got(x)) \in Int /\ RingSum(num, x, Got(x) + 1) = RingSum(num, y, Got(x)) + num[x]
    <3>1. PICK g \in 0..2 : g = Got(x)
      BY <1>5
    <3>2. g \in 0..3
      OBVIOUS
    <3>3. RingSum(num, y, g) \in Int
      BY <3>2, RingSums
    <3>4. RingSum(num, x, g + 1) = RingSum(num, Behind(x, 1), g) + num[x]
      BY RingSums
    <3> QED BY <3>1, <3>3, <3>4
  <2>2. local'[x] = [local[x] EXCEPT !.sum = RingSum(num, x, Got(x) + 1)]
    BY <1>3, <1>5, <2>1
  <2>3. RingSum(num, x, Got(x) + 1) \in Int
    BY <1>5, RingSums
  <2> HIDE DEF RingSum, Got
  <2> QED BY <1>3, <2>2, <2>3 DEF RingRecord
<1>7. Got(x)' = Got(x) + 1 /\ Sent(x)' = Sent(x)
  BY <1>3, <1>6 DEF Got, Sent
<1>8. \A p \in 0..3 : p # x => Got(p)' = Got(p) /\ Sent(p)' = Sent(p)
  BY DEF Got, Sent
<1>9. \A p \in 0..3 : at'[p] = "start" <=> at[p] = "start"
  OBVIOUS
<1>10. ASSUME NEW p \in 0..3 PROVE RingData(num, p)'
  <2>1. at[p] # "start" => \A k \in 0..Got(p) : at'[Behind(p, k)] # "start"
    <3>1. \A k \in 0..Got(p) : Behind(p, k) \in 0..3
      BY <1>2, RingPlaces
    <3> QED BY <1>1, <1>9, <3>1 DEF RingData
  <2>2. CASE p = x
    <3>1. ASSUME NEW k \in 0..Got(x) + 1 PROVE at'[Behind(x, k)] # "start"
      <4>1. CASE k = 0
        BY <1>9, <4>1, RingPlaces
      <4>2. CASE k # 0
        <5>1. k - 1 \in 0..Got(y) /\ k \in 1..3 /\ k - 1 \in 0..3
          BY <1>2, <1>5, <4>2
        <5>2. Behind(x, k) = Behind(y, k - 1) /\ Behind(y, k - 1) \in 0..3
          BY <5>1, RingPlaces
        <5>3. at[Behind(y, k - 1)] # "start"
          BY <1>1, <1>5, <5>1 DEF RingData
        <5> QED BY <1>9, <5>2, <5>3
      <4> QED BY <4>1, <4>2
    <3>2. local'[x].i <= 3
      BY <1>3, <1>6
    <3> HIDE DEF Got
    <3> QED BY <1>6, <1>7, <2>2, <3>1, <3>2 DEF RingData
  <2>3. CASE p # x
    <3>1. at'[p] = at[p] /\ local'[p] = local[p] /\ Got(p)' = Got(p)
      BY <1>8, <2>3
    <3> HIDE DEF Got
    <3> QED BY <1>1, <2>1, <3>1 DEF RingData
  <2> QED BY <2>2, <2>3
<1>11. ASSUME NEW p \in 0..3 PROVE RingMail(num, p)'
  <2> DEFINE q == Behind(p, 1)
  <2>1. q \in 0..3 /\ (q = y <=> p = x)
    BY RingPlaces
  <2>2. /\ Len(mail[q][p]) = Sent(q) - Got(p)
        /\ \A k \in 1..Len(mail[q][p]) : mail[q][p][k] = RingSum(num, q, (Got(p) + k) - 1)
    BY <1>1 DEF RingMail
  <2>3. Sent(q)' = Sent(q)
    BY <1>7, <1>8, <2>1
  <2>4. CASE p = x
    <3>1. p = x /\ q = y
      BY <2>1, <2>4
    <3> HIDE DEF q
    <3>2. /\ Len(mail'[y][x]) = Len(mail[y][x]) - 1
          /\ \A k \in 1..Len(mail[y][x]) - 1 : mail'[y][x][k] = mail[y][x][k + 1]
      BY HeadTailProperties
    <3>3. ASSUME NEW k \in 1..Len(mail'[y][x])
          PROVE  mail'[y][x][k] = RingSum(num, y, ((Got(x) + 1) + k) - 1)
      <4>1. k \in 1..Len(mail[y][x]) - 1 /\ k + 1 \in 1..Len(mail[y][x])
        BY <1>4, <3>2
      <4>2. ((Got(x) + 1) + k) - 1 = (Got(x) + (k + 1)) - 1
        BY <1>5, <4>1
      <4> QED BY <1>4, <3>2, <4>1, <4>2
    <3>4. Len(mail'[y][x]) = Sent(y)' - Got(x)'
      <4>1. Sent(y) \in 0..4 /\ Got(x) \in 0..3
        BY <1>2
      <4>2. /\ Len(mail'[y][x]) = Len(mail[y][x]) - 1 /\ Len(mail[y][x]) = Sent(y) - Got(x)
            /\ Sent(y)' = Sent(y) /\ Got(x)' = Got(x) + 1
        BY <1>4, <1>7, <2>3, <3>1, <3>2
      <4> QED BY ONLY <4>1, <4>2
    <3> QED BY <1>7, <3>1, <3>3, <3>4 DEF RingMail, q
  <2>5. CASE p # x
    <3> HIDE DEF q
    <3>1. mail'[q][p] = mail[q][p] /\ Got(p)' = Got(p)
      BY <1>8, <2>1, <2>5
    <3>2. /\ Len(mail'[q][p]) = Sent(q)' - Got(p)'
          /\ \A k \in 1..Len(mail'[q][p]) : mail'[q][p][k] = RingSum(num, q, (Got(p)' + k) - 1)
      BY <2>2, <2>3, <3>1
    <3> QED BY <3>2 DEF RingMail, q
  <2> QED BY <2>4, <2>5
<1> QED BY <1>10, <1>11 DEF RingGoes

(* A step of the ring keeps its invariant.                                 *)
LEMMA RingStep ==
  ASSUME NEW n, RingInv(n), NEW p \in Procs(n), Messages!Ring(p), program' = program
  PROVE  RingInv(n)'
<1>0. /\ Talks(n, Int, Nothing) /\ Stands(n, RingPoints, Nothing)
      /\ RingPoints = {"start", "failed", "send", "receive", "report", "ended"}
  BY DEF RingInv, Runs, RingPoints
<1>1. /\ Runs("ring", n, RingPoints, Int, Nothing, Nothing)
      /\ Messages!Count = n /\ n \in Nat \ {0}
      /\ Messages!Following(p) = IF p = n - 1 THEN 0 ELSE p + 1
      /\ Messages!Previous(p) = IF p = 0 THEN n - 1 ELSE p - 1
  BY CountIs, Neighbours DEF RingInv, Runs
<1>2. CASE Messages!Refuses(p) /\ n # 4
  <2>1. Moves(p, "failed") /\ local' = local /\ Alone /\ output' = output /\ "failed" \in RingPoints
    BY <1>0, <1>2, MessagesRefuse
  <2>2. /\ Talks(n, Int, Nothing)' /\ Stands(n, RingPoints, Nothing)'
        /\ at'[p] = "failed" /\ \A q \in Procs(n) : q # p => at'[q] = at[q]
    BY <1>0, <2>1, StaysAlone, StandsMoved
  <2> QED BY <1>1, <1>2, <2>2 DEF Runs, RingInv
<1>3. n # 4 => \A q \in Procs(n) : at[q] \in {"start", "failed"}
  BY DEF RingInv
<1>4. CASE n = 4
  <2>1. Procs(n) = 0..3 /\ p \in 0..3
    BY <1>4 DEF Procs
  <2>2. PICK num \in [0..3 -> Int] : RingGoes(num)
    BY <1>4 DEF RingInv
  <2>3. ASSUME NEW new \in [0..3 -> Int], RingGoes(new)',
               Talks(n, Int, Nothing)', Stands(n, RingPoints, Nothing)'
        PROVE  RingInv(n)'
    BY <1>1, <1>4, <2>3 DEF RingInv, Runs
  <2>4. CASE Messages!RingStarts(p)
    <3>1. PICK number : number \in RingNumbers[p] /\ Keeps(p, [number |-> number, sum |-> number, i |-> 0])
      BY <2>4 DEF Messages!RingStarts, Messages!Keep, Keeps
    <3>2. number \in Int
      BY <2>1, <3>1, NumbersAssumption
    <3>3. at[p] = "start" /\ Moves(p, "send") /\ Alone /\ output' = output /\ "send" \in RingPoints
      BY <1>0, <2>4, MessagesMoves DEF Messages!RingStarts, Messages!Quietly, Messages!Computes,
         Messages!communication, Alone
    <3>4. /\ Talks(n, Int, Nothing)' /\ Stands(n, RingPoints, Nothing)'
          /\ at'[p] = "send" /\ \A q \in Procs(n) : q # p => at'[q] = at[q]
          /\ \A q \in Procs(n) : q # p => local'[q] = local[q]
      BY <1>0, <3>1, <3>3, StaysAlone, StandsMoved
    <3>5. local'[p] = [number |-> number, sum |-> number, i |-> 0]
      BY <1>0, <3>1, KeepsData
    <3>6. RingGoes([num EXCEPT ![p] = number])'
      BY <2>1, <2>2, <3>2, <3>3, <3>4, <3>5, RingDraw DEF Alone
    <3>7. [num EXCEPT ![p] = number] \in [0..3 -> Int]
      BY <2>1, <3>2
    <3> QED BY <2>3, <3>4, <3>6, <3>7
  <2>5. CASE Messages!RingSends(p)
    <3> DEFINE f == Messages!Following(p)
               to == IF local[p].i = 3 THEN "report" ELSE "receive"
    <3>1. f = (IF p = 3 THEN 0 ELSE p + 1) /\ f \in 0..3
      BY <1>1, <1>4, <2>1
    <3>2. Behind(f, 1) = p
      BY <2>1, <3>1, RingPlaces
    <3>3. RingData(num, p)
      BY <2>1, <2>2 DEF RingGoes
    <3>4. /\ at[p] = "send" /\ Moves(p, to) /\ output' = output /\ to \in RingPoints
          /\ Messages!Sends(p, f, local[p].sum)
          /\ Keeps(p, [local[p] EXCEPT !.i = local[p].i + 1])
      BY <1>0, <2>5, MessagesMoves DEF Messages!RingSends, Messages!Quietly, Messages!Keep, Keeps
    <3>5. local[p].sum \in Int
      BY <3>3, <3>4 DEF RingData, RingRecord
    <3>6. f \in Procs(n)
      BY <2>1, <3>1
    <3> HIDE DEF f, to
    <3>7. /\ Talks(n, Int, Nothing)' /\ mail'[p][f] = Append(mail[p][f], local[p].sum)
          /\ \A a, b \in Procs(n) : a # p \/ b # f => mail'[a][b] = mail[a][b]
      <4>1. PICK s : s = local[p].sum /\ s \in Int /\ Messages!Sends(p, f, s)
        BY <3>4, <3>5
      <4>2. /\ Talks(n, Int, Nothing)' /\ mail'[p][f] = Append(mail[p][f], s)
            /\ \A a, b \in Procs(n) : a # p \/ b # f => mail'[a][b] = mail[a][b]
        BY ONLY <1>0, <3>6, <4>1, p \in Procs(n), MessagesSend
      <4> QED BY <4>1, <4>2
    <3>8. /\ Stands(n, RingPoints, Nothing)'
          /\ at'[p] = to /\ \A q \in Procs(n) : q # p => at'[q] = at[q]
          /\ \A q \in Procs(n) : q # p => local'[q] = local[q]
      BY <1>0, <3>4, StandsMoved
    <3>9. local'[p] = [local[p] EXCEPT !.i = local[p].i + 1]
      BY <1>0, <3>4, KeepsData
    <3>10. mail[p][f] \in Seq(Int)
      BY <1>0, <3>6 DEF Talks
    <3>11. /\ \A q \in 0..3 : q # p => at'[q] = at[q] /\ local'[q] = local[q]
           /\ \A a, b \in 0..3 : a # p \/ b # f => mail'[a][b] = mail[a][b]
           /\ at'[p] = IF local[p].i = 3 THEN "report" ELSE "receive"
           /\ local'[p] = [local[p] EXCEPT !.i = @ + 1] /\ f \in 0..3 /\ at[p] = "send"
      BY ONLY <2>1, <3>1, <3>4, <3>7, <3>8, <3>9 DEF to
    <3>12. RingGoes(num)'
      BY ONLY <2>1, <2>2, <3>2, <3>7, <3>10, <3>11, RingPasses
    <3> QED BY <2>2, <2>3, <3>7, <3>8, <3>12
  <2>6. CASE Messages!RingReceives(p)
    <3> DEFINE y == Messages!Previous(p)
    <3>1. y = (IF p = 0 THEN 3 ELSE p - 1) /\ y \in 0..3
      BY <1>1, <1>4, <2>1
    <3>2. Behind(p, 1) = y
      BY <2>1, <3>1, RingPlaces
    <3>3. /\ at[p] = "receive" /\ Moves(p, "send") /\ output' = output /\ "send" \in RingPoints
      BY <1>0, <2>6, MessagesMoves DEF Messages!RingReceives, Messages!Quietly
    <3>4. PICK sum : /\ Messages!Receives(p, y, sum)
                     /\ Keeps(p, [local[p] EXCEPT !.sum = sum + local[p].number])
      BY <2>6 DEF Messages!RingReceives, Messages!Keep, Keeps
    <3>5. y \in Procs(n)
      BY <2>1, <3>1
    <3> HIDE DEF y
    <3>6. /\ Talks(n, Int, Nothing)' /\ mail[y][p] \in Seq(Int) /\ mail[y][p] # <<>>
          /\ sum = mail[y][p][1] /\ mail'[y][p] = Tail(mail[y][p])
          /\ \A a, b \in Procs(n) : a # y \/ b # p => mail'[a][b] = mail[a][b]
      BY ONLY <1>0, <3>4, <3>5, p \in Procs(n), MessagesReceive
    <3>7. /\ Stands(n, RingPoints, Nothing)'
          /\ at'[p] = "send" /\ \A q \in Procs(n) : q # p => at'[q] = at[q]
          /\ \A q \in Procs(n) : q # p => local'[q] = local[q]
      BY <1>0, <3>3, <3>4, StandsMoved
    <3>8. local'[p] = [local[p] EXCEPT !.sum = mail[y][p][1] + local[p].number]
      BY <1>0, <3>4, <3>6, KeepsData
    <3>9. /\ \A q \in 0..3 : q # p => at'[q] = at[q] /\ local'[q] = local[q]
          /\ \A a, b \in 0..3 : a # y \/ b # p => mail'[a][b] = mail[a][b]
          /\ at'[p] = "send" /\ y \in 0..3 /\ at[p] = "receive"
      BY ONLY <2>1, <3>1, <3>3, <3>6, <3>7
    <3>10. RingGoes(num)'
      BY ONLY <2>1, <2>2, <3>2, <3>6, <3>8, <3>9, RingAdds
    <3> QED BY <2>2, <2>3, <3>6, <3>7, <3>10
  <2>7. CASE Messages!RingReports(p)
    <3>1. /\ at[p] = "report" /\ Moves(p, "ended") /\ Alone /\ output' = output /\ local' = local
          /\ "ended" \in RingPoints
      BY <1>0, <2>7, MessagesMoves DEF Messages!RingReports, Messages!Quietly, Messages!Computes,
         Messages!communication, Alone
    <3>2. /\ Talks(n, Int, Nothing)' /\ Stands(n, RingPoints, Nothing)'
          /\ at'[p] = "ended" /\ \A q \in Procs(n) : q # p => at'[q] = at[q]
      BY <1>0, <3>1, StaysAlone, StandsMoved
    <3>3. RingGoes(num)'
      <4>1. \A x \in 0..3 : Got(x)' = Got(x) /\ Sent(x)' = Sent(x)
        BY <2>1, <3>1, <3>2 DEF Got, Sent
      <4>2. \A x \in 0..3 : at'[x] = "start" <=> at[x] = "start"
        BY <2>1, <3>1, <3>2
      <4>3. ASSUME NEW x \in 0..3 PROVE RingData(num, x)'
        <5>1. RingData(num, x) /\ Got(x) \in 0..3
          BY <2>2, RingCounts DEF RingGoes
        <5>2. \A k \in 0..Got(x) : Behind(x, k) \in 0..3
          BY <5>1, RingPlaces
        <5>3. Got(x)' = Got(x) /\ local'[x] = local[x] /\ (at'[x] = at[x] \/ (at[x] = "report" /\ at'[x] = "ended"))
          BY <2>1, <3>1, <3>2, <4>1
        <5> HIDE DEF Got
        <5>4. at'[x] # "start" => \A k \in 0..Got(x) : at'[Behind(x, k)] # "start"
          BY <4>2, <5>1, <5>2 DEF RingData
        <5> QED BY <4>2, <5>1, <5>3, <5>4 DEF RingData
      <4>4. ASSUME NEW x \in 0..3 PROVE RingMail(num, x)'
        <5> DEFINE q == Behind(x, 1)
        <5>1. q \in 0..3
          BY RingPlaces
        <5>2. /\ Len(mail[q][x]) = Sent(q) - Got(x)
              /\ \A k \in 1..Len(mail[q][x]) : mail[q][x][k] = RingSum(num, q, (Got(x) + k) - 1)
          BY <2>2 DEF RingGoes, RingMail
        <5> HIDE DEF q
        <5>3. /\ Len(mail'[q][x]) = Sent(q)' - Got(x)'
              /\ \A k \in 1..Len(mail'[q][x]) : mail'[q][x][k] = RingSum(num, q, (Got(x)' + k) - 1)
          BY <3>1, <4>1, <5>1, <5>2 DEF Alone
        <5> QED BY <5>3 DEF RingMail, q
      <4> QED BY <4>3, <4>4 DEF RingGoes
    <3> QED BY <2>2, <2>3, <3>2, <3>3
  <2> QED BY <1>1, <1>4, <2>4, <2>5, <2>6, <2>7 DEF Messages!Ring
<1> QED
  <2>1. n # 4 => ~(Messages!RingStarts(p) \/ Messages!RingSends(p) \/ Messages!RingReceives(p) \/ Messages!RingReports(p))
    BY <1>1, <1>3 DEF Messages!RingStarts, Messages!RingSends, Messages!RingReceives,
       Messages!RingReports, Messages!Goes
  <2> QED BY <1>1, <1>2, <1>4, <2>1 DEF Messages!Ring

(* A process of the ring that has ended has the sum of all numbers.        *)
LEMMA RingRight ==
  ASSUME NEW n, RingInv(n), NEW p \in Procs(n), at[p] = "ended"
  PROVE  local[p].sum = Messages!SumFunction([q \in Messages!Processes |-> local[q].number])
<1>1. Messages!Processes = Procs(n)
  BY CountIs DEF RingInv
<1>2. n = 4
  BY DEF RingInv
<1>3. Procs(n) = 0..3 /\ p \in 0..3
  BY <1>2 DEF Procs
<1>4. PICK num \in [0..3 -> Int] : RingGoes(num)
  BY <1>2 DEF RingInv
<1>5. \A q \in 0..3 : RingData(num, q)
  BY <1>4 DEF RingGoes
<1>6. local[p].sum = RingSum(num, p, 3) /\ \A k \in 0..3 : at[Behind(p, k)] # "start"
  <2>1. Got(p) = 3
    BY DEF Got
  <2> HIDE DEF Got
  <2> QED BY <1>3, <1>5, <2>1 DEF RingData
<1>7. \A q \in 0..3 : \E k \in 0..3 : q = Behind(p, k)
  BY <1>3 DEF Behind
<1>8. \A q \in 0..3 : local[q].number = num[q]
  BY <1>5, <1>6, <1>7 DEF RingData
<1>9. [q \in Messages!Processes |-> local[q].number] = num
  BY <1>1, <1>3, <1>8
<1>10. Messages!SumFunction(num) = num[0] + num[1] + num[2] + num[3]
  BY SumIs, SumOfFour
<1>11. RingSum(num, p, 3) = num[0] + num[1] + num[2] + num[3]
  BY <1>3 DEF RingSum, Behind
<1> QED BY <1>6, <1>9, <1>10, <1>11

(* In the terms of the module: types, and results.                         *)
LEMMA RingMeans ==
  ASSUME NEW n, RingInv(n)
  PROVE  \A p \in Messages!Playing : local[p].i \in 0..4
<1>1. Messages!Processes = Procs(n)
  BY CountIs DEF RingInv
<1> SUFFICES ASSUME NEW p \in Procs(n), at[p] \notin {"start", "failed"} PROVE local[p].i \in 0..4
  BY <1>1 DEF Messages!Playing
<1>2. n = 4 /\ p \in 0..3
  BY DEF RingInv, Procs
<1>3. PICK num \in [0..3 -> Int] : RingGoes(num)
  BY <1>2 DEF RingInv
<1>4. local[p] \in RingRecord
  BY <1>2, <1>3 DEF RingGoes, RingData
<1> QED BY <1>4 DEF RingRecord

(* ping_pong_realistic: score[k] is the score after k services; a player   *)
(* has seen Seen(p) of them, and knows that the game goes on after         *)
(* Rounds(p).                                                              *)
RealPoints == {"start", "failed", "play", "tally", "over", "score", "ended"}
Scores == [0..1 -> Nat]
RealMail == BOOLEAN
RealCalls == BOOLEAN \cup Scores
RealRecord == [scoreboard : Scores, services : Nat, rounds : Nat, over : BOOLEAN, winner : -1..1]

Server(k) == k % 2
Points(score) == score[0] + score[1]
Bump(score, k, hit) == IF hit THEN score ELSE [score EXCEPT ![1 - Server(k)] = @ + 1]
Undecided(score) == score[0] < input.winScore /\ score[1] < input.winScore

Seen(p) == IF at[p] = "start" THEN 0
           ELSE IF at[p] = "tally" THEN local[p].services + 1 ELSE local[p].services
Rounds(p) == IF at[p] \in {"play", "tally"} THEN local[p].services ELSE local[p].services - 1

RealScore(score, p) ==
  /\ local[p] \in RealRecord
  /\ local[p].scoreboard = score[Seen(p)]
  /\ \A q \in 0..1 : score[Seen(p)][q] <= 1 \/ score[Seen(p)][q] <= input.winScore
  /\ \A k \in 0..Seen(p) : Points(score[k]) >= k - MostServices
  /\ \A k \in 1..Rounds(p) : Undecided(score[k])

RealPlace(score, p) ==
  /\ at[p] \in {"over", "score", "ended"} => local[p].services >= 1
  /\ Len(entered[p]) = 2 * local[p].services - (IF at[p] = "over" THEN 1 ELSE 0)
  /\ at[p] = "score" => (local[p].over <=> ~Undecided(score[local[p].services]))
  /\ at[p] = "ended" => /\ local[p].over = TRUE /\ local[p].winner = -1
                        /\ ~Undecided(score[local[p].services])
  /\ p = 0 => Points(local[p].scoreboard) =
                local[p].rounds + (IF at[p] = "tally" /\ local[p].winner # -1 THEN 1 ELSE 0)
  /\ p = 1 /\ at[p] \in {"over", "score"} => 0 \in waits[p].entry

RealData(score, p) ==
  /\ at[p] # "failed"
  /\ at[p] = "start" => Len(entered[p]) = 0
  /\ at[p] # "start" => RealScore(score, p) /\ RealPlace(score, p)

RealCalled(score) ==
  \A k \in Nat :
    /\ 2 * k + 1 <= Len(entered[0]) =>
         entered[0][2 * k + 1] \in BOOLEAN /\ (entered[0][2 * k + 1] <=> ~Undecided(score[k + 1]))
    /\ 2 * k + 2 <= Len(entered[0]) => entered[0][2 * k + 2] = score[k + 1]

RealBall(score, p, q) ==
  \/ Seen(q) <= Seen(p) /\ mail[q][p] = <<>>
  \/ /\ Seen(q) = Seen(p) + 1 /\ Server(Seen(p)) = q
     /\ \E hit \in BOOLEAN : /\ mail[q][p] = <<hit>>
                             /\ score[Seen(p) + 1] = Bump(score[Seen(p)], Seen(p), hit)

RealGoes(score) ==
  /\ score[0] = [q \in 0..1 |-> 0]
  /\ RealData(score, 0) /\ RealData(score, 1)
  /\ RealCalled(score) /\ RealBall(score, 0, 1) /\ RealBall(score, 1, 0)

RealInv(n) ==
  /\ Runs("ping_pong_realistic", n, RealPoints, RealMail, RealCalls, Nothing)
  /\ input.winScore \in Nat
  /\ n # 2 \/ ~input.proper => \A p \in Procs(n) : at[p] \in {"start", "failed"}
  /\ n = 2 /\ input.proper => \E score \in [Nat -> Scores] : RealGoes(score)

(* The players serve in turns.                                             *)
LEMMA Serving ==
  /\ \A k \in Nat : Server(k) \in 0..1 /\ Server(k + 1) = 1 - Server(k)
BY DEF Server

(* A service changes the score.                                            *)
LEMMA BumpIs ==
  ASSUME NEW score \in Scores, NEW k \in Nat, NEW hit \in BOOLEAN
  PROVE  /\ Bump(score, k, hit) \in Scores
         /\ Points(score) \in Nat /\ Points(Bump(score, k, hit)) = Points(score) + (IF hit THEN 0 ELSE 1)
         /\ \A q \in 0..1 : Bump(score, k, hit)[q] <= score[q] + 1
         /\ \A q \in 0..1 : score[q] \in Nat
<1>1. 1 - Server(k) \in 0..1 /\ \A q \in 0..1 : score[q] \in Nat
  BY Serving DEF Scores
<1>2. PICK o \in 0..1 : o = 1 - Server(k)
  BY <1>1
<1>3. Bump(score, k, hit) = IF hit THEN score ELSE [score EXCEPT ![o] = score[o] + 1]
  BY <1>2 DEF Bump
<1>4. CASE hit
  BY <1>1, <1>3, <1>4 DEF Points
<1>5. CASE ~hit
  <2>1. Bump(score, k, hit) = [score EXCEPT ![o] = score[o] + 1]
    BY <1>3, <1>5
  <2>2. /\ Bump(score, k, hit) \in Scores
        /\ \A q \in 0..1 : Bump(score, k, hit)[q] = IF q = o THEN score[q] + 1 ELSE score[q]
    BY <1>1, <2>1 DEF Scores
  <2> QED BY <1>1, <1>5, <2>2 DEF Points
<1> QED BY <1>4, <1>5

(* What a player has seen.                                                 *)
LEMMA SeenIs ==
  ASSUME NEW score, NEW p, RealData(score, p)
  PROVE  /\ Seen(p) \in Nat /\ (at[p] # "start" => local[p].services \in Nat /\ Rounds(p) \in Int)
         /\ at[p] \in {"over", "score", "ended"} => Rounds(p) \in Nat
         /\ Len(entered[p]) <= 2 * Seen(p)
<1>1. CASE at[p] = "start"
  BY <1>1 DEF RealData, Seen
<1>2. CASE at[p] # "start"
  <2>1. local[p].services \in Nat
    BY <1>2 DEF RealData, RealScore, RealRecord
  <2>2. /\ at[p] \in {"over", "score", "ended"} => local[p].services >= 1
        /\ Len(entered[p]) = 2 * local[p].services - (IF at[p] = "over" THEN 1 ELSE 0)
    BY <1>2 DEF RealData, RealPlace
  <2> QED BY <1>2, <2>1, <2>2 DEF Seen, Rounds
<1> QED BY <1>1, <1>2

(* The other player: nothing changes as long as it does not know better.   *)
LEMMA RealStays ==
  ASSUME NEW score, NEW new, NEW x, RealData(score, x), input' = input,
         at'[x] = at[x], local'[x] = local[x], entered'[x] = entered[x], waits'[x] = waits[x],
         \A k \in 0..Seen(x) : new[k] = score[k]
  PROVE  RealData(new, x)' /\ Seen(x)' = Seen(x)
<1>1. Seen(x)' = Seen(x) /\ Rounds(x)' = Rounds(x)
  BY DEF Seen, Rounds
<1>2. Seen(x) \in Nat
  BY SeenIs
<1>3. CASE at[x] = "start"
  BY <1>1, <1>3 DEF RealData
<1>4. CASE at[x] # "start"
  <2>1. RealScore(score, x) /\ RealPlace(score, x)
    BY <1>4 DEF RealData
  <2>2. new[Seen(x)] = score[Seen(x)] /\ \A k \in 1..Rounds(x) : new[k] = score[k]
    <3>1. Rounds(x) \in Int /\ Rounds(x) <= Seen(x)
      BY <1>4, SeenIs DEF Seen, Rounds
    <3> HIDE DEF Seen, Rounds
    <3> QED BY <1>2, <3>1
  <2>3. RealScore(new, x)'
    <3> HIDE DEF Seen, Rounds, Points, Undecided
    <3>1. \A s : Undecided(s)' <=> Undecided(s)
      BY DEF Undecided
    <3> QED BY <1>1, <2>1, <2>2, <3>1 DEF RealScore
  <2>4. at[x] \in {"score", "ended"} => new[local[x].services] = score[local[x].services]
    BY <1>2, <2>2 DEF Seen
  <2>5. RealPlace(new, x)'
    BY <2>1, <2>4 DEF RealPlace, Points, Undecided
  <2> QED BY <1>1, <1>4, <2>3, <2>5 DEF RealData
<1> QED BY <1>1, <1>3, <1>4

(* The game from the place of either player.                               *)
LEMMA RealPair ==
  ASSUME NEW score, NEW x \in 0..1, NEW y \in 0..1, x # y
  PROVE  /\ RealGoes(score) <=> /\ score[0] = [q \in 0..1 |-> 0]
                               /\ RealData(score, x) /\ RealData(score, y)
                               /\ RealCalled(score) /\ RealBall(score, x, y) /\ RealBall(score, y, x)
<1>1. (x = 0 /\ y = 1) \/ (x = 1 /\ y = 0)
  OBVIOUS
<1> QED BY <1>1 DEF RealGoes

(* A player starts.                                                        *)
NoScore == [scoreboard |-> [q \in 0..1 |-> 0], services |-> 0, rounds |-> 0,
            over |-> FALSE, winner |-> -1]
Beginning(score, x, y) ==
  /\ score \in [Nat -> Scores] /\ RealGoes(score) /\ x \in 0..1 /\ y \in 0..1 /\ x # y
  /\ input' = input /\ input.winScore \in Nat
  /\ at[x] = "start" /\ at'[x] = "play" /\ at'[y] = at[y] /\ local'[y] = local[y]
  /\ local'[x] = NoScore
  /\ mail' = mail /\ entered' = entered /\ waits' = waits

(* Both players are ready for the first service.                           *)
LEMMA RealBegins ==
  ASSUME NEW score, NEW x, NEW y, Beginning(score, x, y)
  PROVE  RealGoes(score)'
<1> SUFFICES ASSUME score \in [Nat -> Scores], RealGoes(score), x \in 0..1, y \in 0..1, x # y,
         input' = input, input.winScore \in Nat,
         at[x] = "start", at'[x] = "play", at'[y] = at[y], local'[y] = local[y],
         local'[x] = [scoreboard |-> [q \in 0..1 |-> 0], services |-> 0, rounds |-> 0,
                      over |-> FALSE, winner |-> -1],
         mail' = mail, entered' = entered, waits' = waits
    PROVE RealGoes(score)'
  BY DEF Beginning, NoScore
<1>1. /\ score[0] = [q \in 0..1 |-> 0] /\ RealData(score, x) /\ RealData(score, y)
      /\ RealCalled(score) /\ RealBall(score, x, y) /\ RealBall(score, y, x)
  BY RealPair
<1>2. RealData(score, y)' /\ Seen(y)' = Seen(y)
  BY <1>1, RealStays
<1>3. Seen(x) = 0 /\ Seen(x)' = 0 /\ Rounds(x)' = 0
  BY DEF Seen, Rounds
<1>4. /\ local'[x] \in RealRecord /\ local'[x].scoreboard = [q \in 0..1 |-> 0]
      /\ local'[x].services = 0 /\ local'[x].rounds = 0 /\ local'[x].over = FALSE /\ local'[x].winner = -1
  <2>1. [q \in 0..1 |-> 0] \in Scores
    BY DEF Scores
  <2> QED BY <2>1 DEF RealRecord
<1>5. score[0][0] = 0 /\ score[0][1] = 0
  BY <1>1
<1>6. RealScore(score, x)'
  <2>1. \A k \in 0..0 : Points(score[k]) >= k - MostServices
    BY <1>5, NumbersAssumption DEF Points
  <2>2. \A q \in 0..1 : score[0][q] <= 1
    BY <1>5
  <2> QED BY <1>1, <1>3, <1>4, <2>1, <2>2 DEF RealScore, Points
<1>7. RealPlace(score, x)'
  <2>1. Len(entered'[x]) = 0
    BY <1>1 DEF RealData
  <2> QED BY <1>4, <2>1 DEF RealPlace, Points
<1>8. RealData(score, x)'
  BY <1>6, <1>7 DEF RealData
<1>9. RealCalled(score)'
  BY <1>1 DEF RealCalled, Undecided
<1>10. RealBall(score, x, y)' /\ RealBall(score, y, x)'
  BY <1>1, <1>2, <1>3 DEF RealBall
<1>11. score[0] = [q \in 0..1 |-> 0]
  BY <1>1
<1> QED BY <1>2, <1>8, <1>9, <1>10, <1>11 DEF RealGoes

(* The data of a player after a service.                                   *)
Marks(data, by, hit) ==
  IF hit THEN [data EXCEPT !.winner = -1]
  ELSE [data EXCEPT !.winner = 1 - by, !.scoreboard[1 - by] = @ + 1]

(* Player x has seen service k, and the score is a new one.                *)
Sees(score, new, x, k, hit) ==
  /\ score \in [Nat -> Scores] /\ new \in [Nat -> Scores] /\ RealData(score, x)
  /\ input' = input /\ input.winScore \in Nat /\ at[x] = "play" /\ at'[x] = "tally"
  /\ k \in Nat /\ k = local[x].services /\ hit \in BOOLEAN
  /\ local'[x] = Marks(local[x], Server(k), hit)
  /\ \A j \in 0..k : new[j] = score[j]
  /\ new[k + 1] = Bump(score[k], k, hit)
  /\ Points(new[k + 1]) >= (k + 1) - MostServices
  /\ score[0] = [q \in 0..1 |-> 0] /\ Len(entered'[x]) = Len(entered[x])

(* A player sees the next service, and its data with it.                   *)
LEMMA RealScored ==
  ASSUME NEW score, NEW new, NEW x, NEW k, NEW hit, Sees(score, new, x, k, hit)
  PROVE  RealData(new, x)' /\ Seen(x)' = k + 1 /\ Seen(x) = k
<1> SUFFICES ASSUME score \in [Nat -> Scores], new \in [Nat -> Scores], RealData(score, x),
                    input' = input, input.winScore \in Nat, at[x] = "play", at'[x] = "tally",
                    k \in Nat, k = local[x].services, hit \in BOOLEAN,
                    NEW by \in 0..1, by = Server(k), local'[x] = Marks(local[x], by, hit),
                    \A j \in 0..k : new[j] = score[j], new[k + 1] = Bump(score[k], k, hit),
                    Points(new[k + 1]) >= (k + 1) - MostServices,
                    k = 0 => score[0] = [q \in 0..1 |-> 0], Len(entered'[x]) = Len(entered[x])
             PROVE  RealData(new, x)' /\ Seen(x)' = k + 1 /\ Seen(x) = k
  <2>1. k \in Nat
    BY DEF Sees
  <2>2. Server(k) \in 0..1
    BY <2>1, Serving
  <2> QED BY <2>2 DEF Sees
<1>1. RealScore(score, x) /\ RealPlace(score, x)
  BY DEF RealData
<1>2. Seen(x) = k /\ Rounds(x) = k
  BY DEF Seen, Rounds
<1>a. /\ new[k + 1] = Bump(score[k], k, hit) /\ new[k + 1] \in Scores /\ score[k] \in Scores
      /\ \A q \in 0..1 : new[k + 1][q] \in Nat /\ score[k][q] \in Nat
  <2>1. /\ new[k + 1] = Bump(score[k], k, hit) /\ new[k + 1] \in Scores /\ score[k] \in Scores
    BY k + 1 \in Nat
  <2> QED BY ONLY <2>1 DEF Scores
<1>b. /\ \A q \in 0..1 : new[k + 1][q] <= score[k][q] + 1
      /\ Points(new[k + 1]) = Points(score[k]) + (IF hit THEN 0 ELSE 1) /\ Points(score[k]) \in Nat
  <2>1. PICK s : s = score[k] /\ s \in Scores
    BY <1>a
  <2>2. /\ \A q \in 0..1 : Bump(s, k, hit)[q] <= s[q] + 1
        /\ Points(Bump(s, k, hit)) = Points(s) + (IF hit THEN 0 ELSE 1) /\ Points(s) \in Nat
    BY ONLY <2>1, k \in Nat, hit \in BOOLEAN, BumpIs
  <2> QED BY ONLY <1>a, <2>1, <2>2
<1>3. /\ local[x] \in RealRecord /\ local[x].scoreboard = score[k] /\ score[k] \in Scores
      /\ \A j \in 0..k : Points(score[j]) >= j - MostServices
      /\ \A j \in 1..k : Undecided(score[j])
  BY <1>1, <1>2 DEF RealScore
<1>4. Bump(score[k], k, hit) = IF hit THEN score[k] ELSE [score[k] EXCEPT ![1 - by] = @ + 1]
  BY DEF Bump
<1>5. /\ local'[x] \in RealRecord /\ local'[x].scoreboard = new[k + 1] /\ local'[x].services = k
      /\ local'[x].rounds = local[x].rounds
      /\ local'[x].winner = -1 <=> hit
  <2>1. PICK o \in 0..1 : o = 1 - by
    OBVIOUS
  <2>2. local'[x] = IF hit THEN [local[x] EXCEPT !.winner = -1]
                    ELSE [local[x] EXCEPT !.winner = o, !.scoreboard = new[k + 1]]
    BY <1>3, <1>4, <2>1 DEF RealRecord, Marks
  <2>3. hit => new[k + 1] = score[k]
    BY <1>4
  <2>a. /\ local[x] \in RealRecord /\ local[x].scoreboard = score[k] /\ k = local[x].services
    BY <1>3
  <2>4. CASE hit
    <3>1. local'[x] = [local[x] EXCEPT !.winner = -1] /\ new[k + 1] = score[k]
      BY <2>2, <2>3, <2>4
    <3> QED BY ONLY <2>a, <2>4, <3>1 DEF RealRecord
  <2>5. CASE ~hit
    <3>1. local'[x] = [local[x] EXCEPT !.winner = o, !.scoreboard = new[k + 1]]
      BY <2>2, <2>5
    <3>2. new[k + 1] \in Scores /\ o \in -1..1 /\ o # -1
      BY ONLY <1>a, o \in 0..1
    <3>3. /\ local'[x] \in RealRecord /\ local'[x].scoreboard = new[k + 1] /\ local'[x].services = k
          /\ local'[x].rounds = local[x].rounds /\ local'[x].winner = o
      BY ONLY <2>a, <3>1, <3>2 DEF RealRecord
    <3> QED BY ONLY <2>5, <3>2, <3>3
  <2> QED BY <2>4, <2>5
<1>6. Seen(x)' = k + 1 /\ Rounds(x)' = k
  BY <1>5 DEF Seen, Rounds
<1>7. \A q \in 0..1 : new[k + 1][q] <= 1 \/ new[k + 1][q] <= input.winScore
  <2>2. CASE k = 0
    <3>1. \A q \in 0..1 : score[k][q] = 0
      BY <2>2
    <3> QED BY ONLY <1>a, <1>b, <3>1
  <2>3. CASE k # 0
    <3>1. \A q \in 0..1 : score[k][q] < input.winScore
      BY <1>3, <2>3 DEF Undecided
    <3> QED BY ONLY <1>a, <1>b, <3>1, input.winScore \in Nat
  <2> QED BY <2>2, <2>3
<1>8. RealScore(new, x)'
  <2>1. \A j \in 0..k + 1 : Points(new[j]) >= j - MostServices
    <3>1. \A j \in 0..k + 1 : j \in 0..k \/ j = k + 1
      OBVIOUS
    <3> QED BY <1>3, <3>1
  <2>2. \A j \in 1..k : Undecided(new[j])'
    BY <1>3 DEF Undecided
  <2> HIDE DEF Seen, Rounds, Points
  <2> QED BY <1>5, <1>6, <1>7, <2>1, <2>2 DEF RealScore
<1>9. RealPlace(new, x)'
  <2>2. (x = 0 => Points(score[k]) = local[x].rounds + 0) /\ Len(entered[x]) = 2 * k - 0
    <3>1. RealPlace(score, x) /\ local[x].scoreboard = score[k]
      BY <1>1, <1>3
    <3> QED BY ONLY <3>1, k = local[x].services, at[x] = "play" DEF RealPlace
  <2>3. Len(entered'[x]) = 2 * k
    BY <2>2
  <2>4. /\ Len(entered[x])' = 2 * local'[x].services - (IF at'[x] = "over" THEN 1 ELSE 0)
        /\ x = 0 => Points(local'[x].scoreboard) = local'[x].rounds + (IF at'[x] = "tally" /\ local'[x].winner # -1 THEN 1 ELSE 0)
    BY <1>3, <1>5, <1>b, <2>2, <2>3 DEF RealRecord
  <2> QED BY <2>4 DEF RealPlace, Points
<1> QED BY <1>2, <1>6, <1>8, <1>9 DEF RealData

(* A player serves.                                                        *)
LEMMA RealServes ==
  ASSUME NEW score \in [Nat -> Scores], RealGoes(score), NEW x \in 0..1, NEW y \in 0..1, x # y,
         input' = input, input.winScore \in Nat,
         at[x] = "play", at'[x] = "tally", at'[y] = at[y], local'[y] = local[y],
         NEW k \in Nat, k = local[x].services, x = Server(k),
         NEW hit \in BOOLEAN, k < MostServices \/ ~hit,
         local'[x] = Marks(local[x], x, hit),
         mail[x][y] = <<>> => mail'[x][y] = <<hit>>, mail'[y][x] = mail[y][x],
         entered' = entered, waits'[y] = waits[y]
  PROVE  \E new \in [Nat -> Scores] : RealGoes(new)'
<1>1. /\ score[0] = [q \in 0..1 |-> 0] /\ RealData(score, x) /\ RealData(score, y)
      /\ RealCalled(score) /\ RealBall(score, x, y) /\ RealBall(score, y, x)
  BY RealPair
<1>2. Seen(x) = k /\ Seen(y) \in Nat /\ Len(entered[x]) <= 2 * k /\ Len(entered[y]) <= 2 * Seen(y)
  BY <1>1, SeenIs DEF Seen
<1>3. Seen(y) = k /\ mail[x][y] = <<>> /\ mail[y][x] = <<>>
  <2>1. PICK l \in Nat : l = Seen(y)
    BY <1>2
  <2>2. ~(l = k + 1 /\ Server(k) = y)
    OBVIOUS
  <2>3. ~(k = l + 1 /\ Server(l) = x)
    <3>1. Server(l) \in 0..1 /\ Server(l + 1) = 1 - Server(l)
      BY ONLY l \in Nat, Serving
    <3> QED BY ONLY x = Server(k), <3>1
  <2> HIDE DEF Seen
  <2>4. /\ (l <= k /\ mail[y][x] = <<>>) \/ (l = k + 1 /\ Server(k) = y)
        /\ (k <= l /\ mail[x][y] = <<>>) \/ (k = l + 1 /\ Server(l) = x)
    BY ONLY <1>1, <1>2, <2>1 DEF RealBall
  <2> QED BY ONLY <2>1, <2>2, <2>3, <2>4, k \in Nat
<1>4. /\ score[k] \in Scores /\ Bump(score[k], k, hit) \in Scores
      /\ Points(score[k]) \in Nat /\ Points(Bump(score[k], k, hit)) = Points(score[k]) + (IF hit THEN 0 ELSE 1)
  BY BumpIs
<1> DEFINE new == [score EXCEPT ![k + 1] = Bump(score[k], k, hit)]
<1>5. /\ new \in [Nat -> Scores] /\ new[k + 1] = Bump(score[k], k, hit)
      /\ \A j \in Nat : j # k + 1 => new[j] = score[j]
  BY <1>4
<1> HIDE DEF new
<1>6. \A j \in 0..k : new[j] = score[j]
  BY <1>5
<1>7. Points(new[k + 1]) >= (k + 1) - MostServices
  <2>1. Points(score[k]) >= k - MostServices
    <3>1. \A j \in 0..k : Points(score[j]) >= j - MostServices
      BY ONLY <1>1, <1>2, at[x] = "play" DEF RealData, RealScore
    <3> QED BY <3>1
  <2>2. MostServices \in Nat
    BY NumbersAssumption
  <2>3. PICK m, s \in Nat : m = MostServices /\ s = Points(score[k])
    BY <1>4, <2>2
  <2>4. Points(new[k + 1]) = s + (IF hit THEN 0 ELSE 1) /\ s >= k - m /\ (k < m \/ ~hit)
    BY <1>4, <1>5, <2>1, <2>3
  <2> QED BY ONLY <2>3, <2>4, k \in Nat
<1>8. RealData(new, x)' /\ Seen(x)' = k + 1
  <2>1. k = 0 => score[0] = [q \in 0..1 |-> 0]
    BY <1>1
  <2>2. Len(entered'[x]) = Len(entered[x])
    OBVIOUS
  <2>3. x \in 0..1 /\ x = Server(k) /\ local'[x] = Marks(local[x], x, hit)
    OBVIOUS
  <2> HIDE DEF Seen
  <2>4. Sees(score, new, x, k, hit)
    BY <1>1, <1>5, <1>6, <1>7, <2>2, <2>3 DEF Sees
  <2> QED BY ONLY <2>4, RealScored
<1>9. RealData(new, y)' /\ Seen(y)' = k
  <2>1. \A j \in 0..Seen(y) : new[j] = score[j]
    BY <1>3, <1>6
  <2>2. entered'[y] = entered[y]
    OBVIOUS
  <2> QED BY ONLY <1>1, <1>3, <2>1, <2>2, input' = input, at'[y] = at[y], local'[y] = local[y],
       waits'[y] = waits[y], RealStays
<1>10. RealCalled(new)'
  <2>1. Len(entered[0]) <= 2 * k
    BY ONLY <1>2, <1>3, x \in 0..1, y \in 0..1, x # y
  <2>2. Len(entered[0]) \in Int
    <3>1. x = 0 \/ y = 0
      OBVIOUS
    <3> QED BY <1>1, <3>1, SeenIs DEF RealData, RealPlace
  <2>3. \A j \in Nat : 2 * j + 1 <= Len(entered[0]) => new[j + 1] = score[j + 1]
    <3> SUFFICES ASSUME NEW j \in Nat, 2 * j + 1 <= Len(entered[0]) PROVE new[j + 1] = score[j + 1]
      OBVIOUS
    <3>1. j + 1 # k + 1 /\ j + 1 \in Nat
      BY <2>1, <2>2
    <3> QED BY <1>5, <3>1
  <2>4. \A j \in Nat : 2 * j + 2 <= Len(entered[0]) => 2 * j + 1 <= Len(entered[0])
    BY <2>2
  <2> QED BY <1>1, <2>3, <2>4 DEF RealCalled, Undecided
<1>11. RealBall(new, x, y)'
  <2>1. mail'[y][x] = <<>>
    BY <1>3
  <2>2. Seen(y)' <= Seen(x)'
    BY ONLY <1>8, <1>9, k \in Nat
  <2> QED BY <2>1, <2>2 DEF RealBall
<1>12. RealBall(new, y, x)'
  <2>1. mail'[x][y] = <<hit>>
    BY <1>3
  <2>2. Seen(x)' = Seen(y)' + 1 /\ Server(Seen(y)') = x /\ Seen(y)' = k
    BY <1>8, <1>9
  <2>3. new[k + 1] = Bump(new[k], k, hit)
    BY <1>5, <1>6
  <2> QED BY <2>1, <2>2, <2>3 DEF RealBall, Bump
<1>13. new[0] = [q \in 0..1 |-> 0]
  BY <1>1, <1>6
<1>14. RealGoes(new)'
  <2>1. (x = 0 /\ y = 1) \/ (x = 1 /\ y = 0)
    OBVIOUS
  <2> QED BY <1>8, <1>9, <1>10, <1>11, <1>12, <1>13, <2>1 DEF RealGoes
<1> QED BY <1>5, <1>14

(* A player sees the service of the other one.                             *)
Awaiting(score, x, y, k, hit) ==
  /\ score \in [Nat -> Scores] /\ RealGoes(score) /\ x \in 0..1 /\ y \in 0..1 /\ x # y
  /\ input' = input /\ input.winScore \in Nat
  /\ at[x] = "play" /\ at'[x] = "tally" /\ at'[y] = at[y] /\ local'[y] = local[y]
  /\ k \in Nat /\ k = local[x].services /\ y = Server(k)
  /\ mail[y][x] # <<>> /\ hit = mail[y][x][1]
  /\ local'[x] = Marks(local[x], y, hit)
  /\ mail'[y][x] = Tail(mail[y][x]) /\ mail'[x][y] = mail[x][y]
  /\ entered' = entered /\ waits'[y] = waits[y]

(* A player waits for the ball that the other has not hit yet.             *)
LEMMA RealAwaits ==
  ASSUME NEW score, NEW x, NEW y, NEW k, NEW hit, Awaiting(score, x, y, k, hit)
  PROVE  RealGoes(score)'
<1>1. /\ score[0] = [q \in 0..1 |-> 0] /\ RealData(score, x) /\ RealData(score, y)
      /\ RealCalled(score) /\ RealBall(score, x, y) /\ RealBall(score, y, x)
  BY RealPair DEF Awaiting
<1>2. at[x] = "play" /\ k \in Nat /\ k = local[x].services /\ mail[y][x] # <<>> /\ hit = mail[y][x][1]
  BY DEF Awaiting
<1>3. Seen(x) = k
  BY <1>2 DEF Seen
<1>4. Seen(y) = k + 1
  BY <1>1, <1>2, <1>3 DEF RealBall
<1>5. hit \in BOOLEAN /\ mail[y][x] = <<hit>> /\ score[k + 1] = Bump(score[k], k, hit)
  BY <1>1, <1>2, <1>3 DEF RealBall
<1>6. mail[x][y] = <<>>
  BY <1>1, <1>2, <1>3, <1>4 DEF RealBall
<1>7. Points(score[k + 1]) >= (k + 1) - MostServices
  <2>1. at[y] # "start"
    BY <1>2, <1>4 DEF Seen
  <2>2. \A j \in 0..k + 1 : Points(score[j]) >= j - MostServices
    BY ONLY <1>1, <1>4, <2>1 DEF RealData, RealScore
  <2> QED BY ONLY <1>2, <2>2
<1>8. RealData(score, x)' /\ Seen(x)' = k + 1
  <2>1. Sees(score, score, x, k, hit)
    BY <1>1, <1>5, <1>7 DEF Sees, Awaiting
  <2> QED BY ONLY <2>1, RealScored
<1>9. RealData(score, y)' /\ Seen(y)' = k + 1
  <2>1. /\ input' = input /\ at'[y] = at[y] /\ local'[y] = local[y] /\ waits'[y] = waits[y]
        /\ entered'[y] = entered[y]
    BY DEF Awaiting
  <2> QED BY ONLY <1>1, <1>4, <2>1, RealStays
<1>10. RealCalled(score)'
  <2>1. entered' = entered /\ input' = input
    BY DEF Awaiting
  <2> QED BY ONLY <1>1, <2>1 DEF RealCalled, Undecided
<1>11. RealBall(score, x, y)' /\ RealBall(score, y, x)'
  <2>1. mail'[y][x] = <<>> /\ mail'[x][y] = <<>>
    BY <1>5, <1>6 DEF Awaiting
  <2>2. Seen(y)' <= Seen(x)' /\ Seen(x)' <= Seen(y)'
    BY ONLY <1>2, <1>8, <1>9
  <2> QED BY ONLY <2>1, <2>2 DEF RealBall
<1>12. RealGoes(score)'
  <2>1. (x = 0 /\ y = 1) \/ (x = 1 /\ y = 0)
    BY DEF Awaiting
  <2> QED BY ONLY <1>1, <1>8, <1>9, <1>10, <1>11, <2>1 DEF RealGoes
<1> QED BY <1>12

(* Steps that leave the services alone: what follows if the data of the    *)
(* player and the collective calls are as they should be.                  *)
Apart(score, x, y) ==
  /\ score \in [Nat -> Scores] /\ RealGoes(score) /\ x \in 0..1 /\ y \in 0..1 /\ x # y
  /\ input' = input /\ input.winScore \in Nat
  /\ at'[y] = at[y] /\ local'[y] = local[y] /\ mail' = mail
  /\ entered'[y] = entered[y] /\ waits'[y] = waits[y]

(* What one player does apart from the other.                              *)
LEMMA RealApart ==
  ASSUME NEW score, NEW x, NEW y, Apart(score, x, y), Seen(x)' = Seen(x),
         RealData(score, x)', x = 0 => RealCalled(score)'
  PROVE  RealGoes(score)'
<1>1. /\ score[0] = [q \in 0..1 |-> 0] /\ RealData(score, x) /\ RealData(score, y)
      /\ RealCalled(score) /\ RealBall(score, x, y) /\ RealBall(score, y, x)
  BY RealPair DEF Apart
<1>2. RealData(score, y)' /\ Seen(y)' = Seen(y)
  <2>1. /\ input' = input /\ at'[y] = at[y] /\ local'[y] = local[y] /\ waits'[y] = waits[y]
        /\ entered'[y] = entered[y]
    BY DEF Apart
  <2> QED BY ONLY <1>1, <2>1, RealStays
<1>3. RealCalled(score)'
  <2>1. CASE x = 0
    BY <2>1
  <2>2. CASE y = 0
    <3>1. entered'[0] = entered[0] /\ input' = input
      BY <2>2 DEF Apart
    <3> QED BY ONLY <1>1, <3>1 DEF RealCalled, Undecided
  <2> QED BY <2>1, <2>2 DEF Apart
<1>4. RealBall(score, x, y)' /\ RealBall(score, y, x)'
  <2>1. mail' = mail
    BY DEF Apart
  <2> QED BY ONLY <1>1, <1>2, <2>1, Seen(x)' = Seen(x) DEF RealBall
<1>5. (x = 0 /\ y = 1) \/ (x = 1 /\ y = 0)
  BY DEF Apart
<1> QED BY ONLY <1>1, <1>2, <1>3, <1>4, <1>5, RealData(score, x)' DEF RealGoes

(* A player enters a collective call.                                      *)
Entering(x, what) ==
  /\ Len(entered[x]) \in Nat /\ Len(entered'[x]) = Len(entered[x]) + 1
  /\ entered'[x][Len(entered[x]) + 1] = what
  /\ \A k \in 1..Len(entered[x]) : entered'[x][k] = entered[x][k]
  /\ x = 1 => 0 \in waits'[x].entry

(* Process 0 gives the next broadcast whether the game is over.            *)
LEMMA RealCallsFlag ==
  ASSUME NEW score, RealCalled(score), NEW what, Entering(0, what), input' = input,
         NEW s \in Nat, Len(entered[0]) = 2 * s, what \in BOOLEAN, what <=> ~Undecided(score[s + 1])
  PROVE  RealCalled(score)'
<1>1. /\ Len(entered'[0]) = 2 * s + 1 /\ entered'[0][2 * s + 1] = what
      /\ \A j \in 1..2 * s : entered'[0][j] = entered[0][j]
  BY DEF Entering
<1>2. ASSUME NEW k \in Nat, 2 * k + 1 <= Len(entered'[0])
      PROVE  entered'[0][2 * k + 1] \in BOOLEAN /\ (entered'[0][2 * k + 1] <=> ~Undecided(score[k + 1]))
  <2>1. CASE k = s
    BY <1>1, <2>1
  <2>2. CASE k # s
    <3>1. 2 * k + 1 <= Len(entered[0]) /\ 2 * k + 1 \in 1..2 * s
      BY ONLY <1>1, <1>2, <2>2, k \in Nat, s \in Nat, Len(entered[0]) = 2 * s
    <3>2. entered[0][2 * k + 1] \in BOOLEAN /\ (entered[0][2 * k + 1] <=> ~Undecided(score[k + 1]))
      BY ONLY <3>1, RealCalled(score), k \in Nat DEF RealCalled
    <3> QED BY ONLY <1>1, <3>1, <3>2
  <2> QED BY <2>1, <2>2
<1>3. ASSUME NEW k \in Nat, 2 * k + 2 <= Len(entered'[0])
      PROVE  entered'[0][2 * k + 2] = score[k + 1]
  <2>1. 2 * k + 2 <= Len(entered[0]) /\ 2 * k + 2 \in 1..2 * s
    BY ONLY <1>1, <1>3, k \in Nat, s \in Nat, Len(entered[0]) = 2 * s
  <2>2. entered[0][2 * k + 2] = score[k + 1]
    BY ONLY <2>1, RealCalled(score), k \in Nat DEF RealCalled
  <2> QED BY ONLY <1>1, <2>1, <2>2
<1> QED BY ONLY <1>2, <1>3, input' = input DEF RealCalled, Undecided

(* Process 0 gives the next broadcast the score.                           *)
LEMMA RealCallsScore ==
  ASSUME NEW score, RealCalled(score), NEW what, Entering(0, what), input' = input,
         NEW s \in Nat, Len(entered[0]) = 2 * s + 1, what = score[s + 1]
  PROVE  RealCalled(score)'
<1>1. /\ Len(entered'[0]) = 2 * s + 2 /\ entered'[0][2 * s + 2] = what
      /\ \A j \in 1..2 * s + 1 : entered'[0][j] = entered[0][j]
  BY DEF Entering
<1>2. ASSUME NEW k \in Nat, 2 * k + 1 <= Len(entered'[0])
      PROVE  entered'[0][2 * k + 1] \in BOOLEAN /\ (entered'[0][2 * k + 1] <=> ~Undecided(score[k + 1]))
  <2>1. 2 * k + 1 <= Len(entered[0]) /\ 2 * k + 1 \in 1..2 * s + 1
    BY ONLY <1>1, <1>2, k \in Nat, s \in Nat, Len(entered[0]) = 2 * s + 1
  <2>2. entered[0][2 * k + 1] \in BOOLEAN /\ (entered[0][2 * k + 1] <=> ~Undecided(score[k + 1]))
    BY ONLY <2>1, RealCalled(score), k \in Nat DEF RealCalled
  <2> QED BY ONLY <1>1, <2>1, <2>2
<1>3. ASSUME NEW k \in Nat, 2 * k + 2 <= Len(entered'[0])
      PROVE  entered'[0][2 * k + 2] = score[k + 1]
  <2>1. CASE k = s
    BY <1>1, <2>1
  <2>2. CASE k # s
    <3>1. 2 * k + 2 <= Len(entered[0]) /\ 2 * k + 2 \in 1..2 * s + 1
      BY ONLY <1>1, <1>3, <2>2, k \in Nat, s \in Nat, Len(entered[0]) = 2 * s + 1
    <3>2. entered[0][2 * k + 2] = score[k + 1]
      BY ONLY <3>1, RealCalled(score), k \in Nat DEF RealCalled
    <3> QED BY ONLY <1>1, <3>1, <3>2
  <2> QED BY <2>1, <2>2
<1> QED BY ONLY <1>2, <1>3, input' = input DEF RealCalled, Undecided

(* What becomes of the data of a player.                                   *)
Counted(data, s, over, r) == [data EXCEPT !.services = s, !.over = over, !.rounds = r]
Noted(data, score) == [data EXCEPT !.scoreboard = score, !.winner = -1]

(* The data of a player who has counted a service.                         *)
LEMMA RealCounted ==
  ASSUME NEW data, data \in RealRecord, NEW s, s \in Nat, NEW over, over \in RealMail, NEW r, r \in Nat
  PROVE  LET counted == Counted(data, s, over, r) IN
         /\ counted \in RealRecord /\ counted.services = s /\ counted.rounds = r
         /\ counted.scoreboard = data.scoreboard
<1> DEFINE first == [data EXCEPT !.services = s]
<1>1. first \in RealRecord /\ first.services = s /\ first.scoreboard = data.scoreboard
  BY DEF RealRecord
<1> HIDE DEF first
<1> DEFINE second == [first EXCEPT !.over = over]
<1>2. second \in RealRecord /\ second.services = s /\ second.scoreboard = data.scoreboard
  BY ONLY <1>1, over \in RealMail DEF RealRecord, RealMail
<1> HIDE DEF second
<1> DEFINE third == [second EXCEPT !.rounds = r]
<1>3. third \in RealRecord /\ third.services = s /\ third.scoreboard = data.scoreboard /\ third.rounds = r
  BY ONLY <1>2, r \in Nat DEF RealRecord
<1> HIDE DEF third
<1>4. Counted(data, s, over, r) = third
  BY DEF Counted, first, second, third
<1> QED BY ONLY <1>3, <1>4

(* The data of a player who has noted the score.                           *)
LEMMA RealNoted ==
  ASSUME NEW data, data \in RealRecord
  PROVE  LET noted == Noted(data, data.scoreboard) IN
         /\ noted \in RealRecord /\ noted.services = data.services /\ noted.rounds = data.rounds
         /\ noted.scoreboard = data.scoreboard /\ noted.over = data.over /\ noted.winner = -1
<1> DEFINE same == [data EXCEPT !.scoreboard = data.scoreboard]
<1>5. /\ same \in RealRecord /\ same.services = data.services /\ same.rounds = data.rounds
      /\ same.scoreboard = data.scoreboard /\ same.over = data.over
  BY ONLY data \in RealRecord DEF RealRecord
<1> HIDE DEF same
<1> DEFINE last == [same EXCEPT !.winner = -1]
<1>6. /\ last \in RealRecord /\ last.services = data.services /\ last.rounds = data.rounds
      /\ last.scoreboard = data.scoreboard /\ last.over = data.over /\ last.winner = -1
  BY ONLY <1>5 DEF RealRecord
<1> HIDE DEF last
<1>7. Noted(data, data.scoreboard) = last
  BY DEF Noted, same, last
<1> QED BY ONLY <1>6, <1>7

(* A player counts the service, ...                                        *)
Tallying(score, x, y, s, over) ==
  /\ Apart(score, x, y) /\ Entering(x, over)
  /\ at[x] = "tally" /\ at'[x] = "over" /\ s = local[x].services
  /\ over \in BOOLEAN /\ (over <=> x = 0 /\ ~Undecided(local[x].scoreboard))
  /\ local'[x] = [local[x] EXCEPT !.services = s + 1, !.over = over,
                    !.rounds = IF x = 0 /\ local[x].winner # -1 THEN @ + 1 ELSE @]

(* The player who has missed the ball counts the point.                    *)
LEMMA RealTallies ==
  ASSUME NEW score, NEW x, NEW y, NEW s, NEW over, Tallying(score, x, y, s, over)
  PROVE  RealGoes(score)'
<1>1. RealData(score, x) /\ RealCalled(score)
  BY RealPair DEF Tallying, Apart
<1>2. /\ at[x] = "tally" /\ at'[x] = "over" /\ s = local[x].services /\ over \in BOOLEAN
      /\ input' = input /\ score \in [Nat -> Scores] /\ Entering(x, over) /\ Apart(score, x, y)
  BY DEF Tallying, Apart
<1>3. RealScore(score, x) /\ RealPlace(score, x)
  BY ONLY <1>1, <1>2 DEF RealData
<1>4. local[x] \in RealRecord /\ s \in Nat /\ Seen(x) = s + 1 /\ Rounds(x) = s
      /\ local[x].scoreboard = score[s + 1]
  BY ONLY <1>2, <1>3 DEF RealScore, RealRecord, Seen, Rounds
<1>5. /\ local'[x] \in RealRecord /\ local'[x].services = s + 1 /\ local'[x].scoreboard = local[x].scoreboard
      /\ local'[x].rounds = IF x = 0 /\ local[x].winner # -1 THEN local[x].rounds + 1 ELSE local[x].rounds
  <2>1. PICK r \in Nat : r = IF x = 0 /\ local[x].winner # -1 THEN local[x].rounds + 1 ELSE local[x].rounds
    BY ONLY <1>4 DEF RealRecord
  <2>2. local'[x] = Counted(local[x], s + 1, over, r)
    BY <2>1 DEF Tallying, Counted
  <2>3. PICK d, t : d = local[x] /\ t = s + 1
    OBVIOUS
  <2>4. d \in RealRecord /\ t \in Nat /\ over \in RealMail /\ r \in Nat
    BY ONLY <1>2, <1>4, <2>1, <2>3 DEF RealMail
  <2>5. /\ Counted(d, t, over, r) \in RealRecord
        /\ Counted(d, t, over, r).services = t /\ Counted(d, t, over, r).rounds = r
        /\ Counted(d, t, over, r).scoreboard = d.scoreboard
    BY ONLY <2>4, RealCounted
  <2> QED BY ONLY <2>1, <2>2, <2>3, <2>5
<1>6. Seen(x)' = Seen(x) /\ Rounds(x)' = Rounds(x)
  BY ONLY <1>2, <1>4, <1>5 DEF Seen, Rounds
<1>7. RealScore(score, x)'
  <2> HIDE DEF Seen, Rounds
  <2> QED BY ONLY <1>2, <1>3, <1>5, <1>6 DEF RealScore, Undecided
<1>8. RealPlace(score, x)'
  <2>1. Len(entered'[x]) = 2 * (s + 1) - 1
    <3>1. Len(entered[x]) = 2 * s
      BY ONLY <1>2, <1>3, <1>4 DEF RealPlace
    <3>2. Len(entered'[x]) = Len(entered[x]) + 1
      BY ONLY <1>2 DEF Entering
    <3> QED BY ONLY <1>4, <3>1, <3>2
  <2>2. x = 0 => Points(local'[x].scoreboard) = local'[x].rounds + 0
    <3>1. x = 0 => Points(local[x].scoreboard) = local[x].rounds + (IF local[x].winner # -1 THEN 1 ELSE 0)
      BY ONLY <1>2, <1>3 DEF RealPlace
    <3>2. Points(local'[x].scoreboard) = Points(local[x].scoreboard) /\ local[x].rounds \in Nat
      BY ONLY <1>4, <1>5 DEF RealRecord
    <3> QED BY ONLY <1>5, <3>1, <3>2
  <2>3. x = 1 => 0 \in waits'[x].entry
    BY ONLY <1>2 DEF Entering
  <2> QED BY ONLY <1>2, <1>4, <1>5, <2>1, <2>2, <2>3 DEF RealPlace, Points
<1>9. RealData(score, x)'
  BY ONLY <1>2, <1>7, <1>8 DEF RealData
<1>10. x = 0 => RealCalled(score)'
  <2>1. x = 0 => Len(entered[0]) = 2 * s
    BY ONLY <1>2, <1>3, <1>4 DEF RealPlace
  <2>2. x = 0 => (over <=> ~Undecided(score[s + 1]))
    BY <1>4 DEF Tallying
  <2> QED BY ONLY <1>1, <1>2, <1>4, <2>1, <2>2, RealCallsFlag
<1> QED BY ONLY <1>2, <1>6, <1>9, <1>10, RealApart

(* ... learns whether the game is over, ...                                *)
LearningOver(score, x, y, s, over) ==
  /\ Apart(score, x, y) /\ Entering(x, local[x].scoreboard)
  /\ at[x] = "over" /\ at'[x] = "score" /\ s = local[x].services
  /\ Len(entered[0]) >= Len(entered[x])
  /\ over = entered[0][Len(entered[x])]
  /\ local'[x] = [local[x] EXCEPT !.over = over]

(* A player learns whether the game is over.                               *)
LEMMA RealLearnsOver ==
  ASSUME NEW score, NEW x, NEW y, NEW s, NEW over, LearningOver(score, x, y, s, over)
  PROVE  RealGoes(score)'
<1>1. RealData(score, x) /\ RealCalled(score)
  BY RealPair DEF LearningOver, Apart
<1>2. /\ at[x] = "over" /\ at'[x] = "score" /\ s = local[x].services
      /\ input' = input /\ Entering(x, local[x].scoreboard) /\ Apart(score, x, y)
      /\ local'[x] = [local[x] EXCEPT !.over = over]
  BY DEF LearningOver, Apart
<1>3. RealScore(score, x) /\ RealPlace(score, x)
  BY ONLY <1>1, <1>2 DEF RealData
<1>4. local[x] \in RealRecord /\ s \in Nat \ {0} /\ Seen(x) = s /\ Rounds(x) = s - 1
      /\ local[x].scoreboard = score[s] /\ Len(entered[x]) = 2 * s - 1
  BY ONLY <1>2, <1>3 DEF RealScore, RealPlace, RealRecord, Seen, Rounds
<1>5. PICK r \in Nat : r = s - 1 /\ s = r + 1 /\ Len(entered[x]) = 2 * r + 1
  BY ONLY <1>4
<1>6. over \in BOOLEAN /\ (over <=> ~Undecided(score[s]))
  <2>1. 2 * r + 1 <= Len(entered[0]) /\ over = entered[0][2 * r + 1]
    <3>1. Len(entered[0]) >= Len(entered[x]) /\ over = entered[0][Len(entered[x])]
      BY DEF LearningOver
    <3> QED BY ONLY <1>5, <3>1
  <2> QED BY ONLY <1>1, <1>5, <2>1 DEF RealCalled
<1>7. /\ local'[x] \in RealRecord /\ local'[x].services = s /\ local'[x].scoreboard = local[x].scoreboard
      /\ local'[x].rounds = local[x].rounds /\ local'[x].over = over
  BY ONLY <1>2, <1>4, <1>6 DEF RealRecord
<1>8. Seen(x)' = Seen(x) /\ Rounds(x)' = Rounds(x)
  BY ONLY <1>2, <1>4, <1>7 DEF Seen, Rounds
<1>9. RealScore(score, x)'
  <2> HIDE DEF Seen, Rounds
  <2> QED BY ONLY <1>2, <1>3, <1>7, <1>8 DEF RealScore, Undecided
<1>10. RealPlace(score, x)'
  <2>1. Len(entered'[x]) = 2 * s
    <3>1. Len(entered'[x]) = Len(entered[x]) + 1
      BY ONLY <1>2 DEF Entering
    <3> QED BY ONLY <1>4, <3>1
  <2>2. x = 0 => Points(local'[x].scoreboard) = local'[x].rounds + 0
    <3>1. x = 0 => Points(local[x].scoreboard) = local[x].rounds + 0
      BY ONLY <1>2, <1>3 DEF RealPlace
    <3> QED BY ONLY <1>7, <3>1
  <2>3. x = 1 => 0 \in waits'[x].entry
    BY ONLY <1>2 DEF Entering
  <2>4. local'[x].over <=> ~Undecided(score[s])
    BY ONLY <1>6, <1>7
  <2> QED BY ONLY <1>2, <1>4, <1>7, <2>1, <2>2, <2>3, <2>4 DEF RealPlace, Points, Undecided
<1>11. RealData(score, x)'
  BY ONLY <1>2, <1>9, <1>10 DEF RealData
<1>12. x = 0 => RealCalled(score)'
  BY ONLY <1>1, <1>2, <1>4, <1>5, RealCallsScore
<1> QED BY ONLY <1>2, <1>8, <1>11, <1>12, RealApart

(* ... and the score.                                                      *)
LearningScore(score, x, y, s) ==
  /\ Apart(score, x, y) /\ entered'[x] = entered[x] /\ waits'[x] = waits[x]
  /\ at[x] = "score" /\ at'[x] = (IF local[x].over THEN "ended" ELSE "play") /\ s = local[x].services
  /\ Len(entered[0]) >= Len(entered[x])
  /\ local'[x] = [local[x] EXCEPT !.scoreboard = entered[0][Len(entered[x])], !.winner = -1]

(* A player learns the score.                                              *)
LEMMA RealLearnsScore ==
  ASSUME NEW score, NEW x, NEW y, NEW s, LearningScore(score, x, y, s)
  PROVE  RealGoes(score)'
<1>1. RealData(score, x) /\ RealCalled(score)
  BY RealPair DEF LearningScore, Apart
<1>2. /\ at[x] = "score" /\ at'[x] = (IF local[x].over THEN "ended" ELSE "play") /\ s = local[x].services
      /\ input' = input /\ Apart(score, x, y) /\ entered'[x] = entered[x] /\ waits'[x] = waits[x]
  BY DEF LearningScore, Apart
<1>3. RealScore(score, x) /\ RealPlace(score, x)
  BY ONLY <1>1, <1>2 DEF RealData
<1>4. /\ local[x] \in RealRecord /\ s \in Nat \ {0} /\ Seen(x) = s /\ Rounds(x) = s - 1
      /\ local[x].scoreboard = score[s] /\ Len(entered[x]) = 2 * s
      /\ local[x].over \in BOOLEAN /\ (local[x].over <=> ~Undecided(score[s]))
  BY ONLY <1>2, <1>3 DEF RealScore, RealPlace, RealRecord, Seen, Rounds
<1>5. entered[0][Len(entered[x])] = local[x].scoreboard
  <2>1. PICK r \in Nat : s = r + 1 /\ Len(entered[x]) = 2 * r + 2
    BY ONLY <1>4, s - 1 \in Nat
  <2>2. Len(entered[0]) >= Len(entered[x])
    BY DEF LearningScore
  <2>3. entered[0][2 * r + 2] = score[r + 1]
    BY ONLY <1>1, <2>1, <2>2 DEF RealCalled
  <2> QED BY ONLY <1>4, <2>1, <2>3
<1>6. local'[x] = Noted(local[x], local[x].scoreboard)
  BY <1>5 DEF LearningScore, Noted
<1>7. /\ local'[x] \in RealRecord /\ local'[x].services = s /\ local'[x].scoreboard = local[x].scoreboard
      /\ local'[x].rounds = local[x].rounds /\ local'[x].over = local[x].over /\ local'[x].winner = -1
  <2>1. PICK d : d = local[x]
    OBVIOUS
  <2>2. d \in RealRecord
    BY ONLY <1>4, <2>1
  <2>3. /\ Noted(d, d.scoreboard) \in RealRecord /\ Noted(d, d.scoreboard).services = d.services
        /\ Noted(d, d.scoreboard).rounds = d.rounds /\ Noted(d, d.scoreboard).scoreboard = d.scoreboard
        /\ Noted(d, d.scoreboard).over = d.over /\ Noted(d, d.scoreboard).winner = -1
    BY ONLY <2>2, RealNoted
  <2> QED BY ONLY <1>2, <1>6, <2>1, <2>3
<1>8. /\ Seen(x)' = Seen(x) /\ Rounds(x)' = (IF local[x].over THEN s - 1 ELSE s)
      /\ at'[x] \in {"ended", "play"}
  BY ONLY <1>2, <1>4, <1>7 DEF Seen, Rounds
<1>9. RealScore(score, x)'
  <2>1. \A k \in 1..(IF local[x].over THEN s - 1 ELSE s) : Undecided(score[k])
    <3>1. \A k \in 1..s - 1 : Undecided(score[k])
      <4> HIDE DEF Rounds
      <4> QED BY ONLY <1>3, <1>4 DEF RealScore
    <3>2. \A k \in 1..s : k \in 1..s - 1 \/ k = s
      BY ONLY <1>4
    <3> QED BY ONLY <1>4, <3>1, <3>2
  <2> HIDE DEF Seen, Rounds
  <2>2. \A k \in 1..Rounds(x)' : Undecided(score[k])'
    BY ONLY <1>2, <1>8, <2>1 DEF Undecided
  <2> QED BY ONLY <1>2, <1>3, <1>7, <1>8, <2>2 DEF RealScore
<1>10. RealPlace(score, x)'
  <2>2. x = 0 => Points(local'[x].scoreboard) = local'[x].rounds + 0
    <3>1. x = 0 => Points(local[x].scoreboard) = local[x].rounds + 0
      BY ONLY <1>2, <1>3 DEF RealPlace
    <3> QED BY ONLY <1>7, <3>1
  <2>3. Len(entered'[x]) = 2 * s - 0
    BY ONLY <1>2, <1>4
  <2>4. at'[x] = "ended" => local'[x].over = TRUE /\ ~Undecided(score[s])
    BY ONLY <1>2, <1>4, <1>7
  <2>5. s >= 1
    BY ONLY <1>4
  <2> QED BY ONLY <1>2, <1>7, <1>8, <2>2, <2>3, <2>4, <2>5 DEF RealPlace, Points, Undecided
<1>11. RealData(score, x)'
  BY ONLY <1>8, <1>9, <1>10 DEF RealData
<1>12. x = 0 => RealCalled(score)'
  BY ONLY <1>1, <1>2 DEF RealCalled, Undecided
<1> QED BY ONLY <1>2, <1>8, <1>11, <1>12, RealApart

(* A collective call, as the programs of messages make it.                 *)
LEMMA MessagesCall ==
  ASSUME NEW n, NEW M, NEW E, Talks(n, M, E), NEW p \in Procs(n), NEW what \in E,
         Messages!Processes = Procs(n), NEW needed \in SUBSET Procs(n),
         Messages!Enters(p, what, needed)
  PROVE  /\ Talks(n, M, E)'
         /\ Len(entered[p]) \in Nat /\ Len(entered'[p]) = Len(entered[p]) + 1
         /\ entered'[p][Len(entered[p]) + 1] = what
         /\ \A k \in 1..Len(entered[p]) : entered'[p][k] = entered[p][k]
         /\ \A a \in Procs(n) : a # p => entered'[a] = entered[a]
         /\ waits'[p].receipt = {} /\ needed \subseteq waits'[p].entry
         /\ \A a \in Procs(n) : a # p => waits'[a] = waits[a]
         /\ mail' = mail
<1>1. PICK others \in {needed, Procs(n)} : Calls(p, what, others)
  BY DEF Messages!Enters, Calls
<1>2. others \in SUBSET Procs(n) /\ needed \subseteq others
  BY <1>1
<1>3. entered[p] \in Seq(E)
  BY DEF Talks
<1> QED BY <1>1, <1>2, <1>3, CallsTogether, LenProperties

(* A message is sent, with its hypotheses as one.                          *)
Sending(n, M, E, p, q, what) ==
  /\ Talks(n, M, E) /\ p \in Procs(n) /\ q \in Procs(n) /\ what \in M
  /\ Messages!Sends(p, q, what)

(* A message that is sent is the last in the mail.                         *)
LEMMA MessagesSent ==
  ASSUME NEW n, NEW M, NEW E, NEW p, NEW q, NEW what, Sending(n, M, E, p, q, what)
  PROVE  /\ Talks(n, M, E)' /\ mail'[p][q] = Append(mail[p][q], what)
         /\ \A a, b \in Procs(n) : a # p \/ b # q => mail'[a][b] = mail[a][b]
         /\ entered' = entered /\ \A a \in Procs(n) : a # p => waits'[a] = waits[a]
<1> SUFFICES ASSUME Talks(n, M, E), p \in Procs(n), q \in Procs(n), what \in M, Messages!Sends(p, q, what)
             PROVE  /\ Talks(n, M, E)' /\ mail'[p][q] = Append(mail[p][q], what)
                    /\ \A a, b \in Procs(n) : a # p \/ b # q => mail'[a][b] = mail[a][b]
                    /\ entered' = entered /\ \A a \in Procs(n) : a # p => waits'[a] = waits[a]
  BY DEF Sending
<1> QED BY MessagesSend

(* What a step of the game keeps.                                          *)
LEMMA RealKept ==
  ASSUME NEW n, RealInv(n), program' = program, input' = input, n = 2, input.proper,
         Talks(n, RealMail, RealCalls)', Stands(n, RealPoints, Nothing)',
         \E score \in [Nat -> Scores] : RealGoes(score)'
  PROVE  RealInv(n)'
BY DEF RealInv, Runs

(* The game before and after a step: the other player stays where it is.   *)
LEMMA RealStep ==
  ASSUME NEW n, RealInv(n), NEW p \in Procs(n), Messages!RealisticGame(p),
         program' = program, input' = input
  PROVE  RealInv(n)'
<1>0. /\ Talks(n, RealMail, RealCalls) /\ Stands(n, RealPoints, Nothing)
      /\ {"start", "failed", "play", "tally", "over", "score", "ended"} = RealPoints
  BY DEF RealInv, Runs, RealPoints
<1>1. /\ Runs("ping_pong_realistic", n, RealPoints, RealMail, RealCalls, Nothing)
      /\ Messages!Count = n /\ Messages!Processes = Procs(n) /\ input.winScore \in Nat
  BY CountIs DEF RealInv
<1>2. CASE n # 2 \/ ~input.proper
  <2>1. at[p] \in {"start", "failed"}
    BY <1>2 DEF RealInv
  <2>2. Messages!Refuses(p)
    BY <1>1, <1>2, <2>1 DEF Messages!RealisticGame, Messages!RealStarts, Messages!Serves, Messages!Awaits,
       Messages!Tallies, Messages!LearnsOver, Messages!LearnsScore, Messages!Goes
  <2>3. Moves(p, "failed") /\ local' = local /\ Alone /\ output' = output /\ "failed" \in RealPoints
    BY <1>0, <2>2, MessagesRefuse
  <2>4. /\ Talks(n, RealMail, RealCalls)' /\ Stands(n, RealPoints, Nothing)'
        /\ at'[p] = "failed" /\ \A q \in Procs(n) : q # p => at'[q] = at[q]
    BY <1>0, <2>3, StaysAlone, StandsMoved
  <2> QED BY <1>1, <1>2, <2>4 DEF Runs, RealInv
<1>3. CASE n = 2 /\ input.proper
  <2>1. Procs(n) = 0..1
    BY <1>3 DEF Procs
  <2>2. PICK score \in [Nat -> Scores] : RealGoes(score)
    BY <1>3 DEF RealInv
  <2>3. PICK x \in 0..1, y \in 0..1 : x = p /\ y = 1 - p /\ x # y
    BY <2>1
  <2>4. x \in Procs(n) /\ y \in Procs(n) /\ x # y
    BY <2>1, <2>3
  <2>5. 1 - x = y /\ 1 - y = x
    BY <2>3
  <2>6. RealData(score, x)
    BY <2>2, <2>3, RealPair
  <2>7. ASSUME NEW to \in RealPoints, Moves(x, to), output' = output,
               local' = local \/ \E data : Keeps(x, data)
        PROVE  /\ Stands(n, RealPoints, Nothing)' /\ at'[x] = to /\ at'[y] = at[y] /\ local'[y] = local[y]
               /\ \A data : Keeps(x, data) => local'[x] = data
    BY ONLY <1>0, <2>4, <2>7, StandsMoved, KeepsData
  <2>8. ASSUME at[x] \in {"over", "score"}, Messages!Returned(x) PROVE Len(entered[0]) >= Len(entered[x])
    <3>1. entered[0] \in Seq(RealCalls)
      BY <1>0, <2>1 DEF Talks
    <3>2. Len(entered[0]) \in Nat
      BY <3>1, LenProperties
    <3>3. CASE x = 0
      BY <3>2, <3>3
    <3>4. CASE x = 1
      <4>1. 0 \in waits[x].entry
        BY <2>6, <2>8, <3>4 DEF RealData, RealPlace
      <4> QED BY <2>8, <4>1 DEF Messages!Returned, Messages!AllEntered
    <3> QED BY <3>3, <3>4
  <2>9. CASE Messages!RealStarts(x)
    <3>1. /\ at[x] = "start" /\ Moves(x, "play") /\ output' = output /\ Alone /\ Keeps(x, NoScore)
          /\ "play" \in RealPoints
      BY <1>0, <2>9, MessagesMoves DEF Messages!RealStarts, Messages!Quietly, Messages!Keep, Keeps,
         Messages!Computes, Messages!communication, Alone, NoScore
    <3>2. /\ Stands(n, RealPoints, Nothing)' /\ at'[x] = "play" /\ at'[y] = at[y] /\ local'[y] = local[y]
          /\ local'[x] = NoScore
      BY ONLY <2>7, <3>1
    <3>3. Talks(n, RealMail, RealCalls)'
      BY <1>0, <3>1, StaysAlone
    <3>4. mail' = mail /\ entered' = entered /\ waits' = waits
      BY <3>1 DEF Alone
    <3>5. Beginning(score, x, y)
      BY ONLY <1>1, <2>2, <2>3, <3>1, <3>2, <3>4, score \in [Nat -> Scores], x \in 0..1, y \in 0..1,
         input' = input DEF Beginning
    <3>6. RealGoes(score)'
      BY ONLY <3>5, RealBegins
    <3> QED BY <1>3, <2>2, <3>2, <3>3, <3>6, RealKept
  <2>10. CASE Messages!Serves(x)
    <3> DEFINE k == local[x].services
    <3>1. k \in Nat
      BY <2>6, <2>10, SeenIs DEF Messages!Serves, Messages!Goes
    <3>2. PICK hit \in Messages!simulate_service(x) :
            Messages!Sends(x, 1 - x, hit) /\ Messages!Keep(x, Messages!Scored(x, x, hit))
      BY <2>10 DEF Messages!Serves
    <3>3. hit \in RealMail /\ (k < MostServices \/ ~hit)
      BY <3>2 DEF Messages!simulate_service, RealMail
    <3>4. /\ at[x] = "play" /\ Moves(x, "tally") /\ output' = output /\ "tally" \in RealPoints
          /\ x = Server(k)
      BY <1>0, <2>10, MessagesMoves DEF Messages!Serves, Messages!Quietly, Server
    <3> HIDE DEF k
    <3>5. Keeps(x, Marks(local[x], x, hit)) /\ Messages!Sends(x, y, hit)
      BY <2>5, <3>2 DEF Messages!Keep, Keeps, Messages!Scored, Marks
    <3>6. /\ Stands(n, RealPoints, Nothing)' /\ at'[x] = "tally" /\ at'[y] = at[y] /\ local'[y] = local[y]
          /\ local'[x] = Marks(local[x], x, hit)
      BY ONLY <2>7, <3>4, <3>5
    <3>7. /\ Talks(n, RealMail, RealCalls)' /\ mail'[x][y] = Append(mail[x][y], hit)
          /\ mail'[y][x] = mail[y][x] /\ entered' = entered /\ waits'[y] = waits[y]
      <4>1. PICK w \in RealMail : w = hit /\ Messages!Sends(x, y, w)
        BY <3>3, <3>5
      <4>2. Talks(n, RealMail, RealCalls) /\ x \in Procs(n) /\ y \in Procs(n)
        BY <1>0, <2>4
      <4>3. Sending(n, RealMail, RealCalls, x, y, w)
        BY ONLY <4>1, <4>2 DEF Sending
      <4>4. /\ Talks(n, RealMail, RealCalls)' /\ mail'[x][y] = Append(mail[x][y], w)
            /\ \A a, b \in Procs(n) : a # x \/ b # y => mail'[a][b] = mail[a][b]
            /\ entered' = entered /\ \A a \in Procs(n) : a # x => waits'[a] = waits[a]
        BY ONLY <4>3, MessagesSent
      <4> QED BY ONLY <2>4, <4>1, <4>4
    <3>8. mail[x][y] = <<>> => mail'[x][y] = <<hit>>
      BY ONLY <3>7
    <3>9. \E new \in [Nat -> Scores] : RealGoes(new)'
      <4>1. hit \in BOOLEAN
        BY <3>3 DEF RealMail
      <4>2. k = local[x].services
        BY DEF k
      <4> QED BY ONLY <1>1, <2>2, <2>4, <3>1, <3>3, <3>4, <3>6, <3>7, <3>8, <4>1, <4>2, score \in [Nat -> Scores],
           x \in 0..1, y \in 0..1, input' = input, RealServes
    <3> QED BY ONLY <1>3, <3>6, <3>7, <3>9, RealInv(n), program' = program, input' = input, RealKept
  <2>11. CASE Messages!Awaits(x)
    <3> DEFINE k == local[x].services
    <3>1. k \in Nat
      BY <2>6, <2>11, SeenIs DEF Messages!Awaits, Messages!Goes
    <3>2. PICK hit : Messages!Receives(x, 1 - x, hit) /\ Messages!Keep(x, Messages!Scored(x, 1 - x, hit))
      BY <2>11 DEF Messages!Awaits
    <3>3. /\ at[x] = "play" /\ Moves(x, "tally") /\ output' = output /\ "tally" \in RealPoints
          /\ x # Server(k)
      BY <1>0, <2>11, MessagesMoves DEF Messages!Awaits, Messages!Quietly, Server
    <3>4. y = Server(k)
      BY <2>3, <3>1, <3>3, Serving
    <3> HIDE DEF k
    <3>5. Keeps(x, Marks(local[x], y, hit)) /\ Messages!Receives(x, y, hit)
      BY <2>5, <3>2 DEF Messages!Keep, Keeps, Messages!Scored, Marks
    <3>6. /\ Stands(n, RealPoints, Nothing)' /\ at'[x] = "tally" /\ at'[y] = at[y] /\ local'[y] = local[y]
          /\ local'[x] = Marks(local[x], y, hit)
      BY ONLY <2>7, <3>3, <3>5
    <3>7. /\ Talks(n, RealMail, RealCalls)' /\ mail'[y][x] = Tail(mail[y][x])
          /\ mail'[x][y] = mail[x][y] /\ entered' = entered /\ waits' = waits
          /\ mail[y][x] # <<>> /\ hit = mail[y][x][1]
      BY ONLY <1>0, <2>4, <3>5, MessagesReceive
    <3>8. Awaiting(score, x, y, k, hit)
      BY ONLY <1>1, <2>2, <2>4, <3>1, <3>3, <3>4, <3>6, <3>7, score \in [Nat -> Scores], x \in 0..1, y \in 0..1,
         input' = input DEF Awaiting, k
    <3>9. RealGoes(score)'
      BY ONLY <3>8, RealAwaits
    <3> QED BY <1>3, <2>2, <3>6, <3>7, <3>9, RealKept
  <2>12. ASSUME NEW what \in RealCalls, Messages!Broadcasts(x, what)
         PROVE  /\ Talks(n, RealMail, RealCalls)' /\ Entering(x, what)
                /\ entered'[y] = entered[y] /\ waits'[y] = waits[y] /\ mail' = mail
    <3> DEFINE needed == {0} \ {x}
    <3>1. needed \in SUBSET Procs(n) /\ Messages!Enters(x, what, needed) /\ (x = 1 => 0 \in needed)
      BY <2>1, <2>12 DEF Messages!Broadcasts
    <3> HIDE DEF needed
    <3>2. /\ Talks(n, RealMail, RealCalls)'
          /\ Len(entered[x]) \in Nat /\ Len(entered'[x]) = Len(entered[x]) + 1
          /\ entered'[x][Len(entered[x]) + 1] = what
          /\ \A k \in 1..Len(entered[x]) : entered'[x][k] = entered[x][k]
          /\ entered'[y] = entered[y] /\ waits'[y] = waits[y] /\ mail' = mail
          /\ needed \subseteq waits'[x].entry
      BY ONLY <1>0, <1>1, <2>4, <3>1, what \in RealCalls, MessagesCall
    <3> QED BY <3>1, <3>2 DEF Entering
  <2>13. ASSUME entered'[y] = entered[y], waits'[y] = waits[y], mail' = mail, at'[y] = at[y], local'[y] = local[y]
         PROVE  Apart(score, x, y)
    BY <1>1, <2>2, <2>3, <2>13 DEF Apart
  <2>14. CASE Messages!Tallies(x)
    <3>1. PICK over \in BOOLEAN : over <=> x = 0 /\ \E q \in 0..1 : local[x].scoreboard[q] >= input.winScore
      OBVIOUS
    <3>2. /\ at[x] = "tally" /\ Moves(x, "over") /\ output' = output /\ "over" \in RealPoints
          /\ Messages!Broadcasts(x, over)
          /\ Keeps(x, [local[x] EXCEPT !.services = @ + 1, !.over = over,
                         !.rounds = IF x = 0 /\ local[x].winner # -1 THEN @ + 1 ELSE @])
      BY <1>0, <2>14, <3>1, MessagesMoves DEF Messages!Tallies, Messages!Quietly, Messages!Keep, Keeps
    <3>3. /\ Stands(n, RealPoints, Nothing)' /\ at'[x] = "over" /\ at'[y] = at[y] /\ local'[y] = local[y]
          /\ local'[x] = [local[x] EXCEPT !.services = @ + 1, !.over = over,
                         !.rounds = IF x = 0 /\ local[x].winner # -1 THEN @ + 1 ELSE @]
      BY ONLY <2>7, <3>2
    <3>4. over \in RealCalls
      BY DEF RealCalls
    <3>5. /\ Talks(n, RealMail, RealCalls)' /\ Entering(x, over) /\ Apart(score, x, y)
      BY ONLY <2>12, <2>13, <3>2, <3>3, <3>4
    <3>6. over <=> x = 0 /\ ~Undecided(local[x].scoreboard)
      <4>1. RealScore(score, x)
        BY <2>6, <3>2 DEF RealData
      <4>2. local[x].scoreboard[0] \in Nat /\ local[x].scoreboard[1] \in Nat
        BY <4>1 DEF RealScore, RealRecord, Scores
      <4> QED BY <1>1, <3>1, <4>2 DEF Undecided
    <3>7. Tallying(score, x, y, local[x].services, over)
      BY ONLY <3>1, <3>2, <3>3, <3>5, <3>6 DEF Tallying
    <3>8. RealGoes(score)'
      BY ONLY <3>7, RealTallies
    <3> QED BY <1>3, <2>2, <3>3, <3>5, <3>8, RealKept
  <2>15. CASE Messages!LearnsOver(x)
    <3>1. PICK over : over = entered[0][Len(entered[x])]
      OBVIOUS
    <3>2. /\ at[x] = "over" /\ Messages!Returned(x) /\ Moves(x, "score") /\ output' = output
          /\ "score" \in RealPoints
          /\ Messages!Broadcasts(x, local[x].scoreboard) /\ Keeps(x, [local[x] EXCEPT !.over = over])
      BY <1>0, <2>15, <3>1, MessagesMoves DEF Messages!LearnsOver, Messages!Quietly, Messages!Keep, Keeps,
         Messages!FromRoot
    <3>3. /\ Stands(n, RealPoints, Nothing)' /\ at'[x] = "score" /\ at'[y] = at[y] /\ local'[y] = local[y]
          /\ local'[x] = [local[x] EXCEPT !.over = over]
      BY ONLY <2>7, <3>2
    <3>4. local[x].scoreboard \in RealCalls
      <4>1. RealScore(score, x)
        BY <2>6, <3>2 DEF RealData
      <4> QED BY <4>1 DEF RealScore, RealRecord, RealCalls
    <3>5. /\ Talks(n, RealMail, RealCalls)' /\ Entering(x, local[x].scoreboard) /\ Apart(score, x, y)
      BY ONLY <2>12, <2>13, <3>2, <3>3, <3>4
    <3>6. Len(entered[0]) >= Len(entered[x])
      BY ONLY <2>8, <3>2
    <3>7. LearningOver(score, x, y, local[x].services, over)
      BY ONLY <3>1, <3>2, <3>3, <3>5, <3>6 DEF LearningOver
    <3>8. RealGoes(score)'
      BY ONLY <3>7, RealLearnsOver
    <3> QED BY <1>3, <2>2, <3>3, <3>5, <3>8, RealKept
  <2>16. CASE Messages!LearnsScore(x)
    <3>1. PICK to : to = IF local[x].over THEN "ended" ELSE "play"
      OBVIOUS
    <3>2. /\ at[x] = "score" /\ Messages!Returned(x) /\ Moves(x, to) /\ output' = output
          /\ to \in RealPoints /\ Alone
          /\ Keeps(x, [local[x] EXCEPT !.scoreboard = entered[0][Len(entered[x])], !.winner = -1])
      BY <1>0, <2>16, <3>1, MessagesMoves DEF Messages!LearnsScore, Messages!Quietly, Messages!Keep, Keeps,
         Messages!FromRoot, Messages!Computes, Messages!communication, Alone
    <3>3. /\ Stands(n, RealPoints, Nothing)' /\ at'[x] = to /\ at'[y] = at[y] /\ local'[y] = local[y]
          /\ local'[x] = [local[x] EXCEPT !.scoreboard = entered[0][Len(entered[x])], !.winner = -1]
      BY ONLY <2>7, <3>2
    <3>4. Talks(n, RealMail, RealCalls)'
      BY <1>0, <3>2, StaysAlone
    <3>5. Apart(score, x, y) /\ entered'[x] = entered[x] /\ waits'[x] = waits[x]
      <4>1. mail' = mail /\ entered' = entered /\ waits' = waits
        BY <3>2 DEF Alone
      <4> QED BY <2>13, <3>3, <4>1
    <3>6. Len(entered[0]) >= Len(entered[x])
      BY ONLY <2>8, <3>2
    <3>7. LearningScore(score, x, y, local[x].services)
      BY ONLY <3>1, <3>2, <3>3, <3>5, <3>6 DEF LearningScore
    <3>8. RealGoes(score)'
      BY ONLY <3>7, RealLearnsScore
    <3> QED BY <1>3, <2>2, <3>3, <3>4, <3>8, RealKept
  <2> QED
    <3>1. ~(Messages!Count # 2 \/ ~input.proper)
      BY <1>1, <1>3
    <3> QED BY <2>3, <2>9, <2>10, <2>11, <2>14, <2>15, <2>16, <3>1 DEF Messages!RealisticGame
<1> QED BY <1>2, <1>3

(* In the terms of the module: the players' counts are bounded, ...        *)
LEMMA RealBounds ==
  ASSUME NEW score \in [Nat -> Scores], NEW p, RealData(score, p), at[p] # "start", input.winScore \in Nat
  PROVE  /\ local[p].winner \in -1..1
         /\ local[p].scoreboard \in [0..1 -> 0..Messages!Max({1, input.winScore})]
         /\ local[p].services \in 0..MostServices + 2 * input.winScore
<1>1. RealScore(score, p) /\ RealPlace(score, p) /\ local[p] \in RealRecord
  BY DEF RealData, RealScore
<1>2. PICK most : most = Messages!Max({1, input.winScore})
  OBVIOUS
<1>3. most \in Nat /\ most >= 1 /\ most >= input.winScore
  <2>1. most = CHOOSE x \in {1, input.winScore} : \A y \in {1, input.winScore} : x >= y
    BY <1>2 DEF Messages!Max
  <2>2. \E x \in {1, input.winScore} : \A y \in {1, input.winScore} : x >= y
    <3>1. CASE input.winScore >= 1
      BY <3>1
    <3>2. CASE ~(input.winScore >= 1)
      BY <3>2
    <3> QED BY <3>1, <3>2
  <2>3. most \in {1, input.winScore} /\ \A y \in {1, input.winScore} : most >= y
    BY ONLY <2>1, <2>2
  <2> QED BY ONLY <2>3, input.winScore \in Nat
<1>4. local[p].scoreboard \in [0..1 -> 0..most]
  <2>1. local[p].scoreboard \in Scores
    BY ONLY <1>1 DEF RealRecord
  <2>2. \A q \in 0..1 : local[p].scoreboard[q] <= 1 \/ local[p].scoreboard[q] <= input.winScore
    BY ONLY <1>1 DEF RealScore
  <2>3. \A q \in 0..1 : local[p].scoreboard[q] \in 0..most
    BY ONLY <1>3, <2>1, <2>2, input.winScore \in Nat DEF Scores
  <2> QED BY ONLY <2>1, <2>3 DEF Scores
<1>5. local[p].services \in 0..MostServices + 2 * input.winScore
  <2>1. PICK s, m, w \in Nat : s = local[p].services /\ m = MostServices /\ w = input.winScore /\ m >= 1
    BY <1>1, NumbersAssumption DEF RealRecord
  <2>2. PICK r \in Int : r = Rounds(p) /\ (r = s \/ r = s - 1) /\ r <= Seen(p) /\ Seen(p) \in Nat
    BY ONLY <2>1, at[p] # "start" DEF Rounds, Seen
  <2>3. CASE r >= 1
    <3>1. r \in 1..Rounds(p) /\ r \in 0..Seen(p) /\ r \in Nat
      <4> HIDE DEF Rounds, Seen
      <4> QED BY ONLY <2>2, <2>3
    <3>2. Undecided(score[r]) /\ Points(score[r]) >= r - MostServices /\ score[r] \in Scores
      <4> HIDE DEF Rounds, Seen
      <4> QED BY ONLY <1>1, <3>1, score \in [Nat -> Scores] DEF RealScore
    <3>3. PICK a, b \in Nat : a = score[r][0] /\ b = score[r][1]
      BY ONLY <3>2 DEF Scores
    <3>4. a < w /\ b < w /\ a + b >= r - m
      BY ONLY <2>1, <3>2, <3>3 DEF Undecided, Points
    <3>5. s <= m + 2 * w
      BY ONLY <2>1, <2>2, <3>3, <3>4
    <3> QED BY ONLY <2>1, <3>5
  <2>4. CASE ~(r >= 1)
    <3>1. s <= m + 2 * w
      BY ONLY <2>1, <2>2, <2>4
    <3> QED BY ONLY <2>1, <3>1
  <2> QED BY ONLY <2>3, <2>4
<1> QED BY <1>1, <1>2, <1>4, <1>5 DEF RealRecord

RealOver(score, x) ==
  /\ local[x] \in RealRecord /\ local[x].over = TRUE /\ local[x].winner = -1
  /\ local[x].services >= 1 /\ ~Undecided(score[local[x].services])
  /\ local[x].scoreboard = score[local[x].services]
  /\ \A k \in 1..local[x].services - 1 : Undecided(score[k])

(* ... the players agree on the score, and process 0 counts the rounds.    *)
LEMMA RealRight ==
  ASSUME NEW n, RealInv(n)
  PROVE  \A p, q \in Messages!Playing :
         /\ at[p] \in {"over", "score"} /\ at[q] \in {"over", "score"}
              /\ local[p].services = local[q].services
              => local[p].scoreboard = local[q].scoreboard
         /\ at[p] = "ended" /\ at[q] = "ended" =>
              local[p] = [local[q] EXCEPT !.rounds = local[p].rounds]
         /\ at[0] = "ended" => Messages!SumFunction(local[0].scoreboard) = local[0].rounds
<1> SUFFICES ASSUME NEW p \in Procs(n), NEW q \in Procs(n), at[p] \notin {"start", "failed"}
    PROVE  /\ at[p] \in {"over", "score"} /\ at[q] \in {"over", "score"}
              /\ local[p].services = local[q].services
              => local[p].scoreboard = local[q].scoreboard
           /\ at[p] = "ended" /\ at[q] = "ended" =>
              local[p] = [local[q] EXCEPT !.rounds = local[p].rounds]
           /\ at[0] = "ended" => Messages!SumFunction(local[0].scoreboard) = local[0].rounds
  <2>1. Messages!Processes = Procs(n)
    BY CountIs DEF RealInv
  <2> QED BY <2>1 DEF Messages!Playing
<1>1. n = 2 /\ input.proper
  BY DEF RealInv
<1>2. PICK score \in [Nat -> Scores] : RealGoes(score)
  BY <1>1 DEF RealInv
<1>3. Procs(n) = 0..1 /\ \A x \in 0..1 : RealData(score, x)
  BY <1>1, <1>2 DEF Procs, RealGoes
<1>4. \A x \in 0..1 : at[x] # "start" => RealScore(score, x) /\ RealPlace(score, x)
  BY ONLY <1>3 DEF RealData
<1>5. \A x \in 0..1 : at[x] \in {"over", "score", "ended"} => local[x].scoreboard = score[local[x].services]
  BY ONLY <1>4 DEF RealScore, Seen
<1>6. ASSUME at[p] = "ended", at[q] = "ended" PROVE local[p] = [local[q] EXCEPT !.rounds = local[p].rounds]
  <2>0. ASSUME NEW x \in 0..1, at[x] = "ended" PROVE RealOver(score, x)
    <3>1. RealScore(score, x) /\ RealPlace(score, x)
      BY ONLY <1>4, <2>0
    <3>2. Rounds(x) = local[x].services - 1
      BY ONLY <2>0 DEF Rounds
    <3>3. \A k \in 1..local[x].services - 1 : Undecided(score[k])
      <4> HIDE DEF Rounds
      <4> QED BY ONLY <3>1, <3>2 DEF RealScore
    <3>4. /\ local[x] \in RealRecord /\ local[x].over = TRUE /\ local[x].winner = -1
          /\ local[x].services >= 1 /\ ~Undecided(score[local[x].services])
      BY ONLY <2>0, <3>1 DEF RealScore, RealPlace
    <3> QED BY ONLY <1>5, <2>0, <3>3, <3>4 DEF RealOver
  <2>1. RealOver(score, p) /\ RealOver(score, q)
    BY ONLY <1>3, <1>6, <2>0, p \in Procs(n), q \in Procs(n)
  <2>2. PICK s, t \in Nat : s = local[p].services /\ t = local[q].services
    BY ONLY <2>1 DEF RealOver, RealRecord
  <2>3. s = t
    <3>1. /\ s >= 1 /\ t >= 1 /\ ~Undecided(score[s]) /\ ~Undecided(score[t])
          /\ \A k \in 1..s - 1 : Undecided(score[k])
          /\ \A k \in 1..t - 1 : Undecided(score[k])
      BY ONLY <2>1, <2>2 DEF RealOver
    <3>2. CASE s < t
      <4>1. s \in 1..t - 1
        BY ONLY <3>1, <3>2, s \in Nat, t \in Nat
      <4> QED BY ONLY <3>1, <4>1
    <3>3. CASE t < s
      <4>1. t \in 1..s - 1
        BY ONLY <3>1, <3>3, s \in Nat, t \in Nat
      <4> QED BY ONLY <3>1, <4>1
    <3> QED BY ONLY <3>2, <3>3, s \in Nat, t \in Nat
  <2>4. PICK d, e : d = local[p] /\ e = local[q]
    OBVIOUS
  <2>5. /\ d \in RealRecord /\ e \in RealRecord /\ d.over = e.over /\ d.winner = e.winner
        /\ d.services = e.services /\ d.scoreboard = e.scoreboard
    BY ONLY <2>1, <2>2, <2>3, <2>4 DEF RealOver
  <2>6. d = [e EXCEPT !.rounds = d.rounds]
    BY ONLY <2>5 DEF RealRecord
  <2> QED BY ONLY <2>4, <2>6
<1>7. ASSUME at[0] = "ended" PROVE Messages!SumFunction(local[0].scoreboard) = local[0].rounds
  <2>1. /\ local[0] \in RealRecord /\ Points(local[0].scoreboard) = local[0].rounds + 0
    BY <1>4, <1>7 DEF RealScore, RealPlace
  <2>2. PICK f \in [0..1 -> Nat] : f = local[0].scoreboard /\ f[0] + f[1] = local[0].rounds
    BY ONLY <2>1 DEF RealRecord, Scores, Points
  <2>3. f \in [0..1 -> Int]
    BY ONLY f \in [0..1 -> Nat]
  <2>4. Messages!SumFunction(f) = f[0] + f[1]
    BY ONLY <2>3, SumIs, SumOfTwo
  <2> QED BY ONLY <2>2, <2>4
<1> QED BY ONLY <1>3, <1>5, <1>6, <1>7, p \in Procs(n), q \in Procs(n)

-----------------------------------------------------------------------------
(* The programs of messages together: each keeps its invariant.            *)
MessagesInv(n) == SeparateInv(n) \/ GreetInv(n) \/ PerfectInv(n) \/ RelayInv(n) \/ RingInv(n) \/ RealInv(n)

(* Each program starts in its invariant: the greetings in order ...        *)
LEMMA GreetBegins ==
  ASSUME NEW n \in Nat \ {0}, n \in CountsOf[program], Started(n), program = "send_recv_ord_sem"
  PROVE  GreetInv(n)
<1>1. "start" \in GreetPoints
  BY DEF GreetPoints
<1>2. /\ Talks(n, GreetMail, Nothing) /\ Stands(n, GreetPoints, GreetWords)
      /\ \A p \in Procs(n) : at[p] = "start" /\ entered[p] = <<>>
      /\ \A p, q \in Procs(n) : mail[p][q] = <<>>
      /\ output = <<>> /\ Len(output) = 0
  BY <1>1, StartedTalks
<1> QED BY <1>2 DEF GreetInv, Runs, Procs

(* ... the endless game of ping-pong ...                                   *)
LEMMA PerfectBegins ==
  ASSUME NEW n \in Nat \ {0}, n \in CountsOf[program], Started(n), program = "ping_pong_perfect"
  PROVE  PerfectInv(n)
<1>1. "start" \in PerfectPoints
  BY DEF PerfectPoints
<1>2. /\ Talks(n, PerfectMail, Nothing) /\ Stands(n, PerfectPoints, Nothing)
      /\ \A p \in Procs(n) : at[p] = "start"
      /\ \A p, q \in Procs(n) : mail[p][q] = <<>>
  BY <1>1, StartedTalks
<1>3. n = 2 => Rallies({"start"}, {"start", "return"}, <<>>, <<>>)
  BY <1>2 DEF Rallies, Procs
<1> QED BY <1>2, <1>3 DEF PerfectInv, Runs

(* ... the relay race ...                                                  *)
LEMMA RelayBegins ==
  ASSUME NEW n \in Nat \ {0}, n \in CountsOf[program], Started(n), program = "relay_race_dist"
  PROVE  RelayInv(n)
<1>1. "start" \in RelayPoints
  BY DEF RelayPoints
<1>2. /\ Talks(n, RelayMail, RelayCalls) /\ Stands(n, RelayPoints, RelayWords)
      /\ \A p \in Procs(n) : at[p] = "start"
      /\ \A p, q \in Procs(n) : mail[p][q] = <<>>
      /\ output = <<>> /\ Len(output) = 0
  BY <1>1, StartedTalks
<1>3. Runs("relay_race_dist", n, RelayPoints, RelayMail, RelayCalls, RelayWords)
  BY <1>2 DEF Runs
<1>4. ASSUME RelayWill(n) PROVE RelayRuns((n - 1) \div 2) /\ RelayPlaces((n - 1) \div 2)
  <2>1. PICK T \in Nat \ {0} : T = (n - 1) \div 2 /\ n = 2 * T + 1
    BY <1>4, TeamsOf DEF RelayWill
  <2>2. \A q \in Int : q \in 0..2 * T => q \in Procs(n)
    BY <2>1 DEF Procs
  <2>3. RelayRuns(T)
    BY <1>2, <2>1, <2>2 DEF RelayRuns, Team
  <2>4. RelayPlaces(T)
    BY <1>2, <2>1, <2>2 DEF RelayPlaces
  <2> QED BY <2>1, <2>3, <2>4
<1> QED BY <1>2, <1>3, <1>4 DEF RelayInv

(* ... the ring ...                                                        *)
LEMMA RingBegins ==
  ASSUME NEW n \in Nat \ {0}, n \in CountsOf[program], Started(n), program = "ring"
  PROVE  RingInv(n)
<1>1. "start" \in RingPoints
  BY DEF RingPoints
<1>2. /\ Talks(n, Int, Nothing) /\ Stands(n, RingPoints, Nothing)
      /\ \A p \in Procs(n) : at[p] = "start"
      /\ \A p, q \in Procs(n) : mail[p][q] = <<>>
  BY <1>1, StartedTalks
<1>3. Runs("ring", n, RingPoints, Int, Nothing, Nothing)
  BY <1>2 DEF Runs
<1>4. ASSUME n = 4 PROVE \E num \in [0..3 -> Int] : RingGoes(num)
  <2>1. PICK num \in [0..3 -> Int] : TRUE
    <3>1. [p \in 0..3 |-> 0] \in [0..3 -> Int]
      OBVIOUS
    <3> QED BY <3>1
  <2>2. \A p \in 0..3 : at[p] = "start"
    BY <1>2, <1>4 DEF Procs
  <2>3. \A p \in 0..3 : mail[Behind(p, 1)][p] = <<>> /\ Behind(p, 1) \in 0..3
    <3>1. \A p \in 0..3 : Behind(p, 1) \in 0..3
      BY RingPlaces
    <3> QED BY <1>2, <1>4, <3>1 DEF Procs
  <2>4. \A p \in 0..3 : Sent(p) = 0 /\ Got(p) = 0
    BY <2>2 DEF Sent, Got
  <2>5. \A p \in 0..3 : RingData(num, p)
    BY <2>2 DEF RingData
  <2>6. \A p \in 0..3 : RingMail(num, p)
    <3> HIDE DEF Sent, Got, Behind
    <3> QED BY <2>3, <2>4 DEF RingMail
  <2> QED BY <2>5, <2>6 DEF RingGoes
<1> QED BY <1>2, <1>3, <1>4 DEF RingInv

(* ... and the game of ping-pong with a score.                             *)
LEMMA RealStarted ==
  ASSUME NEW n \in Nat \ {0}, n \in CountsOf[program], Started(n), program = "ping_pong_realistic",
         input.winScore \in Nat
  PROVE  RealInv(n)
<1>1. "start" \in RealPoints
  BY DEF RealPoints
<1>2. /\ Talks(n, RealMail, RealCalls) /\ Stands(n, RealPoints, Nothing)
      /\ \A p \in Procs(n) : at[p] = "start" /\ entered[p] = <<>>
      /\ \A p, q \in Procs(n) : mail[p][q] = <<>>
  BY <1>1, StartedTalks
<1>3. Runs("ping_pong_realistic", n, RealPoints, RealMail, RealCalls, Nothing)
  BY <1>2 DEF Runs
<1>4. ASSUME n = 2 PROVE \E score \in [Nat -> Scores] : RealGoes(score)
  <2>1. PICK score \in [Nat -> Scores] : score[0] = [q \in 0..1 |-> 0]
    <3>1. [k \in Nat |-> [q \in 0..1 |-> 0]] \in [Nat -> Scores]
      BY DEF Scores
    <3> QED BY <3>1
  <2>2. \A p \in 0..1 : at[p] = "start" /\ Len(entered[p]) = 0
    BY <1>2, <1>4, EmptySeq DEF Procs
  <2>3. RealData(score, 0) /\ RealData(score, 1)
    BY <2>2 DEF RealData
  <2>4. RealCalled(score)
    BY <2>2 DEF RealCalled
  <2>5. Seen(0) = 0 /\ Seen(1) = 0
    BY <2>2 DEF Seen
  <2>6. mail[0][1] = <<>> /\ mail[1][0] = <<>>
    BY <1>2, <1>4 DEF Procs
  <2> QED BY <2>1, <2>3, <2>4, <2>5, <2>6 DEF RealGoes, RealBall
<1> QED BY <1>2, <1>3, <1>4 DEF RealInv

(* Every program of messages starts in the invariant ...                   *)
LEMMA MessagesBegin ==
  ASSUME Messages!Init
  PROVE  \E n : MessagesInv(n)
<1>1. PICK n \in CountsOf[program] : n \in Nat \ {0} /\ Started(n)
  BY MessagesStart
<1>2. program \in Messages!Programs /\ input \in [proper : BOOLEAN,
                 winScore : IF program = "ping_pong_realistic" THEN WinScores ELSE {0}]
  BY DEF Messages!Init
<1>3. program = "ping_pong_realistic" => input.winScore \in Nat
  BY <1>2, NumbersAssumption
<1>4. program = "hello_task_sep" => SeparateInv(n)
  <2>1. "start" \in SeparatePoints
    BY DEF SeparatePoints
  <2>2. Talks(n, Nothing, Nothing) /\ Stands(n, SeparatePoints, SeparateWords)
    BY <1>1, <2>1, StartedTalks
  <2> QED BY <1>1, <2>2 DEF SeparateInv, Runs
<1>5. /\ program = "send_recv_ord_sem" => GreetInv(n)
      /\ program = "ping_pong_perfect" => PerfectInv(n)
      /\ program = "relay_race_dist" => RelayInv(n)
      /\ program = "ring" => RingInv(n)
      /\ program = "ping_pong_realistic" => RealInv(n)
  BY <1>1, <1>3, GreetBegins, PerfectBegins, RelayBegins, RingBegins, RealStarted
<1>6. MessagesInv(n)
  BY <1>2, <1>4, <1>5 DEF Messages!Programs, MessagesInv
<1> QED BY <1>6

(* ... keeps it with every step ...                                        *)
LEMMA MessagesStep ==
  ASSUME NEW n, MessagesInv(n), NEW p \in Procs(n), Messages!Step(Messages!ProcessStep(p))
  PROVE  MessagesInv(n)'
<1>1. program' = program /\ input' = input /\ Messages!ProcessStep(p)
  BY DEF Messages!Step
<1>2. CASE SeparateInv(n)
  <2>1. program = "hello_task_sep"
    BY <1>2 DEF SeparateInv, Runs
  <2> QED BY <1>1, <1>2, <2>1, SeparateStep DEF Messages!ProcessStep, MessagesInv
<1>3. CASE GreetInv(n)
  <2>1. program = "send_recv_ord_sem"
    BY <1>3 DEF GreetInv, Runs
  <2> QED BY <1>1, <1>3, <2>1, GreetStep DEF Messages!ProcessStep, MessagesInv
<1>4. CASE PerfectInv(n)
  <2>1. program = "ping_pong_perfect"
    BY <1>4 DEF PerfectInv, Runs
  <2> QED BY <1>1, <1>4, <2>1, PerfectStep DEF Messages!ProcessStep, MessagesInv
<1>5. CASE RelayInv(n)
  <2>1. program = "relay_race_dist"
    BY <1>5 DEF RelayInv, Runs
  <2> QED BY <1>1, <1>5, <2>1, RelayStep DEF Messages!ProcessStep, MessagesInv
<1>6. CASE RingInv(n)
  <2>1. program = "ring"
    BY <1>6 DEF RingInv, Runs
  <2> QED BY <1>1, <1>6, <2>1, RingStep DEF Messages!ProcessStep, MessagesInv
<1>7. CASE RealInv(n)
  <2>1. program = "ping_pong_realistic"
    BY <1>7 DEF RealInv, Runs
  <2> QED BY <1>1, <1>7, <2>1, RealStep DEF Messages!ProcessStep, MessagesInv
<1> QED BY <1>2, <1>3, <1>4, <1>5, <1>6, <1>7 DEF MessagesInv

(* Nothing happens.                                                        *)
LEMMA RunsOn ==
  ASSUME NEW name, NEW n, NEW points, NEW M, NEW E, NEW R, Runs(name, n, points, M, E, R),
         UNCHANGED programVars
  PROVE  Runs(name, n, points, M, E, R)'
BY DEF Runs, Talks, Stands, programVars

(* ... and while nothing happens.                                          *)
LEMMA MessagesStutter ==
  ASSUME NEW n, MessagesInv(n), UNCHANGED programVars
  PROVE  MessagesInv(n)'
<1>0. /\ program' = program /\ input' = input /\ at' = at /\ local' = local /\ mail' = mail
      /\ entered' = entered /\ waits' = waits /\ output' = output
  BY DEF programVars
<1>1. CASE SeparateInv(n)
  BY <1>1, RunsOn DEF SeparateInv, MessagesInv
<1>2. CASE GreetInv(n)
  <2>1. GreetInv(n)'
    BY <1>0, <1>2, RunsOn DEF GreetInv
  <2> QED BY <2>1 DEF MessagesInv
<1>3. CASE PerfectInv(n)
  <2>1. PerfectInv(n)'
    BY <1>0, <1>3, RunsOn DEF PerfectInv, Rallies
  <2> QED BY <2>1 DEF MessagesInv
<1>4. CASE RelayInv(n)
  <2>1. Runs("relay_race_dist", n, RelayPoints, RelayMail, RelayCalls, RelayWords)'
    BY <1>4, RunsOn DEF RelayInv
  <2>2. RelayInv(n)'
    BY <1>0, <1>4, <2>1 DEF RelayInv, RelayWill, RelayRuns, RelayPlaces
  <2> QED BY <2>2 DEF MessagesInv
<1>5. CASE RingInv(n)
  <2>1. Runs("ring", n, RingPoints, Int, Nothing, Nothing)'
    BY <1>5, RunsOn DEF RingInv
  <2>2. \A num : RingGoes(num) => RingGoes(num)'
    BY <1>0 DEF RingGoes, RingData, RingMail, Sent, Got
  <2>3. RingInv(n)'
    BY <1>0, <1>5, <2>1, <2>2 DEF RingInv
  <2> QED BY <2>3 DEF MessagesInv
<1>6. CASE RealInv(n)
  <2>1. Runs("ping_pong_realistic", n, RealPoints, RealMail, RealCalls, Nothing)'
    BY <1>6, RunsOn DEF RealInv
  <2>2. \A score : RealGoes(score) => RealGoes(score)'
    BY <1>0 DEF RealGoes, RealData, RealCalled, RealBall, RealScore, RealPlace, Seen, Rounds,
       Undecided
  <2>3. RealInv(n)'
    BY <1>0, <1>6, <2>1, <2>2 DEF RealInv
  <2> QED BY <2>3 DEF MessagesInv
<1> QED BY <1>1, <1>2, <1>3, <1>4, <1>5, <1>6 DEF MessagesInv

(* What the programs of messages promise follows from the invariants.      *)
AllPoints == {"send", "receive", "report", "race", "run", "serve", "return",
              "play", "tally", "over", "score", "pass"}

(* It says which program runs and the types all of them have.              *)
LEMMA MessagesRun ==
  ASSUME NEW n, MessagesInv(n)
  PROVE  /\ program \in Messages!Programs
         /\ \E name, points, M, E, R : Runs(name, n, points, M, E, R)
         /\ Messages!CommonTypes(AllPoints)
<1>1. \E name, points, M, E, R :
        /\ name \in Messages!Programs
        /\ Runs(name, n, points, M, E, R)
        /\ points \subseteq AllPoints \cup {"start", "ended", "failed", "aborted"}
  <2>1. CASE SeparateInv(n)
    BY <2>1 DEF SeparateInv, SeparatePoints, AllPoints, Messages!Programs
  <2>2. CASE GreetInv(n)
    BY <2>2 DEF GreetInv, GreetPoints, AllPoints, Messages!Programs
  <2>3. CASE PerfectInv(n)
    BY <2>3 DEF PerfectInv, PerfectPoints, AllPoints, Messages!Programs
  <2>4. CASE RelayInv(n)
    BY <2>4 DEF RelayInv, RelayPoints, AllPoints, Messages!Programs
  <2>5. CASE RingInv(n)
    BY <2>5 DEF RingInv, RingPoints, AllPoints, Messages!Programs
  <2>6. CASE RealInv(n)
    BY <2>6 DEF RealInv, RealPoints, AllPoints, Messages!Programs
  <2> QED BY <2>1, <2>2, <2>3, <2>4, <2>5, <2>6 DEF MessagesInv
<1>2. PICK name, points, M, E, R :
        /\ name \in Messages!Programs
        /\ Runs(name, n, points, M, E, R)
        /\ points \subseteq AllPoints \cup {"start", "ended", "failed", "aborted"}
  BY <1>1
<1>3. /\ DOMAIN at = Procs(n)
      /\ \A p \in Procs(n) :
              /\ at[p] \in points
              /\ waits[p].receipt \subseteq Procs(n) /\ waits[p].entry \subseteq Procs(n)
              /\ waits[p].receipt = {} \/ waits[p].entry = {}
      /\ \A i \in DOMAIN output : output[i].by \in Procs(n)
  BY <1>2, RunsTypes
<1>4. Messages!CommonTypes(AllPoints)
  BY ONLY <1>2, <1>3 DEF Messages!CommonTypes, Messages!Processes
<1> QED BY <1>2, <1>4 DEF Runs

(* The variables have their types.                                         *)
LEMMA MessagesTypes ==
  ASSUME NEW n, MessagesInv(n)
  PROVE  Messages!TypeOK
<1>1. program \in Messages!Programs /\ Messages!CommonTypes(AllPoints)
  BY MessagesRun
<1>2. program = "ring" => \A p \in Messages!Playing : local[p].i \in 0..4
  <2>1. program = "ring" => RingInv(n)
    BY DEF MessagesInv, SeparateInv, GreetInv, PerfectInv, RelayInv, RealInv, Runs
  <2> QED BY <2>1, RingMeans
<1>3. program = "relay_race_dist" => \A p \in Messages!Playing : local[p].position \in 0..Messages!Teams
  <2> SUFFICES ASSUME program = "relay_race_dist", NEW p \in Messages!Playing
               PROVE  local[p].position \in 0..Messages!Teams
    OBVIOUS
  <2>1. RelayInv(n)
    BY DEF MessagesInv, SeparateInv, GreetInv, PerfectInv, RingInv, RealInv, Runs
  <2>2. Messages!Processes = Procs(n) /\ Messages!Count = n
    BY <2>1, CountIs DEF RelayInv
  <2> QED BY <2>1, <2>2 DEF RelayInv, Messages!Teams, Messages!Playing
<1>4. program = "ping_pong_realistic" =>
       \A p \in Messages!Playing :
         /\ local[p].winner \in -1..1
         /\ local[p].scoreboard \in [0..1 -> 0..Messages!Max({1, input.winScore})]
         /\ local[p].services \in 0..MostServices + 2 * input.winScore
  <2> SUFFICES ASSUME program = "ping_pong_realistic", NEW p \in Messages!Playing
               PROVE  /\ local[p].winner \in -1..1
                      /\ local[p].scoreboard \in [0..1 -> 0..Messages!Max({1, input.winScore})]
                      /\ local[p].services \in 0..MostServices + 2 * input.winScore
    OBVIOUS
  <2>1. RealInv(n)
    BY DEF MessagesInv, SeparateInv, GreetInv, PerfectInv, RelayInv, RingInv, Runs
  <2>2. Messages!Processes = Procs(n)
    BY <2>1, CountIs DEF RealInv
  <2>3. p \in Procs(n) /\ at[p] \notin {"start", "failed"} /\ input.winScore \in Nat
    BY <2>1, <2>2 DEF RealInv, Messages!Playing
  <2>4. n = 2 /\ input.proper
    BY <2>1, <2>3 DEF RealInv
  <2>5. PICK score \in [Nat -> Scores] : RealGoes(score)
    BY <2>1, <2>4 DEF RealInv
  <2>6. RealData(score, p)
    BY <2>3, <2>4, <2>5 DEF RealGoes, Procs
  <2> QED BY ONLY <2>3, <2>6, score \in [Nat -> Scores], RealBounds
<1> QED BY ONLY <1>1, <1>2, <1>3, <1>4 DEF Messages!TypeOK, AllPoints

(* Greetings, batons and balls take turns.                                 *)
LEMMA MessagesTurns ==
  ASSUME NEW n, MessagesInv(n)
  PROVE  Messages!TurnsTaken
<1>1. program = "send_recv_ord_sem" => \A i \in DOMAIN output : output[i].by = i - 1
  <2>1. program = "send_recv_ord_sem" => GreetInv(n)
    BY DEF MessagesInv, SeparateInv, RingInv, PerfectInv, RelayInv, RealInv, Runs
  <2>2. GreetInv(n) => DOMAIN output = 1..Len(output)
    BY RunsTypes DEF GreetInv
  <2> QED BY <2>1, <2>2 DEF GreetInv
<1>2. program = "ping_pong_perfect" /\ 0 \in Messages!Playing =>
        Messages!Cardinality({p \in Messages!Processes : at[p] = "serve"})
         + Messages!Cardinality({p \in Messages!Processes :
                                   Messages!Count = 2 /\ mail[p][1 - p] # <<>>}) = 1
  <2>1. program = "ping_pong_perfect" => PerfectInv(n)
    BY DEF MessagesInv, SeparateInv, RingInv, GreetInv, RelayInv, RealInv, Runs
  <2> QED BY <2>1, OneBall
<1>3. program = "relay_race_dist" =>
       \A i \in DOMAIN output :
         /\ at[output[i].says.team] = "ended" /\ output[i].says.position = i
         /\ \A j \in DOMAIN output : output[i].says.team = output[j].says.team => i = j
  <2> SUFFICES ASSUME program = "relay_race_dist", NEW i \in DOMAIN output
               PROVE  /\ at[output[i].says.team] = "ended" /\ output[i].says.position = i
                      /\ \A j \in DOMAIN output : output[i].says.team = output[j].says.team => i = j
    OBVIOUS
  <2>1. RelayInv(n)
    BY DEF MessagesInv, SeparateInv, RingInv, GreetInv, PerfectInv, RealInv, Runs
  <2>2. DOMAIN output = 1..Len(output) /\ Len(output) \in Nat /\ n \in Nat
    BY <2>1, RunsTypes DEF RelayInv, Runs
  <2>3. RelayWill(n)
    BY <2>1, <2>2 DEF RelayInv
  <2>4. PICK T \in Nat \ {0} : T = (n - 1) \div 2 /\ n = 2 * T + 1
    BY <2>2, <2>3, TeamsOf DEF RelayWill
  <2>5. RelayRuns(T) /\ RelayPlaces(T)
    BY <2>1, <2>3, <2>4 DEF RelayInv
  <2>6. PICK a \in 1..T : a = output[i].says.team
    BY <2>2, <2>5 DEF RelayPlaces
  <2>7. PICK b \in T + 1..2 * T : b = a + T /\ a = b - T
    BY ONLY <2>4, <2>6
  <2>8. at[b] = "ended" /\ Team(T, a, b) /\ a \in Int /\ b \in Int
    BY <2>2, <2>5, <2>6, <2>7 DEF RelayPlaces, Team
  <2>9. at[a] = "ended"
    BY ONLY <2>5, <2>8 DEF RelayRuns
  <2>10. output[i].says.position = i
    BY <2>2, <2>5 DEF RelayPlaces
  <2>11. \A j \in DOMAIN output : output[i].says.team = output[j].says.team => i = j
    BY <2>2, <2>5 DEF RelayPlaces
  <2> QED BY ONLY <2>6, <2>9, <2>10, <2>11
<1> QED BY ONLY <1>1, <1>2, <1>3 DEF Messages!TurnsTaken

(* The sum of the ring and the score of the game are right.                *)
LEMMA MessagesResults ==
  ASSUME NEW n, MessagesInv(n)
  PROVE  Messages!ResultsRight
<1>1. ASSUME program = "ring", NEW p \in Messages!Playing, at[p] = "ended"
      PROVE  local[p].sum = Messages!SumFunction([q \in Messages!Processes |-> local[q].number])
  <2>1. RingInv(n)
    BY <1>1 DEF MessagesInv, SeparateInv, GreetInv, PerfectInv, RelayInv, RealInv, Runs
  <2>2. p \in Procs(n)
    BY <2>1, CountIs DEF RingInv, Messages!Playing
  <2> QED BY ONLY <1>1, <2>1, <2>2, RingRight
<1>2. program = "ping_pong_realistic" => RealInv(n)
  BY DEF MessagesInv, SeparateInv, GreetInv, PerfectInv, RelayInv, RingInv, Runs
<1>3. program = "ping_pong_realistic" =>
        \A p, q \in Messages!Playing :
         /\ at[p] \in {"over", "score"} /\ at[q] \in {"over", "score"}
              /\ local[p].services = local[q].services
              => local[p].scoreboard = local[q].scoreboard
         /\ at[p] = "ended" /\ at[q] = "ended" =>
              local[p] = [local[q] EXCEPT !.rounds = local[p].rounds]
         /\ at[0] = "ended" => Messages!SumFunction(local[0].scoreboard) = local[0].rounds
  BY ONLY <1>2, RealRight
<1> QED BY ONLY <1>1, <1>3 DEF Messages!ResultsRight

(* Appending to a sequence of one element.                                 *)
LEMMA AppendToOne ==
  ASSUME NEW S, NEW x \in S, NEW y \in S
  PROVE  Append(<<x>>, y) = <<x, y>>
<1>1. <<x, y>> \in Seq(S) /\ <<x>> \in Seq(S)
  BY SMT
<1>2. /\ Len(<<x, y>>) = 2 /\ Len(<<x>>) = 1
      /\ <<x, y>>[1] = x /\ <<x, y>>[2] = y
      /\ <<x>>[1] = x
  BY SMT
<1>3. /\ Append(<<x>>, y) \in Seq(S) /\ Len(Append(<<x>>, y)) = 2
      /\ Append(<<x>>, y)[1] = x
      /\ Append(<<x>>, y)[2] = y
  BY <1>1, <1>2, AppendProperties, SMT
<1>4. \A i \in 1..2 : Append(<<x>>, y)[i] = <<x, y>>[i]
  BY <1>2, <1>3, SMT
<1> QED BY <1>1, <1>2, <1>3, <1>4, SeqEqual

-----------------------------------------------------------------------------
(* The centralized dining philosophers.  The argument is that of a pair of *)
(* chopsticks that travels: from the waiter into the GRANT, to the         *)
(* philosopher who eats, into the RELEASE and back to the waiter.          *)

(* What can be on its way from p to the waiter.  A RELEASE may be followed *)
(* by the next REQUEST when the library buffers both.                      *)
Letters == {<<>>, <<REQUEST>>, <<RELEASE>>, <<RELEASE, REQUEST>>}
Releasing == {<<RELEASE>>, <<RELEASE, REQUEST>>}

(* A philosopher who is neither hungry nor eating has asked for nothing; a *)
(* hungry one has a REQUEST on its way or has been heard; the GRANT is     *)
(* only for one who has been heard.                                        *)
Phase(p) ==
  \/ /\ pc[p] \in {"thinking", "releasing"}
     /\ toWaiter[p] \in {<<>>, <<RELEASE>>} /\ p \notin granted
  \/ /\ pc[p] \in {"requesting", "hungry"}
     /\ toWaiter[p] \in {<<REQUEST>>, <<RELEASE, REQUEST>>} /\ p \notin granted
  \/ pc[p] \in {"requesting", "hungry"} /\ toWaiter[p] = <<>>
  \/ pc[p] = "eating" /\ toWaiter[p] = <<>> /\ p \notin granted

(* Served(p) without the sequence.                                         *)
Holds(p) == p \in granted \/ pc[p] = "eating" \/ toWaiter[p] \in Releasing

HeardAndWaiting(p) == /\ pc[p] \in {"requesting", "hungry"}
                      /\ toWaiter[p] = <<>>
                      /\ p \notin granted

QueueInv ==
  /\ \A i, j \in 1..Len(requestQueue) : requestQueue[i] = requestQueue[j] => i = j
  /\ \A i \in 1..Len(requestQueue) :
       HeardAndWaiting(requestQueue[i]) \/ (i = 1 /\ waiterAt = "granting")
  /\ waiterAt = "granting" => requestQueue # <<>>

Ledger ==
  /\ \A p \in Philosophers : Holds(p) => \A c \in Chopsticks(p) : chopsticks[c] = 1
  /\ \A p, q \in Philosophers :
       Holds(p) /\ Holds(q) /\ Chopsticks(p) \cap Chopsticks(q) # {} => p = q
  /\ \A c \in Philosophers : chopsticks[c] = 1 =>
       \E p \in Philosophers : Holds(p) /\ c \in Chopsticks(p)

WaiterInv == waiterAt = "receiving" => ~CanServe

Phases == \A p \in Philosophers : Phase(p)

IInv == TypeOK /\ Phases /\ QueueInv /\ Ledger /\ WaiterInv

-----------------------------------------------------------------------------
(* Both chopsticks of a philosopher are on the table.                      *)
LEMMA OnTheTable == \A p \in Philosophers : Chopsticks(p) \subseteq Philosophers
<1>1. \A p \in Philosophers : Left(p) \in Philosophers
  BY PhilosophersAssumption, SMT DEF Philosophers, Left
<1> QED BY <1>1 DEF Chopsticks, Right

(* The letters are sequences, and what receiving and sending makes of them.*)
LEMMA LetterFacts ==
  /\ \A s \in Letters : s \in Seq({REQUEST, RELEASE})
  /\ Append(<<>>, REQUEST) = <<REQUEST>>
  /\ Append(<<>>, RELEASE) = <<RELEASE>>
  /\ Append(<<RELEASE>>, REQUEST) = <<RELEASE, REQUEST>>
  /\ Head(<<REQUEST>>) = REQUEST /\ Tail(<<REQUEST>>) = <<>>
  /\ Head(<<RELEASE>>) = RELEASE /\ Tail(<<RELEASE>>) = <<>>
  /\ Head(<<RELEASE, REQUEST>>) = RELEASE
  /\ Tail(<<RELEASE, REQUEST>>) = <<REQUEST>>
  /\ <<REQUEST>> # <<RELEASE>> /\ <<REQUEST>> # <<RELEASE, REQUEST>>
  /\ <<RELEASE>> # <<RELEASE, REQUEST>>
  /\ <<>> # <<REQUEST>> /\ <<>> # <<RELEASE>> /\ <<>> # <<RELEASE, REQUEST>>
<1>2. /\ Append(<<>>, REQUEST) = <<REQUEST>>
      /\ Append(<<>>, RELEASE) = <<RELEASE>>
      /\ Append(<<RELEASE>>, REQUEST) = <<RELEASE, REQUEST>>
  <2>1. Append(<<>>, REQUEST) = <<REQUEST>>
    BY SMT
  <2>2. Append(<<>>, RELEASE) = <<RELEASE>>
    BY SMT
  <2>3. Append(<<RELEASE>>, REQUEST) = <<RELEASE, REQUEST>>
    <3> DEFINE T == {RELEASE, REQUEST}
    <3> QED BY RELEASE \in T, REQUEST \in T, AppendToOne
  <2> QED BY <2>1, <2>2, <2>3
<1>1. \A s \in Letters : s \in Seq({REQUEST, RELEASE})
  <2>1. <<>> \in Seq({REQUEST, RELEASE})
    BY EmptySeq
  <2>2. <<REQUEST>> \in Seq({REQUEST, RELEASE}) /\ <<RELEASE>> \in Seq({REQUEST, RELEASE})
    BY <2>1, <1>2, AppendProperties
  <2>3. <<RELEASE, REQUEST>> \in Seq({REQUEST, RELEASE})
    BY <2>2, <1>2, AppendProperties
  <2> QED BY <2>1, <2>2, <2>3 DEF Letters
<1>3. /\ Head(<<REQUEST>>) = REQUEST /\ Tail(<<REQUEST>>) = <<>>
      /\ Head(<<RELEASE>>) = RELEASE /\ Tail(<<RELEASE>>) = <<>>
      /\ Head(<<RELEASE, REQUEST>>) = RELEASE
  BY SMT DEF REQUEST, RELEASE
<1>4. Tail(<<RELEASE, REQUEST>>) = <<REQUEST>>
  BY SMT DEF REQUEST, RELEASE
<1>5. /\ <<REQUEST>> # <<RELEASE>> /\ <<REQUEST>> # <<RELEASE, REQUEST>>
      /\ <<RELEASE>> # <<RELEASE, REQUEST>>
      /\ <<>> # <<REQUEST>> /\ <<>> # <<RELEASE>> /\ <<>> # <<RELEASE, REQUEST>>
  <2>1. <<REQUEST>>[1] # <<RELEASE>>[1]
    BY SMT DEF REQUEST, RELEASE
  <2>2. /\ Len(<<>>) = 0 /\ Len(<<REQUEST>>) = 1 /\ Len(<<RELEASE>>) = 1
        /\ Len(<<RELEASE, REQUEST>>) = 2
    BY SMT
  <2> QED BY <2>1, <2>2, SMT
<1> QED BY <1>1, <1>2, <1>3, <1>4, <1>5

(* What is on the way to the waiter, whatever the phase.                   *)
LEMMA PhaseLetters ==
  ASSUME Phases
  PROVE  \A p \in Philosophers : toWaiter[p] \in Letters
BY DEF Phases, Phase, Letters

(* Who is served holds the chopsticks, somewhere on their way.             *)
LEMMA ServedHolds ==
  ASSUME Phases
  PROVE  \A p \in Philosophers : Served(p) <=> Holds(p)
<1>1. \A s \in Letters : (\E i \in DOMAIN s : s[i] = RELEASE) <=> s \in Releasing
  <2>1. ~ \E i \in DOMAIN <<>> : <<>>[i] = RELEASE
    BY SMT
  <2>2. ~ \E i \in DOMAIN <<REQUEST>> : <<REQUEST>>[i] = RELEASE
    BY SMT DEF REQUEST, RELEASE
  <2>3. \E i \in DOMAIN <<RELEASE>> : <<RELEASE>>[i] = RELEASE
    <3>1. 1 \in DOMAIN <<RELEASE>> /\ <<RELEASE>>[1] = RELEASE
      BY SMT DEF RELEASE
    <3> QED BY <3>1
  <2>4. \E i \in DOMAIN <<RELEASE, REQUEST>> : <<RELEASE, REQUEST>>[i] = RELEASE
    <3>1. 1 \in DOMAIN <<RELEASE, REQUEST>> /\ <<RELEASE, REQUEST>>[1] = RELEASE
      BY SMT DEF RELEASE, REQUEST
    <3> QED BY <3>1
  <2> QED BY <2>1, <2>2, <2>3, <2>4, LetterFacts, Zenon DEF Letters, Releasing
<1> QED BY <1>1, PhaseLetters DEF Served, Holds

-----------------------------------------------------------------------------
(* Everybody thinks and the chopsticks are on the table.                   *)
LEMMA InitInv == Init => IInv
<1> SUFFICES ASSUME Init PROVE IInv
  OBVIOUS
<1>1. TypeOK
  <2>1. <<>> \in Seq({REQUEST, RELEASE}) /\ <<>> \in Seq(Philosophers)
    BY EmptySeq
  <2> QED BY <2>1 DEF Init, TypeOK
<1>2. Phases
  BY DEF Init, Phases, Phase
<1>3. QueueInv
  <2>1. Len(requestQueue) = 0
    BY EmptySeq DEF Init
  <2>2. 1..Len(requestQueue) = {}
    BY <2>1, SMT
  <2> QED BY <2>2 DEF Init, QueueInv
<1>4. Ledger
  <2>1. \A p \in Philosophers : ~Holds(p)
    BY LetterFacts DEF Init, Holds, Releasing
  <2>2. \A c \in Philosophers : chopsticks[c] = 0
    BY DEF Init
  <2> QED BY <2>1, <2>2, SMT DEF Ledger
<1>5. WaiterInv
  BY DEF Init, WaiterInv, CanServe
<1> QED BY <1>1, <1>2, <1>3, <1>4, <1>5 DEF IInv

(* A philosopher leaves the others, the table and the queue alone.         *)
LEMMA PhilosopherFrame ==
  ASSUME TypeOK, NEW p \in Philosophers, PhilosopherStep(p)
  PROVE  /\ UNCHANGED <<waiterAt, chopsticks, requestQueue>>
         /\ \A q \in Philosophers \ {p} :
              /\ pc'[q] = pc[q] /\ toWaiter'[q] = toWaiter[q]
              /\ q \in granted' <=> q \in granted
<1> USE DEF TypeOK, Goto, Send
<1>1. CASE SendRequest(p)
  BY <1>1 DEF SendRequest
<1>2. CASE RequestSent(p)
  BY <1>2 DEF RequestSent
<1>3. CASE RecvGrant(p)
  BY <1>3 DEF RecvGrant
<1>4. CASE SendRelease(p)
  BY <1>4 DEF SendRelease
<1>5. CASE ReleaseSent(p)
  BY <1>5 DEF ReleaseSent
<1> QED BY <1>1, <1>2, <1>3, <1>4, <1>5 DEF PhilosopherStep

(* A step of a philosopher keeps the types ...                             *)
LEMMA PhilosopherType ==
  ASSUME TypeOK, NEW p \in Philosophers, PhilosopherStep(p)
  PROVE  TypeOK'
<1> USE DEF TypeOK, Goto, Send
<1>1. CASE SendRequest(p)
  <2>1. Append(toWaiter[p], REQUEST) \in Seq({REQUEST, RELEASE})
    BY AppendProperties
  <2> QED BY <1>1, <2>1 DEF SendRequest
<1>2. CASE RequestSent(p)
  BY <1>2 DEF RequestSent
<1>3. CASE RecvGrant(p)
  BY <1>3 DEF RecvGrant
<1>4. CASE SendRelease(p)
  <2>1. Append(toWaiter[p], RELEASE) \in Seq({REQUEST, RELEASE})
    BY AppendProperties
  <2> QED BY <1>4, <2>1 DEF SendRelease
<1>5. CASE ReleaseSent(p)
  BY <1>5 DEF ReleaseSent
<1> QED BY <1>1, <1>2, <1>3, <1>4, <1>5 DEF PhilosopherStep

(* Her own part of the invariant: the pair of chopsticks stays with her,   *)
(* and a request that waits goes on waiting.                               *)
LEMMA PhilosopherOwn ==
  ASSUME TypeOK, Phases, NEW p \in Philosophers, PhilosopherStep(p)
  PROVE  /\ Phase(p)'
         /\ Holds(p)' <=> Holds(p)
         /\ HeardAndWaiting(p) => HeardAndWaiting(p)'
<1>0. Phase(p)
  BY DEF Phases
<1> USE LetterFacts DEF TypeOK, Goto, Send
<1>1. CASE SendRequest(p)
  <2>1. /\ pc[p] = "thinking" /\ pc'[p] = "requesting"
        /\ p \notin granted /\ granted' = granted
        /\ toWaiter'[p] = Append(toWaiter[p], REQUEST)
        /\ toWaiter[p] \in {<<>>, <<RELEASE>>}
    BY <1>0, <1>1 DEF SendRequest, Phase
  <2>2. \/ toWaiter[p] = <<>> /\ toWaiter'[p] = <<REQUEST>>
        \/ toWaiter[p] = <<RELEASE>> /\ toWaiter'[p] = <<RELEASE, REQUEST>>
    BY <2>1
  <2> QED BY <2>1, <2>2, Zenon DEF Phase, Holds, HeardAndWaiting, Releasing
<1>2. CASE RequestSent(p)
  <2>1. /\ pc[p] = "requesting" /\ pc'[p] = "hungry"
        /\ granted' = granted /\ toWaiter' = toWaiter
    BY <1>2 DEF RequestSent
  <2> QED BY <1>0, <2>1 DEF Phase, Holds, HeardAndWaiting
<1>3. CASE RecvGrant(p)
  <2>1. /\ pc[p] = "hungry" /\ pc'[p] = "eating"
        /\ p \in granted /\ p \notin granted' /\ toWaiter' = toWaiter
    BY <1>3 DEF RecvGrant
  <2>2. toWaiter[p] = <<>>
    BY <1>0, <2>1 DEF Phase
  <2> QED BY <2>1, <2>2 DEF Phase, Holds, HeardAndWaiting
<1>4. CASE SendRelease(p)
  <2>1. /\ pc[p] = "eating" /\ pc'[p] = "releasing" /\ granted' = granted
        /\ toWaiter'[p] = Append(toWaiter[p], RELEASE)
    BY <1>4 DEF SendRelease
  <2>2. toWaiter[p] = <<>> /\ p \notin granted
    BY <1>0, <2>1 DEF Phase
  <2>3. toWaiter'[p] = <<RELEASE>>
    BY <2>1, <2>2
  <2> QED BY <2>1, <2>2, <2>3 DEF Phase, Holds, HeardAndWaiting, Releasing
<1>5. CASE ReleaseSent(p)
  <2>1. /\ pc[p] = "releasing" /\ pc'[p] = "thinking"
        /\ granted' = granted /\ toWaiter' = toWaiter
    BY <1>5 DEF ReleaseSent
  <2> QED BY <1>0, <2>1 DEF Phase, Holds, HeardAndWaiting
<1> QED BY <1>1, <1>2, <1>3, <1>4, <1>5 DEF PhilosopherStep

(* ... and the invariant.                                                  *)
LEMMA PhilosopherInv ==
  ASSUME IInv, NEW p \in Philosophers, PhilosopherStep(p)
  PROVE  IInv'
<1> USE DEF IInv
<1>1. TypeOK'
  BY PhilosopherType
<1>2. /\ waiterAt' = waiterAt /\ chopsticks' = chopsticks
      /\ requestQueue' = requestQueue
  BY PhilosopherFrame
<1>3. \A q \in Philosophers :
        /\ Phase(q)'
        /\ Holds(q)' <=> Holds(q)
        /\ HeardAndWaiting(q) => HeardAndWaiting(q)'
  <2> TAKE q \in Philosophers
  <2>1. CASE q = p
    BY <2>1, PhilosopherOwn
  <2>2. CASE q # p
    <3>1. /\ pc'[q] = pc[q] /\ toWaiter'[q] = toWaiter[q]
          /\ q \in granted' <=> q \in granted
      BY <2>2, PhilosopherFrame
    <3>2. Phase(q)
      BY DEF Phases
    <3> QED BY <3>1, <3>2 DEF Phase, Holds, HeardAndWaiting
  <2> QED BY <2>1, <2>2
<1>4. Phases'
  BY <1>3 DEF Phases
<1>5. QueueInv'
  <2>1. \A i \in 1..Len(requestQueue) : requestQueue[i] \in Philosophers
    BY ElementOfSeq DEF TypeOK
  <2> QED BY <1>2, <1>3, <2>1 DEF QueueInv
<1>6. Ledger'
  BY <1>2, <1>3, Zenon DEF Ledger
<1>7. WaiterInv'
  BY <1>2 DEF WaiterInv, CanServe, BothFree
<1> QED BY <1>1, <1>4, <1>5, <1>6, <1>7

-----------------------------------------------------------------------------
(* Nobody who sends a message is in the queue of a waiter who receives.    *)
LEMMA SenderNotQueued ==
  ASSUME QueueInv, waiterAt = "receiving", NEW p, toWaiter[p] # <<>>
  PROVE  \A i \in 1..Len(requestQueue) : requestQueue[i] # p
BY DEF QueueInv, HeardAndWaiting

(* The waiter hears a REQUEST.                                             *)
LEMMA RecvRequestInv ==
  ASSUME IInv, NEW p \in Philosophers, RecvRequest(p)
  PROVE  IInv'
<1> USE DEF IInv
<1>1. /\ pc' = pc /\ granted' = granted /\ chopsticks' = chopsticks
      /\ waiterAt = "receiving" /\ waiterAt' = "serving"
      /\ requestQueue' = Append(requestQueue, p)
      /\ toWaiter[p] # <<>> /\ Head(toWaiter[p]) = REQUEST
      /\ toWaiter'[p] = Tail(toWaiter[p])
      /\ \A q \in Philosophers \ {p} : toWaiter'[q] = toWaiter[q]
  BY DEF RecvRequest, WaiterGoto, Enqueue, TypeOK
<1>2. toWaiter[p] = <<REQUEST>> /\ toWaiter'[p] = <<>>
  <2>1. toWaiter[p] \in Letters
    BY PhaseLetters
  <2>2. REQUEST # RELEASE
    BY SMT DEF REQUEST, RELEASE
  <2>3. toWaiter[p] = <<REQUEST>>
    BY <1>1, <2>1, <2>2, LetterFacts DEF Letters
  <2> QED BY <1>1, <2>3, LetterFacts
<1>3. TypeOK'
  <2>1. requestQueue' \in Seq(Philosophers)
    BY <1>1, AppendProperties DEF TypeOK
  <2>2. toWaiter'[p] \in Seq({REQUEST, RELEASE})
    BY <1>2, EmptySeq
  <2>3. toWaiter' \in [Philosophers -> Seq({REQUEST, RELEASE})]
    BY <1>1, <2>2 DEF TypeOK, RecvRequest
  <2> QED BY <1>1, <2>1, <2>3 DEF TypeOK
<1>4. pc[p] \in {"requesting", "hungry"} /\ p \notin granted
  <2>1. Phase(p)
    BY DEF Phases
  <2> QED BY <1>2, <2>1, LetterFacts DEF Phase
<1>5. HeardAndWaiting(p)'
  BY <1>1, <1>2, <1>4 DEF HeardAndWaiting
<1>6. \A q \in Philosophers :
        /\ Phase(q)'
        /\ Holds(q)' <=> Holds(q)
        /\ HeardAndWaiting(q) => HeardAndWaiting(q)'
  <2> TAKE q \in Philosophers
  <2>1. CASE q = p
    <3>1. Phase(p)'
      BY <1>1, <1>2, <1>4 DEF Phase
    <3>2. Holds(p)' <=> Holds(p)
      BY <1>1, <1>2, LetterFacts DEF Holds, Releasing
    <3> QED BY <1>5, <2>1, <3>1, <3>2
  <2>2. CASE q # p
    BY <1>1, <2>2 DEF Phases, Phase, Holds, HeardAndWaiting
  <2> QED BY <2>1, <2>2
<1>7. Phases'
  BY <1>6 DEF Phases
<1>8. QueueInv'
  <2>1. requestQueue \in Seq(Philosophers)
    BY DEF TypeOK
  <2>2. /\ Len(requestQueue) \in Nat
        /\ Len(requestQueue') = Len(requestQueue) + 1
        /\ \A i \in 1..Len(requestQueue) : requestQueue'[i] = requestQueue[i]
        /\ requestQueue'[Len(requestQueue) + 1] = p
    BY <1>1, <2>1, AppendProperties, LenProperties
  <2>3. \A i \in 1..Len(requestQueue') :
          i \in 1..Len(requestQueue) \/ i = Len(requestQueue) + 1
    BY <2>2, SMT
  <2>4. \A i \in 1..Len(requestQueue) :
          requestQueue[i] # p /\ requestQueue[i] \in Philosophers
    BY <1>1, <2>1, SenderNotQueued, ElementOfSeq
  <2>5. \A i, j \in 1..Len(requestQueue') :
          requestQueue'[i] = requestQueue'[j] => i = j
    BY <2>2, <2>3, <2>4, SMT DEF QueueInv
  <2>6. \A i \in 1..Len(requestQueue') : HeardAndWaiting(requestQueue[i])'
    <3> TAKE i \in 1..Len(requestQueue')
    <3>1. CASE i = Len(requestQueue) + 1
      BY <1>5, <2>2, <3>1 DEF HeardAndWaiting
    <3>2. CASE i \in 1..Len(requestQueue)
      <4>1. HeardAndWaiting(requestQueue[i])
        BY <1>1, <3>2 DEF QueueInv
      <4>2. requestQueue'[i] = requestQueue[i] /\ requestQueue[i] \in Philosophers
        BY <2>2, <2>4, <3>2
      <4> QED BY <1>6, <4>1, <4>2 DEF HeardAndWaiting
    <3> QED BY <2>3, <3>1, <3>2
  <2> QED BY <1>1, <2>5, <2>6 DEF QueueInv
<1>9. Ledger'
  BY <1>1, <1>6, Zenon DEF Ledger
<1> QED BY <1>1, <1>3, <1>7, <1>8, <1>9 DEF WaiterInv

(* The waiter gets two chopsticks back.                                    *)
LEMMA RecvReleaseInv ==
  ASSUME IInv, NEW p \in Philosophers, RecvRelease(p)
  PROVE  IInv'
<1> USE DEF IInv
<1>1. /\ pc' = pc /\ granted' = granted /\ requestQueue' = requestQueue
      /\ waiterAt = "receiving" /\ waiterAt' = "serving"
      /\ chopsticks' = [c \in Philosophers |->
                          IF c \in Chopsticks(p) THEN 0 ELSE chopsticks[c]]
      /\ toWaiter[p] # <<>> /\ Head(toWaiter[p]) = RELEASE
      /\ toWaiter'[p] = Tail(toWaiter[p])
      /\ \A q \in Philosophers \ {p} : toWaiter'[q] = toWaiter[q]
  BY DEF RecvRelease, WaiterGoto, Free, Mark, TypeOK
<1>2. /\ toWaiter[p] \in Releasing
      /\ toWaiter[p] = <<RELEASE>> => toWaiter'[p] = <<>>
      /\ toWaiter[p] = <<RELEASE, REQUEST>> => toWaiter'[p] = <<REQUEST>>
  <2>1. toWaiter[p] \in Letters
    BY PhaseLetters
  <2>2. REQUEST # RELEASE
    BY SMT DEF REQUEST, RELEASE
  <2>3. toWaiter[p] \in Releasing
    BY <1>1, <2>1, <2>2, LetterFacts DEF Letters, Releasing
  <2> QED BY <1>1, <2>3, LetterFacts
<1>3. TypeOK'
  <2>1. toWaiter'[p] \in Seq({REQUEST, RELEASE})
    BY <1>2, LetterFacts DEF Letters, Releasing
  <2>2. toWaiter' \in [Philosophers -> Seq({REQUEST, RELEASE})]
    BY <1>1, <2>1 DEF TypeOK, RecvRelease
  <2>3. chopsticks' \in [Philosophers -> {0, 1}]
    BY <1>1 DEF TypeOK
  <2> QED BY <1>1, <2>2, <2>3 DEF TypeOK
<1>4. /\ Phase(p)' /\ Holds(p) /\ ~Holds(p)'
  <2>1. Phase(p)
    BY DEF Phases
  <2>2. CASE toWaiter[p] = <<RELEASE>>
    <3>1. /\ toWaiter'[p] = <<>> /\ p \notin granted
          /\ pc[p] \in {"thinking", "releasing"}
      BY <1>2, <2>1, <2>2, LetterFacts DEF Phase
    <3> QED BY <1>1, <1>2, <2>2, <3>1, LetterFacts DEF Phase, Holds, Releasing
  <2>3. CASE toWaiter[p] = <<RELEASE, REQUEST>>
    <3>1. /\ toWaiter'[p] = <<REQUEST>> /\ p \notin granted
          /\ pc[p] \in {"requesting", "hungry"}
      BY <1>2, <2>1, <2>3, LetterFacts DEF Phase
    <3> QED BY <1>1, <1>2, <2>3, <3>1, LetterFacts DEF Phase, Holds, Releasing
  <2> QED BY <1>2, <2>2, <2>3 DEF Releasing
<1>5. \A q \in Philosophers \ {p} :
        /\ Phase(q)'
        /\ Holds(q)' <=> Holds(q)
        /\ HeardAndWaiting(q) => HeardAndWaiting(q)'
  BY <1>1 DEF Phases, Phase, Holds, HeardAndWaiting
<1>6. Phases'
  BY <1>4, <1>5 DEF Phases
<1>7. QueueInv'
  <2>1. \A i \in 1..Len(requestQueue) :
          requestQueue[i] \in Philosophers \ {p}
    BY <1>1, SenderNotQueued, ElementOfSeq DEF TypeOK
  <2> QED BY <1>1, <1>5, <2>1 DEF QueueInv
<1>8. Ledger'
  <2>1. \A q \in Philosophers : Holds(q)' => q # p /\ Holds(q)
    BY <1>4, <1>5
  <2>2. \A q \in Philosophers : Holds(q)' => \A c \in Chopsticks(q) : chopsticks'[c] = 1
    <3> SUFFICES ASSUME NEW q \in Philosophers, Holds(q)', NEW c \in Chopsticks(q)
                 PROVE  chopsticks'[c] = 1
      OBVIOUS
    <3>1. c \in Philosophers
      BY OnTheTable
    <3>2. q # p /\ Holds(q)
      BY <2>1
    <3>3. Chopsticks(p) \cap Chopsticks(q) = {}
      BY <1>4, <3>2 DEF Ledger
    <3>4. chopsticks[c] = 1
      BY <3>2 DEF Ledger
    <3> QED BY <1>1, <3>1, <3>3, <3>4
  <2>3. \A q, r \in Philosophers :
          Holds(q)' /\ Holds(r)' /\ Chopsticks(q) \cap Chopsticks(r) # {} => q = r
    <3>1. \A q, r \in Philosophers :
            Holds(q) /\ Holds(r) /\ Chopsticks(q) \cap Chopsticks(r) # {} => q = r
      BY DEF Ledger
    <3> QED BY <2>1, <3>1, Zenon
  <2>4. \A c \in Philosophers : chopsticks'[c] = 1 =>
          \E q \in Philosophers : Holds(q)' /\ c \in Chopsticks(q)
    <3> TAKE c \in Philosophers
    <3> HAVE chopsticks'[c] = 1
    <3>1. c \notin Chopsticks(p) /\ chopsticks[c] = 1
      BY <1>1, SMT
    <3>2. \E q \in Philosophers : Holds(q) /\ c \in Chopsticks(q)
      BY <3>1, Zenon DEF Ledger
    <3>3. PICK q \in Philosophers : Holds(q) /\ c \in Chopsticks(q)
      BY <3>2
    <3>4. Holds(q)'
      BY <1>5, <3>1, <3>3
    <3> QED BY <3>3, <3>4
  <2> QED BY <2>2, <2>3, <2>4, Zenon DEF Ledger
<1> QED BY <1>1, <1>3, <1>6, <1>7, <1>8 DEF WaiterInv

(* The waiter starts to grant the first of the queue its chopsticks ...    *)
LEMMA SendGrantInv ==
  ASSUME IInv, SendGrant
  PROVE  IInv'
<1> USE DEF IInv
<1>0. PICK h \in Philosophers : h = Head(requestQueue)
  BY HeadTailProperties DEF SendGrant, CanServe, TypeOK
<1>1. /\ pc' = pc /\ toWaiter' = toWaiter /\ requestQueue' = requestQueue
      /\ requestQueue # <<>> /\ BothFree(h)
      /\ waiterAt = "serving" /\ waiterAt' = "granting"
      /\ granted' = granted \cup {h}
      /\ chopsticks' = [c \in Philosophers |->
                          IF c \in Chopsticks(h) THEN 1 ELSE chopsticks[c]]
  BY <1>0 DEF SendGrant, CanServe, WaiterGoto, Take, Mark
<1>2. /\ Len(requestQueue) \in Nat \ {0}
      /\ 1 \in 1..Len(requestQueue)
      /\ h = requestQueue[1]
  <2>1. requestQueue \in Seq(Philosophers)
    BY DEF TypeOK
  <2>2. Len(requestQueue) \in Nat \ {0}
    BY <1>1, <2>1, EmptySeq
  <2>3. h = requestQueue[1]
    BY <1>0, <2>1, <2>2, SMT
  <2> QED BY <2>2, <2>3, SMT
<1>3. HeardAndWaiting(h)
  BY <1>1, <1>2 DEF QueueInv
<1>4. TypeOK'
  BY <1>1, <1>2 DEF TypeOK
<1>5. Phase(h)' /\ Holds(h)' /\ ~Holds(h)
  BY <1>1, <1>3, LetterFacts DEF Phase, Holds, HeardAndWaiting, Releasing
<1>6. \A q \in Philosophers \ {h} :
        /\ Phase(q)'
        /\ Holds(q)' <=> Holds(q)
        /\ HeardAndWaiting(q) => HeardAndWaiting(q)'
  BY <1>1 DEF Phases, Phase, Holds, HeardAndWaiting
<1>7. Phases'
  BY <1>5, <1>6 DEF Phases
<1>8. QueueInv'
  <2>1. \A i \in 1..Len(requestQueue) : i # 1 =>
          requestQueue[i] \in Philosophers \ {h} /\ HeardAndWaiting(requestQueue[i])
    BY <1>1, <1>2, ElementOfSeq DEF QueueInv, TypeOK
  <2> QED BY <1>1, <1>6, <2>1 DEF QueueInv
<1>9. Ledger'
  <2>1. \A c \in Chopsticks(h) : c \in Philosophers /\ chopsticks[c] = 0
    BY <1>1, <1>2, OnTheTable DEF BothFree, Chopsticks
  <2>2. \A q \in Philosophers : Holds(q) => q # h /\ Chopsticks(q) \cap Chopsticks(h) = {}
    <3>1. \A q \in Philosophers : Holds(q) => \A c \in Chopsticks(q) : chopsticks[c] = 1
      BY Zenon DEF Ledger
    <3> QED BY <1>5, <2>1, <3>1, SMT
  <2>3. \A q \in Philosophers : Holds(q)' => \A c \in Chopsticks(q) : chopsticks'[c] = 1
    <3> SUFFICES ASSUME NEW q \in Philosophers, Holds(q)', NEW c \in Chopsticks(q)
                 PROVE  chopsticks'[c] = 1
      OBVIOUS
    <3>1. c \in Philosophers
      BY OnTheTable
    <3>2. CASE q = h
      BY <1>1, <3>1, <3>2
    <3>3. CASE q # h
      <4>1. chopsticks[c] = 1
        BY <1>6, <3>3, Zenon DEF Ledger
      <4> QED BY <1>1, <3>1, <4>1
    <3> QED BY <3>2, <3>3
  <2>4. \A q, r \in Philosophers :
          Holds(q)' /\ Holds(r)' /\ Chopsticks(q) \cap Chopsticks(r) # {} => q = r
    <3>1. \A q, r \in Philosophers :
            Holds(q) /\ Holds(r) /\ Chopsticks(q) \cap Chopsticks(r) # {} => q = r
      BY DEF Ledger
    <3>2. \A q \in Philosophers : Holds(q)' => q = h \/ Holds(q)
      BY <1>6
    <3> QED BY <2>2, <3>1, <3>2
  <2>5. \A c \in Philosophers : chopsticks'[c] = 1 =>
          \E q \in Philosophers : Holds(q)' /\ c \in Chopsticks(q)
    <3> TAKE c \in Philosophers
    <3> HAVE chopsticks'[c] = 1
    <3>1. CASE c \in Chopsticks(h)
      BY <1>2, <1>5, <3>1
    <3>2. CASE c \notin Chopsticks(h)
      <4>1. chopsticks[c] = 1
        BY <1>1, <3>2
      <4>2. PICK q \in Philosophers : Holds(q) /\ c \in Chopsticks(q)
        BY <4>1, Zenon DEF Ledger
      <4>3. Holds(q)'
        BY <1>6, <3>2, <4>2
      <4> QED BY <4>2, <4>3
    <3> QED BY <3>1, <3>2
  <2> QED BY <2>3, <2>4, <2>5, Zenon DEF Ledger
<1> QED BY <1>1, <1>4, <1>7, <1>8, <1>9 DEF WaiterInv

(* ... the GRANT is on its way ...                                         *)
LEMMA GrantSentInv ==
  ASSUME IInv, GrantSent
  PROVE  IInv'
<1> USE DEF IInv
<1>1. /\ pc' = pc /\ toWaiter' = toWaiter /\ granted' = granted
      /\ chopsticks' = chopsticks
      /\ waiterAt = "granting" /\ waiterAt' = "serving"
      /\ requestQueue' = Tail(requestQueue)
      /\ requestQueue \in Seq(Philosophers) /\ requestQueue # <<>>
  BY DEF GrantSent, WaiterGoto, QueueInv, TypeOK
<1>2. /\ Len(requestQueue) \in Nat \ {0}
      /\ requestQueue' \in Seq(Philosophers)
      /\ Len(requestQueue') = Len(requestQueue) - 1
      /\ \A i \in 1..Len(requestQueue') : requestQueue'[i] = requestQueue[i + 1]
  BY <1>1, EmptySeq, HeadTailProperties
<1>3. TypeOK'
  BY <1>1, <1>2 DEF TypeOK
<1>4. \A q \in Philosophers : Phase(q)' /\ (Holds(q)' <=> Holds(q))
  <2> TAKE q \in Philosophers
  <2>1. Phase(q)
    BY DEF Phases
  <2> QED BY <1>1, <2>1 DEF Phase, Holds
<1>5. Phases'
  BY <1>4 DEF Phases
<1>6. QueueInv'
  <2>1. \A i \in 1..Len(requestQueue') : i + 1 \in 1..Len(requestQueue) /\ i + 1 # 1
    BY <1>2, SMT
  <2>2. \A i, j \in 1..Len(requestQueue') :
          requestQueue'[i] = requestQueue'[j] => i = j
    <3>1. \A i, j \in 1..Len(requestQueue) : requestQueue[i] = requestQueue[j] => i = j
      BY DEF QueueInv
    <3> TAKE i, j \in 1..Len(requestQueue')
    <3>2. requestQueue[i + 1] = requestQueue[j + 1] => i + 1 = j + 1
      BY <2>1, <3>1
    <3> QED BY <1>2, <3>2, SMT
  <2>3. \A i \in 1..Len(requestQueue') : HeardAndWaiting(requestQueue[i])'
    <3> TAKE i \in 1..Len(requestQueue')
    <3>1. HeardAndWaiting(requestQueue[i + 1])
      BY <2>1 DEF QueueInv
    <3> QED BY <1>1, <1>2, <3>1 DEF HeardAndWaiting
  <2> QED BY <1>1, <2>2, <2>3 DEF QueueInv
<1>7. Ledger'
  BY <1>1, <1>4, Zenon DEF Ledger
<1> QED BY <1>1, <1>3, <1>5, <1>6, <1>7 DEF WaiterInv

(* ... and the waiter waits again when it can serve nobody.                *)
LEMMA StopServingInv ==
  ASSUME IInv, StopServing
  PROVE  IInv'
<1>1. /\ UNCHANGED <<pc, toWaiter, granted, chopsticks, requestQueue>>
      /\ waiterAt = "serving" /\ waiterAt' = "receiving" /\ ~CanServe
  BY DEF StopServing, WaiterGoto
<1>2. TypeOK' /\ Phases' /\ WaiterInv'
  BY <1>1 DEF IInv, TypeOK, Phases, Phase, WaiterInv, CanServe, BothFree
<1>3. QueueInv'
  BY <1>1 DEF IInv, QueueInv, HeardAndWaiting
<1>4. Ledger'
  BY <1>1 DEF IInv, Ledger, Holds
<1> QED BY <1>2, <1>3, <1>4 DEF IInv

-----------------------------------------------------------------------------
(* The invariant holds in every state that is reached.                     *)
THEOREM Invariance == Spec => []IInv
<1>1. IInv /\ [Next]_vars => IInv'
  <2> SUFFICES ASSUME IInv, [Next]_vars PROVE IInv'
    OBVIOUS
  <2>1. CASE \E p \in Philosophers : PhilosopherStep(p)
    BY <2>1, PhilosopherInv
  <2>2. CASE \E p \in Philosophers : Receive(p)
    BY <2>2, RecvRequestInv, RecvReleaseInv DEF Receive
  <2>3. CASE SendGrant
    BY <2>3, SendGrantInv
  <2>4. CASE GrantSent
    BY <2>4, GrantSentInv
  <2>5. CASE StopServing
    BY <2>5, StopServingInv
  <2>6. CASE UNCHANGED vars
    <3>1. UNCHANGED <<pc, toWaiter, granted, waiterAt, chopsticks, requestQueue>>
      BY <2>6 DEF vars
    <3>2. TypeOK' /\ Phases' /\ WaiterInv'
      BY <3>1 DEF IInv, TypeOK, Phases, Phase, WaiterInv, CanServe, BothFree
    <3>3. QueueInv'
      BY <3>1 DEF IInv, QueueInv, HeardAndWaiting
    <3>4. Ledger'
      BY <3>1 DEF IInv, Ledger, Holds
    <3> QED BY <3>2, <3>3, <3>4 DEF IInv
  <2> QED BY <2>1, <2>2, <2>3, <2>4, <2>5, <2>6 DEF Next, WaiterStep
<1> QED BY InitInv, <1>1, PTL DEF Spec

(* The state of the waiter, the philosophers and the messages is always    *)
(* well formed (philosopher and waiter).                                   *)
THEOREM TypeCorrect == Spec => []TypeOK
<1>1. IInv => TypeOK
  BY DEF IInv
<1> QED BY Invariance, <1>1, PTL

(* However many philosophers sit at the table, two who share a chopstick   *)
(* never eat at the same time (the waiter's test of both chopsticks).      *)
THEOREM NeighboursSafe == Spec => []NeighboursNeverEatTogether
<1>1. IInv => NeighboursNeverEatTogether
  <2>1. Ledger => \A p, q \in Philosophers :
          Holds(p) /\ Holds(q) /\ Chopsticks(p) \cap Chopsticks(q) # {} => p = q
    BY DEF Ledger
  <2> QED BY <2>1 DEF IInv, NeighboursNeverEatTogether, Holds
<1> QED BY Invariance, <1>1, PTL

(* The chopsticks the waiter has marked are those of the philosophers it   *)
(* has granted and not heard back from, each counted once.                 *)
THEOREM LedgerIsExact == Spec => []ChopsticksAccounted
<1>1. IInv => ChopsticksAccounted
  <2> SUFFICES ASSUME IInv, NEW c \in Philosophers
               PROVE  Cardinality({p \in Philosophers : Served(p) /\ c \in Chopsticks(p)})
                        = chopsticks[c]
    BY DEF ChopsticksAccounted
  <2> DEFINE H == {p \in Philosophers : Served(p) /\ c \in Chopsticks(p)}
  <2>1. \A p \in Philosophers : Served(p) <=> Holds(p)
    BY ServedHolds DEF IInv
  <2>2. CASE chopsticks[c] = 0
    <3>1. \A p \in Philosophers : Holds(p) => \A k \in Chopsticks(p) : chopsticks[k] = 1
      BY Zenon DEF IInv, Ledger
    <3>2. H = {}
      BY <2>1, <2>2, <3>1, SMT
    <3> QED BY <2>2, <3>2, FS_EmptySet
  <2>3. CASE chopsticks[c] = 1
    <3>1. \E p \in Philosophers : Holds(p) /\ c \in Chopsticks(p)
      BY <2>3, Zenon DEF IInv, Ledger
    <3>2. PICK p \in Philosophers : Holds(p) /\ c \in Chopsticks(p)
      BY <3>1
    <3>3. \A q, r \in Philosophers :
            Holds(q) /\ Holds(r) /\ Chopsticks(q) \cap Chopsticks(r) # {} => q = r
      BY DEF IInv, Ledger
    <3>4. \A q \in H : q = p
      BY <2>1, <3>2, <3>3
    <3>5. H = {p}
      BY <2>1, <3>2, <3>4
    <3> QED BY <2>3, <3>5, FS_Singleton
  <2> QED BY <2>2, <2>3 DEF IInv, TypeOK
<1> QED BY Invariance, <1>1, PTL

(* The request queue holds every philosopher at most once, and nobody who  *)
(* is served already but for the one whose GRANT is being sent.            *)
THEOREM QueueIsBounded == Spec => []OneRequestEach
<1>1. IInv => OneRequestEach
  <2> SUFFICES ASSUME IInv PROVE OneRequestEach
    OBVIOUS
  <2>1. DOMAIN requestQueue = 1..Len(requestQueue)
    BY LenProperties DEF IInv, TypeOK
  <2>2. \A i \in 1..Len(requestQueue) : requestQueue[i] \in Philosophers
    BY ElementOfSeq DEF IInv, TypeOK
  <2>3. \A p \in Philosophers : HeardAndWaiting(p) => ~Served(p)
    BY ServedHolds, LetterFacts DEF IInv, HeardAndWaiting, Holds, Releasing
  <2> QED BY <2>1, <2>2, <2>3 DEF IInv, QueueInv, OneRequestEach
<1> QED BY Invariance, <1>1, PTL

(* Deadlock freedom: whenever the waiter waits for a message while a       *)
(* request is queued, a RELEASE is due from somebody who is served.        *)
THEOREM NoDeadlock == Spec => []WaiterNeverWaitsInVain
<1>1. IInv => WaiterNeverWaitsInVain
  <2> SUFFICES ASSUME IInv, waiterAt = "receiving", requestQueue # <<>>
               PROVE  \E p \in Philosophers : Served(p)
    BY DEF WaiterNeverWaitsInVain
  <2> DEFINE h == Head(requestQueue)
  <2>1. h \in Philosophers
    BY HeadTailProperties DEF IInv, TypeOK
  <2>2. \E c \in Chopsticks(h) : chopsticks[c] # 0
    BY DEF IInv, WaiterInv, CanServe, BothFree, Chopsticks
  <2>3. \E c \in Philosophers : chopsticks[c] = 1
    BY <2>1, <2>2, OnTheTable DEF IInv, TypeOK
  <2>4. \E p \in Philosophers : Holds(p)
    BY <2>3, Zenon DEF IInv, Ledger
  <2> QED BY <2>4, ServedHolds DEF IInv
<1> QED BY Invariance, <1>1, PTL
=============================================================================
