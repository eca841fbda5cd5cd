------------------------- MODULE ThreadProgramsProofs -------------------------
(***************************************************************************)
(* What the thread programs promise, for teams of every size; and in the   *)
(* last part the linked queue.                                             *)
(***************************************************************************)
EXTENDS ThreadPrograms, LinkedQueue, TLAPS, FiniteSetTheorems, SequenceTheorems,
        WellFoundedInduction

-----------------------------------------------------------------------------
(* How far main and n threads have come: those not created yet are unborn, *)
(* those joined are done, and after the loop of the joins nobody runs (in  *)
(* a program that does not always join, unless it failed).                 *)
Places == {"start", "create", "join", "print", "free", "freed", "ended", "undefined"}
Phases == [at : Places, next : Int, count : Int, error : BOOLEAN]
Team(n) == 0..n - 1
AtRest(n) == \A t \in Team(n) : at[t] \in {"unborn", "done"}

Lives(n, points, joins) ==
  /\ main \in Phases /\ main.next \in 0..n /\ main.count \in 0..n
  /\ at \in [Team(n) -> points]
  /\ main.at = "start" => main.count = n /\ \A t \in Team(n) : at[t] = "unborn"
  /\ main.at = "create" => main.count = n /\ \A t \in main.next..n - 1 : at[t] = "unborn"
  /\ main.at = "join" => /\ \A t \in 0..main.next - 1 : at[t] = "done"
                         /\ \A t \in main.count..n - 1 : at[t] = "unborn"
                         /\ main.next <= main.count
  /\ main.at \in {"print", "free", "freed"} /\ (joins \/ ~main.error) => AtRest(n)

(* What a thread does concerns neither main nor the threads at rest.       *)
Stays(n, points) ==
  /\ at' \in [Team(n) -> points]
  /\ \A t \in Team(n) : at[t] \in {"unborn", "done"} => at'[t] = at[t]

(* What main does, in every program that creates threads.                  *)
Creates(n, points) ==
  /\ main.at = "create" /\ main.next < n /\ main' = [main EXCEPT !.next = @ + 1]
  /\ \E point \in points : at' \in {at, [at EXCEPT ![main.next] = point]}

Joins ==
  /\ main.at = "join" /\ main.next < main.count /\ at[main.next] = "done"
  /\ main' = [main EXCEPT !.next = @ + 1] /\ at' = at

Leaves(n, points, joins) ==
  /\ main' \in Phases /\ main'.next \in 0..n
  /\ main'.count \in 0..n /\ (main'.at # "join" => main'.count = main.count)
  /\ Stays(n, points)
  /\ \/ main.at = "start" /\ main'.at = "create" /\ at' = at /\ main'.next = 0
     \/ /\ main.at = "create" /\ main'.at = "join" /\ main'.next = 0
        /\ main'.count \in {main.next, n}
     \/ /\ main.at = "join" /\ main.next = main.count /\ at' = at
        /\ main'.at \in {"print", "free", "freed"} /\ main'.error = main.error
     \/ /\ main.at \in {"print", "free", "freed"} /\ at' = at
        /\ main'.at \in {"print", "free", "freed"} /\ main'.error = main.error
     \/ ~joins /\ main'.at = "free" /\ main'.error
     \/ main'.at \in {"ended", "undefined"}

Moves(n, points, joins) == Creates(n, points) \/ Joins \/ Leaves(n, points, joins)

(* Whatever its main and its threads do of that, a program lives on so.    *)
LEMMA ThreadLivesOn ==
  ASSUME NEW n \in Nat, NEW points, NEW joins \in BOOLEAN, Lives(n, points, joins),
         Stays(n, points), main' = main
  PROVE  Lives(n, points, joins)'
BY DEF Lives, Stays, AtRest, Team, Places

LEMMA MainLivesOn ==
  ASSUME NEW n \in Nat, NEW points, NEW joins \in BOOLEAN, Lives(n, points, joins),
         Moves(n, points, joins)
  PROVE  Lives(n, points, joins)'
<1>1. CASE Creates(n, points)
  BY <1>1 DEF Lives, Creates, Team, Phases, AtRest
<1>2. CASE Joins
  BY <1>2 DEF Lives, Joins, Team, Phases, AtRest
<1>3. CASE Leaves(n, points, joins)
  BY <1>3 DEF Lives, Leaves, Stays, Team, Phases, AtRest
<1> QED BY <1>1, <1>2, <1>3 DEF Moves

(* main goes from one place to another, and no thread does.                *)
MayGo(from, to) ==
  \/ from = "start" /\ to = "create"
  \/ from = "create" /\ to = "join"
  \/ from = "join" /\ main.next = main.count /\ to \in {"print", "free", "freed"}
  \/ from \in {"print", "free", "freed"} /\ to \in {"print", "free", "freed"}
  \/ to \in {"ended", "undefined"}

MayFail(from, to, joins) ==
  \/ from = "create" /\ to = "join"
  \/ from = "create" /\ to = "free" /\ ~joins
  \/ to \in {"ended", "undefined"}

LEMMA MainLeaves ==
  ASSUME NEW n \in Nat, NEW points, NEW joins \in BOOLEAN, Lives(n, points, joins),
         at' = at,
         main' \in Phases, main'.next = 0, main'.count = main.count,
         \/ MayGo(main.at, main'.at) /\ main'.error = main.error
         \/ MayFail(main.at, main'.at, joins) /\ main'.error
  PROVE  Moves(n, points, joins)
<1>1. Stays(n, points) /\ main.count \in 0..n /\ main.next \in 0..n
  BY DEF Lives, Stays
<1>2. main.at = "create" => main.count = n
  BY DEF Lives
<1>3. 0 \in 0..n
  OBVIOUS
<1>4. CASE MayGo(main.at, main'.at) /\ main'.error = main.error
  BY <1>1, <1>2, <1>3, <1>4 DEF Moves, Leaves, MayGo
<1>5. CASE MayFail(main.at, main'.at, joins) /\ main'.error
  BY <1>1, <1>2, <1>3, <1>5 DEF Moves, Leaves, MayFail
<1> QED BY <1>4, <1>5

GoesTo(from, to) ==
  main.at = from /\ main' = [main EXCEPT !.at = to, !.next = 0]

FailsTo(from, to) ==
  main.at = from /\ main' = [main EXCEPT !.at = to, !.next = 0, !.error = TRUE]

LEMMA MainGoesOn ==
  ASSUME NEW n \in Nat, NEW points, NEW joins \in BOOLEAN, Lives(n, points, joins),
         NEW from, NEW to, MayGo(from, to), GoesTo(from, to), at' = at
  PROVE  Moves(n, points, joins)
<1>1. main \in Phases
  BY DEF Lives
<1>2. main' = [at |-> to, next |-> 0, count |-> main.count, error |-> main.error]
  BY <1>1 DEF GoesTo, Phases
<1>3. to \in Places /\ main.at = from
  BY DEF MayGo, Places, GoesTo
<1>4. /\ main' \in Phases /\ main'.next = 0 /\ main'.count = main.count
      /\ main'.at = to /\ main'.error = main.error
  BY <1>1, <1>2, <1>3 DEF Phases
<1> QED BY <1>3, <1>4, MainLeaves

LEMMA MainFailsThen ==
  ASSUME NEW n \in Nat, NEW points, NEW joins \in BOOLEAN, Lives(n, points, joins),
         NEW from, NEW to, MayFail(from, to, joins), FailsTo(from, to), at' = at
  PROVE  Moves(n, points, joins)
<1>1. main \in Phases
  BY DEF Lives
<1>2. main' = [at |-> to, next |-> 0, count |-> main.count, error |-> TRUE]
  BY <1>1 DEF FailsTo, Phases
<1>3. to \in Places /\ main.at = from
  BY DEF MayFail, Places, FailsTo
<1>4. /\ main' \in Phases /\ main'.next = 0 /\ main'.count = main.count
      /\ main'.at = to /\ main'.error
  BY <1>1, <1>2, <1>3 DEF Phases
<1> QED BY <1>3, <1>4, MainLeaves

LEMMA MainJoins ==
  ASSUME NEW n \in Nat, NEW points, NEW joins \in BOOLEAN, Lives(n, points, joins),
         at' = at,
         Joins \/ GoesTo("join", "undefined")
  PROVE  Moves(n, points, joins)
<1>1. CASE Joins
  BY <1>1 DEF Moves
<1>2. CASE GoesTo("join", "undefined")
  BY <1>2, MainGoesOn DEF MayGo
<1> QED BY <1>1, <1>2

-----------------------------------------------------------------------------
(* Teams of threads.                                                       *)
TeamPoints == {"greet", "wait", "print", "load", "store", "post", "lock",
               "increment", "hit", "unborn", "done"}

LEMMA TeamsMain ==
  ASSUME Lives(TeamSize, TeamPoints, TRUE), Teams!MainStep
  PROVE  Moves(TeamSize, TeamPoints, TRUE)
<1>n. TeamSize \in Nat /\ main \in Phases
  BY NumbersAssumption DEF Lives
<1>1. ASSUME NEW from, NEW to, MayGo(from, to), Teams!Passes(from, to)
      PROVE  Moves(TeamSize, TeamPoints, TRUE)
  BY <1>1, <1>n, MainGoesOn DEF Teams!Passes, Teams!MainGoes, GoesTo
<1>2. ASSUME NEW data, Teams!Allocate(data)
      PROVE  Moves(TeamSize, TeamPoints, TRUE)
  <2>1. MayGo("start", "create") /\ MayFail("start", "ended", TRUE)
    BY DEF MayGo, MayFail
  <2>2. at' = at /\ (GoesTo("start", "create") \/ FailsTo("start", "ended"))
    BY <1>2 DEF Teams!Allocate, Teams!MainGoes, Teams!MainFails, GoesTo, FailsTo
  <2> QED BY <1>n, <2>1, <2>2, MainGoesOn, MainFailsThen
<1>3. ASSUME NEW to \in {"ended", "join"}, Teams!CreationFails(to)
      PROVE  Moves(TeamSize, TeamPoints, TRUE)
  <2>1. MayFail("create", to, TRUE)
    BY DEF MayFail
  <2>2. at' = at /\ FailsTo("create", to)
    BY <1>3 DEF Teams!CreationFails, Teams!MainFails, FailsTo
  <2> QED BY <1>n, <2>1, <2>2, MainFailsThen
<1>4. ASSUME Teams!CreationEnds
      PROVE  Moves(TeamSize, TeamPoints, TRUE)
  BY <1>4, <1>1 DEF Teams!CreationEnds, MayGo
<1>5. ASSUME NEW first \in TeamPoints, Teams!CreateNext(first)
      PROVE  Moves(TeamSize, TeamPoints, TRUE)
  BY <1>5 DEF Teams!CreateNext, Moves, Creates
<1>6. ASSUME Teams!JoinNext
      PROVE  Moves(TeamSize, TeamPoints, TRUE)
  <2>1. at' = at /\ (Joins \/ GoesTo("join", "undefined"))
    BY <1>6 DEF Teams!JoinNext, Teams!MainGoes, Joins, GoesTo
  <2> QED BY <1>n, <2>1, MainJoins
<1>7. ASSUME NEW to \in {"print", "free", "freed"}, Teams!JoinEnds(to)
      PROVE  Moves(TeamSize, TeamPoints, TRUE)
  BY <1>7, <1>1 DEF Teams!JoinEnds, Teams!Passes, Teams!MainGoes, MayGo
<1>8. ASSUME NEW first \in TeamPoints, Teams!CreateThreads(first)
      PROVE  Moves(TeamSize, TeamPoints, TRUE)
  BY <1>3, <1>4, <1>5, <1>6, <1>7, <1>8 DEF Teams!CreateThreads
<1>9. /\ MayGo("free", "freed") /\ MayGo("freed", "ended") /\ "greet" \in TeamPoints
      /\ "wait" \in TeamPoints /\ "lock" \in TeamPoints /\ "hit" \in TeamPoints
      /\ MayGo("start", "undefined")
  BY DEF MayGo, TeamPoints
<1>10. CASE program = "hello_iw_pri" /\ (Teams!IwPriMain \/ Teams!IwPriCreateThreads)
  BY <1>10, <1>1, <1>2, <1>8, <1>9 DEF Teams!IwPriMain, Teams!IwPriCreateThreads
<1>11. CASE program = "hello_iw_shr" /\ (Teams!IwShrMain \/ Teams!IwShrCreateThreads)
  BY <1>11, <1>1, <1>2, <1>8, <1>9 DEF Teams!IwShrMain, Teams!IwShrCreateThreads
<1>12. CASE program = "hello_w" /\ (Teams!HelloWMain \/ Teams!HelloWCreateThreads)
  BY <1>12, <1>1, <1>2, <1>3, <1>4, <1>5, <1>6, <1>7, <1>9
     DEF Teams!HelloWMain, Teams!HelloWCreateThreads
<1>13. CASE /\ program = "create_thread_team"
            /\ Teams!TeamMain \/ Teams!TeamCreateThreads \/ Teams!TeamJoinThreads
  <2>1. ASSUME main.at = "create", main.next < TeamSize, at' = at,
               main' = [at |-> "join", next |-> 0, count |-> main.next, error |-> TRUE]
        PROVE  Moves(TeamSize, TeamPoints, TRUE)
    <3>1. /\ main' \in Phases /\ main'.at = "join" /\ main'.next = 0
          /\ main'.count = main.next /\ main.next \in 0..TeamSize
      BY <2>1, <1>n DEF Phases, Places, Lives
    <3>2. Stays(TeamSize, TeamPoints)
      BY <2>1 DEF Stays, Lives
    <3> QED BY <1>n, <2>1, <3>1, <3>2 DEF Moves, Leaves
  <2> QED BY <1>13, <2>1, <1>1, <1>2, <1>4, <1>5, <1>6, <1>7, <1>9
          DEF Teams!TeamMain, Teams!TeamCreateThreads, Teams!TeamJoinThreads
<1>14. CASE program = "hello_order_busywait" /\ (Teams!BusywaitMain \/ Teams!BusywaitCreateThreads)
  BY <1>14, <1>1, <1>2, <1>8, <1>9 DEF Teams!BusywaitMain, Teams!BusywaitCreateThreads
<1>15. CASE program = "hello_order_cond_safe" /\ (Teams!CondSafeMain \/ Teams!CondSafeCreateThreads)
  <2>1. ASSUME main.at = "print", main.next < TeamSize, at' = at,
               main' = [main EXCEPT !.next = @ + 1]
        PROVE  Moves(TeamSize, TeamPoints, TRUE)
    <3>1. /\ main' \in Phases /\ main'.at = "print" /\ main'.next \in 0..TeamSize
          /\ main'.count = main.count /\ main'.error = main.error /\ main.count \in 0..TeamSize
      BY <2>1, <1>n DEF Phases, Places, Lives
    <3>2. Stays(TeamSize, TeamPoints)
      BY <2>1 DEF Stays, Lives
    <3> QED BY <1>n, <2>1, <3>1, <3>2 DEF Moves, Leaves
  <2>2. MayGo("print", "free")
    BY DEF MayGo
  <2> QED BY <1>15, <2>1, <2>2, <1>1, <1>2, <1>3, <1>4, <1>5, <1>6, <1>7, <1>9
          DEF Teams!CondSafeMain, Teams!CondSafeCreateThreads
<1>16. ASSUME Teams!CreateAndDestroy("wait")
       PROVE  Moves(TeamSize, TeamPoints, TRUE)
  BY <1>16, <1>3, <1>4, <1>5, <1>6, <1>7, <1>9 DEF Teams!CreateAndDestroy,
     Teams!JoinAndDestroy
<1>17. CASE program = "hello_order_semaphor" /\ (Teams!SemaphorMain \/ Teams!SemaphorCreateThreads)
  BY <1>17, <1>1, <1>2, <1>9, <1>16 DEF Teams!SemaphorMain, Teams!SemaphorCreateThreads,
     Teams!AllocateSemaphores
<1>18. CASE program = "sem_vs_condsafe" /\ (Teams!SemVsMain \/ Teams!SemVsCreateThreads)
  BY <1>18, <1>1, <1>2, <1>9, <1>16 DEF Teams!SemVsMain, Teams!SemVsCreateThreads,
     Teams!AllocateSemaphores
<1>19. CASE program = "position_race" /\ (Teams!RaceMain \/ Teams!RaceCreateThreads)
  BY <1>19, <1>1, <1>2, <1>8, <1>9 DEF Teams!RaceMain, Teams!RaceCreateThreads
<1>20. CASE program = "birthday_pinata" /\ (Teams!PinataMain \/ Teams!PinataCreateThreads)
  BY <1>20, <1>1, <1>2, <1>3, <1>4, <1>5, <1>6, <1>7, <1>9
     DEF Teams!PinataMain, Teams!PinataCreateThreads
<1> QED
  BY <1>10, <1>11, <1>12, <1>13, <1>14, <1>15, <1>17, <1>18, <1>19, <1>20 DEF Teams!MainStep

LEMMA TeamsThread ==
  ASSUME Lives(TeamSize, TeamPoints, TRUE), NEW t \in Teams!Threads, Teams!ThreadStep(t)
  PROVE  Stays(TeamSize, TeamPoints) /\ main' = main
<1>1. ASSUME NEW from \in TeamPoints \ {"unborn", "done"}, NEW to \in TeamPoints,
             Teams!Goes(t, from, to)
      PROVE  Stays(TeamSize, TeamPoints) /\ main' = main
  BY <1>1 DEF Teams!Goes, Stays, Lives, Teams!Threads, Team
<1>2. TeamPoints \ {"unborn", "done"} =
        {"greet", "wait", "print", "load", "store", "post", "lock", "increment", "hit"}
  BY DEF TeamPoints
<1>3. \A point \in {"greet", "wait", "print", "load", "store", "post", "lock", "increment",
                    "hit", "unborn", "done"} : point \in TeamPoints
  BY DEF TeamPoints
<1>4. CASE program \in {"hello_iw_pri", "hello_iw_shr", "hello_w", "create_thread_team"}
  BY <1>1, <1>2, <1>3, <1>4 DEF Teams!ThreadStep, Teams!IwPriGreet, Teams!IwShrGreet,
     Teams!HelloWGreet,
     Teams!TeamGreet, Teams!Greet
<1>5. CASE program = "hello_order_busywait"
  BY <1>1, <1>2, <1>3, <1>5 DEF Teams!ThreadStep, Teams!BusywaitGreet, Teams!Greet
<1>6. CASE program \in {"hello_order_semaphor", "sem_vs_condsafe"}
  BY <1>1, <1>2, <1>3, <1>6 DEF Teams!ThreadStep, Teams!SemaphorGreet, Teams!SemVsGreet,
     Teams!Greet
<1>7. CASE program \in {"hello_order_cond_safe", "position_race", "birthday_pinata"}
  BY <1>1, <1>2, <1>3, <1>7 DEF Teams!ThreadStep, Teams!CondSafeGreet, Teams!Race,
     Teams!Hit, Teams!Greet
<1> QED BY <1>4, <1>5, <1>6, <1>7 DEF Teams!ThreadStep

(* What has been reported, and what orders it: a thread has its turn when  *)
(* all before it have greeted, and holds it until it has passed it on.     *)
(* The programs keep that as long as they run; who was heard stays so.     *)
Reports(n, sayings) == Seq([by : Team(n), says : sayings])

Heard ==
  /\ program \in Teams!Greeting => output \in Reports(TeamSize, {"hello"})
  /\ program \in Teams!Ordered =>
       /\ output \in Reports(TeamSize, {"hello"})
       /\ \A i \in DOMAIN output : output[i] = [by |-> i - 1, says |-> "hello"]
  /\ program = "position_race" =>
       /\ output \in Reports(TeamSize, Nat)
       /\ \A i \in DOMAIN output : output[i].says = i
  /\ program = "birthday_pinata" => output \in Reports(TeamSize, {"none", "destroyed", "left"})

Started == main.at \notin {"start", "ended", "undefined"}

BusywaitTurns ==
  /\ shared \in [next_thread : 0..TeamSize, loaded : [Team(TeamSize) -> 0..TeamSize]]
  /\ \A t \in Team(TeamSize) :
       /\ t < shared.next_thread => at[t] = "done"
       /\ t > shared.next_thread => at[t] \in {"unborn", "wait"}
       /\ t = shared.next_thread =>
            /\ at[t] \in {"unborn", "wait", "print", "load", "store"}
            /\ at[t] = "store" => shared.loaded[t] = t
            /\ Len(output) = IF at[t] \in {"load", "store"} THEN t + 1 ELSE t
  /\ shared.next_thread = TeamSize => Len(output) = TeamSize

SemaphorTurn(k) ==
  /\ \A t \in Team(TeamSize) :
       /\ t < k => at[t] = "done"
       /\ t > k => at[t] \in {"unborn", "wait"}
       /\ t = k => \/ /\ at[t] \in {"unborn", "wait"}
                      /\ shared.can_greet[t] = 1 /\ Len(output) = k
                   \/ at[t] = "print" /\ shared.can_greet[t] = 0 /\ Len(output) = k
                   \/ at[t] = "post" /\ shared.can_greet[t] = 0 /\ Len(output) = k + 1
       /\ t # k => shared.can_greet[t] = IF k = TeamSize /\ t = 0 THEN 1 ELSE 0
  /\ k = TeamSize => Len(output) = k

SemaphorTurns ==
  /\ shared \in [can_greet : [Team(TeamSize) -> Int], destroyed : SUBSET Int]
  /\ \E k \in 0..TeamSize : SemaphorTurn(k)

CondSafeTurns ==
  /\ shared \in [greets : [Team(TeamSize) -> {"NULL", "", "hello", "freed"}]]
  /\ main.count = TeamSize
  /\ main.at \in {"create", "join"} =>
       /\ output = <<>>
       /\ \A t \in Team(TeamSize) : /\ at[t] \in {"unborn", "greet", "done"}
                                    /\ at[t] = "done" => shared.greets[t] = "hello"
  /\ main.at = "print" =>
       /\ Len(output) = main.next
       /\ \A t \in main.next..TeamSize - 1 : shared.greets[t] = "hello"

RaceTurns ==
  /\ shared \in [position : Nat, can_access_position : BOOLEAN]
  /\ shared.can_access_position =>
       /\ shared.position = Len(output)
       /\ \A t \in Team(TeamSize) : at[t] \notin {"increment", "print"}
  /\ ~shared.can_access_position =>
       \E h \in Team(TeamSize) :
         /\ at[h] \in {"increment", "print"}
         /\ shared.position = IF at[h] = "print" THEN Len(output) + 1 ELSE Len(output)
         /\ \A t \in Team(TeamSize) \ {h} : at[t] \notin {"increment", "print"}

Turns ==
  /\ main.at = "start" => output = <<>>
  /\ Started =>
       /\ program = "hello_order_busywait" => BusywaitTurns
       /\ program \in {"hello_order_semaphor", "sem_vs_condsafe"} => SemaphorTurns
       /\ program = "hello_order_cond_safe" => CondSafeTurns
       /\ program = "position_race" => RaceTurns

TeamsInv == program \in Teams!Programs /\ Lives(TeamSize, TeamPoints, TRUE) /\ Heard /\ Turns

-----------------------------------------------------------------------------
(* Most of what main does leaves the threads, what they share and what was *)
(* reported as they are.                                                   *)
Quiet == Started /\ main'.at # "start" /\ UNCHANGED <<at, shared, output>>

Creation(first) == Teams!CreateNext(first) /\ UNCHANGED shared

LEMMA QuietSteps ==
  ASSUME main \in Phases
  PROVE  /\ \A from, to : from \in {"create", "join", "print", "free", "freed"} /\ to # "start"
                           /\ Teams!Passes(from, to) => Quiet
         /\ \A first : Teams!CreateThreads(first) => Creation(first) \/ Quiet
         /\ \A to \in {"ended", "join"} : Teams!CreationFails(to) => Quiet
         /\ Teams!CreationEnds => Quiet
         /\ Teams!JoinNext /\ UNCHANGED shared => Quiet
         /\ \A to \in {"print", "free", "freed"} : Teams!JoinEnds(to) => Quiet
<1>1. ASSUME NEW from \in {"create", "join", "print", "free", "freed"}, NEW to,
             to # "start", Teams!Passes(from, to)
      PROVE  Quiet
  BY <1>1 DEF Teams!Passes, Teams!MainGoes, Phases, Places, Quiet, Started
<1>2. ASSUME NEW to \in {"ended", "join"}, Teams!CreationFails(to)
      PROVE  Quiet
  BY <1>2 DEF Teams!CreationFails, Teams!MainFails, Phases, Places, Quiet, Started
<1>3. ASSUME Teams!CreationEnds
      PROVE  Quiet
  BY <1>3, <1>1 DEF Teams!CreationEnds
<1>4. ASSUME Teams!JoinNext, UNCHANGED shared
      PROVE  Quiet
  BY <1>4 DEF Teams!JoinNext, Teams!MainGoes, Phases, Places, Quiet, Started
<1>5. ASSUME NEW to \in {"print", "free", "freed"}, Teams!JoinEnds(to)
      PROVE  Quiet
  BY <1>5, <1>1 DEF Teams!JoinEnds
<1>6. ASSUME NEW first, Teams!CreateThreads(first)
      PROVE  Creation(first) \/ Quiet
  BY <1>2, <1>3, <1>4, <1>5, <1>6 DEF Teams!CreateThreads, Creation
<1> QED BY <1>1, <1>2, <1>3, <1>4, <1>5, <1>6

(* Reports are of threads of the team.                                     *)
LEMMA ReportsBy ==
  ASSUME NEW n \in Nat, NEW sayings, NEW reports \in Reports(n, sayings)
  PROVE  \A i \in DOMAIN reports : reports[i].by \in Team(n)
<1> DEFINE Said == [by : Team(n), says : sayings]
<1>1. \A report \in Said : report.by \in Team(n)
  OBVIOUS
<1>2. reports \in Seq(Said)
  BY DEF Reports
<1> HIDE DEF Said
<1>3. \A i \in DOMAIN reports : reports[i] \in Said
  BY <1>2
<1> QED BY <1>1, <1>3

LEMMA HeardStays ==
  ASSUME Heard, UNCHANGED <<program, output>>
  PROVE  Heard'
BY DEF Heard

(* A thread is created, which was unborn.                                  *)
LEMMA CreatesUnborn ==
  ASSUME NEW first, Creation(first), Lives(TeamSize, TeamPoints, TRUE)
  PROVE  /\ Started /\ main.at = "create" /\ main'.at = "create" /\ main'.count = main.count
         /\ main.next \in Team(TeamSize) /\ at[main.next] = "unborn"
         /\ at' = [at EXCEPT ![main.next] = first] /\ UNCHANGED <<shared, output>>
<1>1. main \in Phases /\ main.at = "create" /\ main.next \in Int /\ 0 <= main.next
      /\ main.next < TeamSize /\ main' = [main EXCEPT !.next = @ + 1]
      /\ at' = [at EXCEPT ![main.next] = first] /\ UNCHANGED <<shared, output>>
  BY NumbersAssumption DEF Creation, Teams!CreateNext, Lives, Phases
<1>2. main'.at = "create" /\ main'.count = main.count
  BY <1>1 DEF Phases
<1>3. main.next \in Team(TeamSize) /\ at[main.next] = "unborn"
  BY <1>1, NumbersAssumption DEF Lives, Team
<1> QED BY <1>1, <1>2, <1>3 DEF Started

(* main allocates what the threads share, or gives up.                     *)
LEMMA TeamAllocates ==
  ASSUME NEW data, Teams!Allocate(data), Lives(TeamSize, TeamPoints, TRUE), Turns
  PROVE  /\ at' = at /\ \A t \in Team(TeamSize) : at[t] = "unborn"
         /\ output = <<>> /\ output' = output
         /\ ~Started' \/ (shared' = data /\ main'.at = "create" /\ main'.count = TeamSize)
         /\ main'.at # "start"
  BY DEF Teams!Allocate, Teams!MainGoes, Teams!MainFails, Lives, Phases, Turns, Started

(* A thread reports something.                                             *)
LEMMA Reported ==
  ASSUME NEW t \in Team(TeamSize), NEW sayings, NEW what \in sayings,
         output \in Reports(TeamSize, sayings), Teams!Report(t, what)
  PROVE  /\ output' \in Reports(TeamSize, sayings) /\ Len(output') = Len(output) + 1
         /\ DOMAIN output' = 1..Len(output) + 1
         /\ output'[Len(output) + 1] = [by |-> t, says |-> what]
         /\ \A i \in 1..Len(output) : output'[i] = output[i]
         /\ Len(output) \in Nat /\ DOMAIN output = 1..Len(output)
<1>1. [by |-> t, says |-> what] \in [by : Team(TeamSize), says : sayings]
  OBVIOUS
<1>2. output' = Append(output, [by |-> t, says |-> what])
  BY DEF Teams!Report
<1> QED BY <1>1, <1>2 DEF Reports

LEMMA HeardInTurn ==
  ASSUME Heard, UNCHANGED program, program \in Teams!Ordered,
         NEW t \in Team(TeamSize), t = Len(output), Teams!Report(t, "hello")
  PROVE  Heard'
<1>1. program \notin Teams!Greeting /\ program \notin {"position_race", "birthday_pinata"}
  BY DEF Teams!Ordered, Teams!Greeting
<1>2. output \in Reports(TeamSize, {"hello"})
      /\ \A i \in DOMAIN output : output[i] = [by |-> i - 1, says |-> "hello"]
  BY DEF Heard
<1>3. /\ output' \in Reports(TeamSize, {"hello"}) /\ DOMAIN output' = 1..t + 1
      /\ output'[t + 1] = [by |-> t, says |-> "hello"] /\ t \in Nat
      /\ \A i \in 1..t : output'[i] = output[i] /\ i \in DOMAIN output
  BY <1>2, Reported
<1>4. ASSUME NEW i \in DOMAIN output'
      PROVE  output'[i] = [by |-> i - 1, says |-> "hello"]
  <2>1. i \in 1..t \/ i = t + 1
    BY <1>3
  <2>2. CASE i = t + 1
    <3>1. i - 1 = t
      BY <1>3, <2>2
    <3> QED BY <1>3, <2>2, <3>1
  <2> QED BY <1>2, <1>3, <2>1, <2>2
<1> QED BY <1>1, <1>3, <1>4 DEF Heard

-----------------------------------------------------------------------------
LEMMA BusywaitMainTurns ==
  ASSUME TeamsInv, UNCHANGED program, program = "hello_order_busywait",
         Teams!BusywaitMain \/ Teams!BusywaitCreateThreads
  PROVE  Heard' /\ Turns'
<1>1. main \in Phases /\ TeamSize \in Nat /\ at \in [Team(TeamSize) -> TeamPoints]
  BY NumbersAssumption DEF TeamsInv, Lives
<1>2. CASE Quiet
  BY <1>2 DEF TeamsInv, Heard, Turns, Quiet, Started, BusywaitTurns
<1>3. CASE Creation("wait")
  <2>1. Started /\ BusywaitTurns
    BY <1>3, CreatesUnborn DEF TeamsInv, Turns
  <2>2. BusywaitTurns'
    <3>1. /\ UNCHANGED <<shared, output>> /\ at[main.next] = "unborn"
          /\ \A t \in Team(TeamSize) : at'[t] = IF t = main.next THEN "wait" ELSE at[t]
      BY <1>1, <1>3, CreatesUnborn DEF TeamsInv
    <3> QED BY <2>1, <3>1 DEF BusywaitTurns
  <2> QED BY <1>3, <2>2, HeardStays, CreatesUnborn DEF TeamsInv, Turns
<1>4. CASE Teams!Allocate([next_thread |-> 0, loaded |-> [t \in Teams!Threads |-> 0]])
  <2>1. /\ at' = at /\ \A t \in Team(TeamSize) : at[t] = "unborn"
        /\ output = <<>> /\ output' = output /\ main'.at # "start"
        /\ ~Started' \/ shared' = [next_thread |-> 0, loaded |-> [t \in Team(TeamSize) |-> 0]]
    BY <1>4, TeamAllocates DEF TeamsInv, Teams!Threads, Team
  <2>2. ASSUME shared' = [next_thread |-> 0, loaded |-> [t \in Team(TeamSize) |-> 0]]
        PROVE  BusywaitTurns'
    BY <1>1, <2>1, <2>2 DEF BusywaitTurns, Team
  <2> QED BY <2>1, <2>2, HeardStays DEF TeamsInv, Turns
<1> QED BY <1>1, <1>2, <1>3, <1>4, QuietSteps DEF Teams!BusywaitMain,
       Teams!BusywaitCreateThreads

LEMMA BusywaitThreadTurns ==
  ASSUME TeamsInv, UNCHANGED program, program = "hello_order_busywait", Teams!Running,
         NEW t \in Teams!Threads, Teams!BusywaitGreet(t)
  PROVE  Heard' /\ Turns'
<1>1. /\ TeamSize \in Nat /\ t \in Team(TeamSize) /\ at \in [Team(TeamSize) -> TeamPoints]
      /\ output \in Reports(TeamSize, {"hello"}) /\ main' = main /\ main \in Phases
  BY NumbersAssumption, TeamsThread
     DEF TeamsInv, Lives, Heard, Teams!Threads, Team, Teams!Ordered, Teams!ThreadStep,
         Teams!BusywaitGreet,
         Teams!Greet, Teams!Goes
<1>2. at[t] \in {"wait", "print", "load", "store"}
  BY DEF Teams!BusywaitGreet, Teams!Greet, Teams!Goes
<1>3. Started /\ main.at # "start"
  BY <1>1, <1>2 DEF TeamsInv, Lives, Teams!Running, Started
<1>4. BusywaitTurns
  BY <1>3 DEF TeamsInv, Turns
<1>5. CASE Teams!Goes(t, "wait", "print") /\ shared.next_thread >= t /\ UNCHANGED <<shared, output>>
  <2>1. BusywaitTurns'
    BY <1>1, <1>4, <1>5 DEF BusywaitTurns, Teams!Goes, Team
  <2> QED BY <1>1, <1>3, <1>5, <2>1, HeardStays DEF TeamsInv, Turns
<1>6. CASE Teams!Greet(t, "print", "load")
  <2>1. BusywaitTurns' /\ t = Len(output)
    <3>1. /\ UNCHANGED shared /\ at[t] = "print" /\ Teams!Report(t, "hello")
          /\ \A u \in Team(TeamSize) : at'[u] = IF u = t THEN "load" ELSE at[u]
      BY <1>1, <1>6 DEF Teams!Greet, Teams!Goes
    <3>2. Len(output') = Len(output) + 1
      BY <1>1, <3>1, Reported
    <3>3. t = shared.next_thread /\ t \in Int /\ t < TeamSize /\ Len(output) = t
      BY <1>1, <1>4, <3>1 DEF BusywaitTurns, Team
    <3> QED BY <1>4, <3>1, <3>2, <3>3 DEF BusywaitTurns
  <2> QED BY <1>1, <1>3, <1>6, <2>1, HeardInTurn DEF TeamsInv, Turns, Teams!Greet,
         Teams!Ordered
<1>7. CASE /\ Teams!Goes(t, "load", "store") /\ UNCHANGED output
           /\ Teams!Field("loaded", [shared.loaded EXCEPT ![t] = shared.next_thread])
  <2>1. BusywaitTurns'
    BY <1>1, <1>4, <1>7 DEF BusywaitTurns, Teams!Goes, Teams!Field, Team
  <2> QED BY <1>1, <1>3, <1>7, <2>1, HeardStays DEF TeamsInv, Turns
<1>8. CASE /\ Teams!Goes(t, "store", "done") /\ UNCHANGED output
           /\ Teams!Field("next_thread", shared.loaded[t] + 1)
  <2>1. BusywaitTurns'
    <3>1. /\ at[t] = "store" /\ shared' = [shared EXCEPT !.next_thread = shared.loaded[t] + 1]
          /\ \A u \in Team(TeamSize) : at'[u] = IF u = t THEN "done" ELSE at[u]
      BY <1>1, <1>8 DEF Teams!Field, Teams!Goes
    <3>2. t = shared.next_thread /\ t \in 0..TeamSize - 1 /\ Len(output) = t + 1 /\ shared.loaded[t] = t
      BY <1>1, <1>4, <3>1 DEF BusywaitTurns, Team
    <3>3. shared' \in [next_thread : 0..TeamSize, loaded : [Team(TeamSize) -> 0..TeamSize]]
          /\ shared'.next_thread = t + 1
      BY <1>1, <1>4, <3>1, <3>2 DEF BusywaitTurns
    <3>4. \A u \in Team(TeamSize) : u > t => at[u] \in {"unborn", "wait"}
      BY <1>4, <3>2 DEF BusywaitTurns
    <3>5. \A u \in Team(TeamSize) : u < t => at[u] = "done"
      BY <1>4, <3>2 DEF BusywaitTurns
    <3>6. \A u \in Team(TeamSize) : u \in Int
      BY DEF Team
    <3>7. ASSUME NEW u \in Team(TeamSize)
          PROVE  /\ u < t + 1 => at'[u] = "done"
                 /\ u >= t + 1 => at'[u] \in {"unborn", "wait"}
      BY <3>1, <3>2, <3>4, <3>5, <3>6
    <3>8. Len(output') = t + 1
      BY <1>8, <3>2
    <3> QED BY <3>2, <3>3, <3>6, <3>7, <3>8 DEF BusywaitTurns
  <2> QED BY <1>1, <1>3, <1>8, <2>1, HeardStays DEF TeamsInv, Turns
<1> QED BY <1>5, <1>6, <1>7, <1>8 DEF Teams!BusywaitGreet

-----------------------------------------------------------------------------
LEMMA SemaphorMainTurns ==
  ASSUME TeamsInv, UNCHANGED program, program \in {"hello_order_semaphor",
         "sem_vs_condsafe"},
         \/ Teams!SemaphorMain \/ Teams!SemaphorCreateThreads
         \/ Teams!SemVsMain \/ Teams!SemVsCreateThreads
  PROVE  Heard' /\ Turns'
<1>1. main \in Phases /\ TeamSize \in Nat /\ at \in [Team(TeamSize) -> TeamPoints]
  BY NumbersAssumption DEF TeamsInv, Lives
<1>2. CASE Quiet
  BY <1>2 DEF TeamsInv, Heard, Turns, Quiet, Started, SemaphorTurns, SemaphorTurn
<1>3. CASE Creation("wait")
  <2>1. Started /\ SemaphorTurns
    BY <1>3, CreatesUnborn DEF TeamsInv, Turns
  <2>2. PICK k \in 0..TeamSize : SemaphorTurn(k)
    BY <2>1 DEF SemaphorTurns
  <2>3. /\ UNCHANGED <<shared, output>> /\ at[main.next] = "unborn"
        /\ \A t \in Team(TeamSize) : at'[t] = IF t = main.next THEN "wait" ELSE at[t]
    BY <1>1, <1>3, CreatesUnborn DEF TeamsInv
  <2>4. SemaphorTurn(k)'
    BY <2>2, <2>3 DEF SemaphorTurn
  <2>5. SemaphorTurns'
    BY <2>1, <2>3, <2>4 DEF SemaphorTurns
  <2>6. main'.at # "start"
    BY <1>3, CreatesUnborn DEF TeamsInv
  <2> QED BY <2>3, <2>5, <2>6, HeardStays DEF TeamsInv, Turns
<1>4. CASE Teams!JoinAndDestroy
  <2>1. /\ main.at = "join" /\ main'.at # "start" /\ UNCHANGED <<at, output>>
        /\ shared' = [shared EXCEPT !.destroyed = shared.destroyed \cup {main.next}]
        /\ main.next \in Int
    BY <1>1, <1>4 DEF Teams!JoinAndDestroy, Teams!JoinNext, Teams!MainGoes, Teams!Field,
       Phases
  <2>2. SemaphorTurns
    BY <2>1 DEF TeamsInv, Turns, Started
  <2>3. /\ shared' \in [can_greet : [Team(TeamSize) -> Int], destroyed : SUBSET Int]
        /\ shared'.can_greet = shared.can_greet
    BY <2>1, <2>2 DEF SemaphorTurns
  <2>4. SemaphorTurns'
    BY <2>1, <2>2, <2>3 DEF SemaphorTurns, SemaphorTurn
  <2> QED BY <2>1, <2>4, HeardStays DEF TeamsInv, Turns
<1>5. CASE Teams!Allocate(Teams!Semaphores)
  <2>1. /\ at' = at /\ \A t \in Team(TeamSize) : at[t] = "unborn"
        /\ output = <<>> /\ output' = output /\ main'.at # "start"
        /\ ~Started' \/ shared' = Teams!Semaphores
    BY <1>5, TeamAllocates DEF TeamsInv
  <2>2. ASSUME shared' = Teams!Semaphores
        PROVE  SemaphorTurns'
    <3>1. shared' = [can_greet |-> [t \in Team(TeamSize) |-> IF t = 0 THEN 1 ELSE 0],
                     destroyed |-> {}]
      BY <2>2 DEF Teams!Semaphores, Teams!Threads, Team
    <3>2. shared' \in [can_greet : [Team(TeamSize) -> Int], destroyed : SUBSET Int]
      BY <3>1
    <3>3. \A t \in Team(TeamSize) : t >= 0 /\ shared'.can_greet[t] = IF t = 0 THEN 1 ELSE 0
      BY <3>1 DEF Team
    <3>4. Len(output') = 0 /\ 0 \in 0..TeamSize
      BY <1>1, <2>1
    <3>5. SemaphorTurn(0)'
      BY <1>1, <2>1, <3>3, <3>4 DEF SemaphorTurn, Team
    <3> QED BY <3>2, <3>4, <3>5 DEF SemaphorTurns
  <2> QED BY <2>1, <2>2, HeardStays DEF TeamsInv, Turns
<1>6. CASE Teams!Passes("start", "undefined")
  <2>1. main.at = "start" /\ main'.at = "undefined" /\ UNCHANGED <<at, output>>
    BY <1>1, <1>6 DEF Teams!Passes, Teams!MainGoes, Phases
  <2> QED BY <2>1, HeardStays DEF TeamsInv, Turns, Started
<1> QED
  BY <1>1, <1>2, <1>3, <1>4, <1>5, <1>6, QuietSteps
     DEF Teams!SemaphorMain, Teams!SemaphorCreateThreads, Teams!SemVsMain,
         Teams!SemVsCreateThreads, Teams!AllocateSemaphores,
         Teams!CreateAndDestroy, Creation

LEMMA SemaphorThreadTurns ==
  ASSUME TeamsInv, UNCHANGED program, program \in {"hello_order_semaphor",
         "sem_vs_condsafe"},
         Teams!Running, NEW t \in Teams!Threads, Teams!SemaphorGreet(t)
  PROVE  Heard' /\ Turns'
<1>1. /\ TeamSize \in Nat /\ t \in Team(TeamSize) /\ at \in [Team(TeamSize) -> TeamPoints]
      /\ output \in Reports(TeamSize, {"hello"}) /\ main' = main /\ main \in Phases
      /\ t \in Int /\ 0 <= t /\ t < TeamSize
  BY NumbersAssumption
     DEF TeamsInv, Lives, Heard, Teams!Threads, Team, Teams!Ordered, Teams!SemaphorGreet,
         Teams!Greet, Teams!Goes
<1>2. at[t] \in {"wait", "print", "post"}
  BY DEF Teams!SemaphorGreet, Teams!Greet, Teams!Goes
<1>3. Started /\ main.at # "start"
  BY <1>1, <1>2 DEF TeamsInv, Lives, Teams!Running, Started
<1>4. SemaphorTurns
  BY <1>3 DEF TeamsInv, Turns
<1>5. PICK k \in 0..TeamSize : SemaphorTurn(k)
  BY <1>4 DEF SemaphorTurns
<1>6. CASE /\ Teams!Goes(t, "wait", "print") /\ shared.can_greet[t] > 0
           /\ Teams!Field("can_greet", [shared.can_greet EXCEPT ![t] = @ - 1])
           /\ UNCHANGED output
  <2>1. /\ at[t] = "wait" /\ \A u \in Team(TeamSize) : at'[u] = IF u = t THEN "print" ELSE at[u]
    BY <1>1, <1>6 DEF Teams!Goes
  <2>2. t = k
    BY <1>1, <1>5, <1>6, <2>1 DEF SemaphorTurn
  <2>3. /\ shared' \in [can_greet : [Team(TeamSize) -> Int], destroyed : SUBSET Int]
        /\ shared'.can_greet = [shared.can_greet EXCEPT ![t] = shared.can_greet[t] - 1]
    BY <1>1, <1>4, <1>6 DEF SemaphorTurns, Teams!Field
  <2>4. \A u \in Team(TeamSize) :
          shared'.can_greet[u] = IF u = t THEN shared.can_greet[t] - 1 ELSE shared.can_greet[u]
    BY <1>1, <1>4, <2>3 DEF SemaphorTurns
  <2>5. SemaphorTurn(k)'
    <3>1. shared.can_greet[t] = 1 /\ Len(output') = k /\ k # TeamSize
      BY <1>1, <1>5, <1>6, <2>1, <2>2 DEF SemaphorTurn
    <3>2. shared'.can_greet[t] = 0 /\ at'[t] = "print"
      BY <1>1, <2>1, <2>4, <3>1
    <3>3. \A u \in Team(TeamSize) \ {t} : /\ at'[u] = at[u]
                                          /\ shared'.can_greet[u] = shared.can_greet[u]
      BY <2>1, <2>4
    <3> QED BY <1>5, <2>2, <3>1, <3>2, <3>3 DEF SemaphorTurn
  <2> QED BY <1>1, <1>3, <1>6, <2>3, <2>5, HeardStays DEF TeamsInv, Turns, SemaphorTurns
<1>7. CASE Teams!Greet(t, "print", "post")
  <2>1. /\ at[t] = "print" /\ \A u \in Team(TeamSize) : at'[u] = IF u = t THEN "post" ELSE at[u]
        /\ UNCHANGED shared /\ Teams!Report(t, "hello")
    BY <1>1, <1>7 DEF Teams!Goes, Teams!Greet
  <2>2. t = k /\ Len(output) = t
    BY <1>1, <1>5, <2>1 DEF SemaphorTurn
  <2>3. Len(output') = Len(output) + 1
    BY <1>1, <2>1, Reported
  <2>4. SemaphorTurn(k)'
    BY <1>1, <1>5, <2>1, <2>2, <2>3 DEF SemaphorTurn
  <2> QED BY <1>1, <1>3, <1>4, <2>1, <2>2, <2>4, HeardInTurn
          DEF TeamsInv, Turns, SemaphorTurns, Teams!Ordered
<1>8. CASE /\ Teams!Goes(t, "post", "done")
           /\ Teams!Field("can_greet", [shared.can_greet EXCEPT ![Teams!NextThread(t)] = @ + 1])
           /\ UNCHANGED output
  <2> DEFINE next == IF t + 1 = TeamSize THEN 0 ELSE t + 1
  <2>1. /\ at[t] = "post" /\ \A u \in Team(TeamSize) : at'[u] = IF u = t THEN "done" ELSE at[u]
    BY <1>1, <1>8 DEF Teams!Goes
  <2>2. t = k /\ Len(output) = k + 1 /\ shared.can_greet[t] = 0
    BY <1>1, <1>5, <2>1 DEF SemaphorTurn
  <2>3. Teams!NextThread(t) = next /\ next \in Team(TeamSize)
    BY <1>1 DEF Teams!NextThread, Team
  <2>4. /\ shared' \in [can_greet : [Team(TeamSize) -> Int], destroyed : SUBSET Int]
        /\ shared'.can_greet = [shared.can_greet EXCEPT ![next] = shared.can_greet[next] + 1]
    BY <1>1, <1>4, <1>8, <2>3 DEF SemaphorTurns, Teams!Field
  <2>5. \A u \in Team(TeamSize) :
          shared'.can_greet[u] = IF u = next THEN shared.can_greet[next] + 1 ELSE shared.can_greet[u]
    BY <1>1, <1>4, <2>3, <2>4 DEF SemaphorTurns
  <2>6. k + 1 \in 0..TeamSize
    BY <1>1, <2>2
  <2>7. \A u \in Team(TeamSize) : shared.can_greet[u] = 0 /\ u \in Int /\ 0 <= u /\ u < TeamSize
    BY <1>1, <1>5, <2>2 DEF SemaphorTurn, Team
  <2>8. ASSUME NEW u \in Team(TeamSize)
        PROVE  /\ u < k + 1 => at'[u] = "done"
               /\ u >= k + 1 => at'[u] \in {"unborn", "wait"}
               /\ shared'.can_greet[u] = IF u = next THEN 1 ELSE 0
               /\ u = k + 1 => u = next
    BY <1>1, <1>5, <2>1, <2>2, <2>3, <2>5, <2>7 DEF SemaphorTurn
  <2>9. SemaphorTurn(k + 1)'
    <3>1. Len(output') = k + 1 /\ k \in Int
      BY <1>8, <2>2
    <3> QED BY <1>1, <2>2, <2>7, <2>8, <3>1 DEF SemaphorTurn
  <2> QED BY <1>1, <1>3, <1>8, <2>4, <2>6, <2>9, HeardStays DEF TeamsInv, Turns,
         SemaphorTurns
<1> QED BY <1>6, <1>7, <1>8 DEF Teams!SemaphorGreet

-----------------------------------------------------------------------------
LEMMA CondSafeMainTurns ==
  ASSUME TeamsInv, UNCHANGED program, program = "hello_order_cond_safe", Teams!Running,
         Teams!CondSafeMain \/ Teams!CondSafeCreateThreads
  PROVE  Heard' /\ Turns'
<1>1. main \in Phases /\ TeamSize \in Nat /\ at \in [Team(TeamSize) -> TeamPoints]
  BY NumbersAssumption DEF TeamsInv, Lives
<1>2. Started => CondSafeTurns
  BY DEF TeamsInv, Turns
<1>3. ASSUME UNCHANGED <<at, shared, output>>, Started, main'.at # "start",
             main'.count = main.count,
             \/ main'.at \in {"free", "freed", "ended", "undefined"}
             \/ main.at \in {"create", "join"} /\ main'.at = "join"
      PROVE  Heard' /\ Turns'
  BY <1>2, <1>3, HeardStays DEF TeamsInv, Turns, Started, CondSafeTurns
<1>4. CASE Teams!CreateNext("greet")
           /\ Teams!Field("greets", [shared.greets EXCEPT ![main.next] = ""])
  <2>1. /\ Started /\ main.at = "create" /\ main'.at = "create" /\ main'.count = main.count
        /\ main.next \in Team(TeamSize) /\ at[main.next] = "unborn" /\ output' = output
        /\ \A t \in Team(TeamSize) : at'[t] = IF t = main.next THEN "greet" ELSE at[t]
    <3>1. main \in Phases /\ main.at = "create" /\ main.next \in 0..TeamSize /\ main.next < TeamSize
          /\ main' = [main EXCEPT !.next = @ + 1]
          /\ at' = [at EXCEPT ![main.next] = "greet"] /\ UNCHANGED output
      BY <1>1, <1>4 DEF Teams!CreateNext, TeamsInv, Lives
    <3>2. main'.at = "create" /\ main'.count = main.count
      BY <3>1 DEF Phases
    <3>3. main.next \in Team(TeamSize) /\ at[main.next] = "unborn"
      BY <1>1, <3>1 DEF TeamsInv, Lives, Team
    <3> QED BY <1>1, <3>1, <3>2, <3>3 DEF Started
  <2>2. /\ shared' \in [greets : [Team(TeamSize) -> {"NULL", "", "hello", "freed"}]]
        /\ \A t \in Team(TeamSize) : t # main.next => shared'.greets[t] = shared.greets[t]
    BY <1>2, <1>4, <2>1 DEF CondSafeTurns, Teams!Field
  <2>3. CondSafeTurns'
    BY <1>2, <2>1, <2>2 DEF CondSafeTurns
  <2> QED BY <2>1, <2>3, HeardStays DEF TeamsInv, Turns
<1>5. CASE Teams!JoinEnds("print")
  <2>1. /\ main.at = "join" /\ main.next = main.count /\ UNCHANGED <<at, shared, output>>
        /\ main'.at = "print" /\ main'.next = 0 /\ main'.count = main.count
    BY <1>1, <1>5 DEF Teams!JoinEnds, Teams!Passes, Teams!MainGoes, Phases
  <2>2. CondSafeTurns
    BY <1>2, <2>1 DEF Started
  <2>3. \A t \in Team(TeamSize) : at[t] = "done"
    BY <2>1, <2>2 DEF TeamsInv, Lives, CondSafeTurns, Team
  <2>4. output = <<>> /\ \A t \in Team(TeamSize) : shared.greets[t] = "hello"
    BY <2>1, <2>2, <2>3 DEF CondSafeTurns
  <2>5. CondSafeTurns'
    BY <1>1, <2>1, <2>2, <2>4 DEF CondSafeTurns, Team
  <2> QED BY <2>1, <2>5, HeardStays DEF TeamsInv, Turns
<1>6. CASE /\ main.at = "print" /\ main.next < TeamSize
           /\ Teams!Report(main.next, shared.greets[main.next])
           /\ Teams!Field("greets", [shared.greets EXCEPT ![main.next] = "freed"])
           /\ main' = [main EXCEPT !.next = @ + 1] /\ UNCHANGED at
  <2>1. CondSafeTurns /\ main.next \in 0..TeamSize
    BY <1>2, <1>6 DEF Started, TeamsInv, Lives
  <2>2. main.next \in Team(TeamSize) /\ shared.greets[main.next] = "hello" /\ Len(output) = main.next
    <3>1. main.next \in main.next..TeamSize - 1 /\ main.next \in Team(TeamSize)
      BY <1>1, <1>6, <2>1 DEF Team
    <3> QED BY <1>6, <2>1, <3>1 DEF CondSafeTurns
  <2>3. output \in Reports(TeamSize, {"hello"})
    BY DEF TeamsInv, Heard, Teams!Ordered
  <2>4. Len(output') = main.next + 1
    BY <1>6, <2>2, <2>3, Reported
  <2>5. main'.at = "print" /\ main'.next = main.next + 1 /\ main'.count = main.count
    BY <1>1, <1>6 DEF Phases
  <2>6. /\ shared' \in [greets : [Team(TeamSize) -> {"NULL", "", "hello", "freed"}]]
        /\ \A t \in Team(TeamSize) : t # main.next => shared'.greets[t] = shared.greets[t]
    BY <1>6, <2>1 DEF CondSafeTurns, Teams!Field
  <2>7. \A t \in main.next + 1..TeamSize - 1 : /\ t \in Team(TeamSize) /\ t # main.next
                                            /\ t \in main.next..TeamSize - 1
    BY <1>1, <2>1 DEF Team
  <2>8. CondSafeTurns'
    BY <1>6, <2>1, <2>4, <2>5, <2>6, <2>7 DEF CondSafeTurns
  <2> QED BY <1>6, <2>2, <2>5, <2>8, HeardInTurn DEF TeamsInv, Turns, Teams!Ordered
<1>7. CASE Teams!Allocate([greets |-> [t \in Teams!Threads |-> "NULL"]])
  <2>1. /\ at' = at /\ \A t \in Team(TeamSize) : at[t] = "unborn"
        /\ output = <<>> /\ output' = output /\ main'.at # "start"
        /\ \/ ~Started'
           \/ /\ shared' = [greets |-> [t \in Team(TeamSize) |-> "NULL"]]
              /\ main'.at = "create" /\ main'.count = TeamSize
    BY <1>7, TeamAllocates DEF TeamsInv, Teams!Threads, Team
  <2>2. ASSUME shared' = [greets |-> [t \in Team(TeamSize) |-> "NULL"]],
               main'.at = "create", main'.count = TeamSize
        PROVE  CondSafeTurns'
    <3>1. shared' \in [greets : [Team(TeamSize) -> {"NULL", "", "hello", "freed"}]]
      BY <2>2
    <3>2. \A t \in Team(TeamSize) : at'[t] = "unborn"
      BY <2>1
    <3> QED BY <2>1, <2>2, <3>1, <3>2 DEF CondSafeTurns
  <2> QED BY <2>1, <2>2, HeardStays DEF TeamsInv, Turns
<1>8. ASSUME NEW from, NEW to, Teams!Passes(from, to),
             <<from, to>> \in {<<"create", "join">>, <<"print", "free">>, <<"free",
             "freed">>,
                              <<"freed", "ended">>}
      PROVE  Heard' /\ Turns'
  BY <1>1, <1>3, <1>8 DEF Teams!Passes, Teams!MainGoes, Phases, Started
<1>9. CASE Teams!CreationFails("join")
  BY <1>1, <1>3, <1>9 DEF Teams!CreationFails, Teams!MainFails, Phases, Started
<1>10. CASE Teams!JoinNext /\ UNCHANGED shared
  BY <1>1, <1>3, <1>10 DEF Teams!JoinNext, Teams!MainGoes, Phases, Started
<1> QED
  BY <1>4, <1>5, <1>6, <1>7, <1>8, <1>9, <1>10
     DEF Teams!CondSafeMain, Teams!CondSafeCreateThreads, Teams!CreationEnds

LEMMA CondSafeThreadTurns ==
  ASSUME TeamsInv, UNCHANGED program, program = "hello_order_cond_safe", Teams!Running,
         NEW t \in Teams!Threads, Teams!CondSafeGreet(t)
  PROVE  Heard' /\ Turns'
<1>1. /\ t \in Team(TeamSize) /\ main' = main /\ at[t] = "greet" /\ output' = output
      /\ \A u \in Team(TeamSize) : at'[u] = IF u = t THEN "done" ELSE at[u]
      /\ shared' = [shared EXCEPT !.greets = [shared.greets EXCEPT ![t] = "hello"]]
  BY DEF TeamsInv, Lives, Teams!CondSafeGreet, Teams!Goes, Teams!Field, Teams!Threads, Team
<1>2. /\ main.at # "start" /\ Started /\ main.at # "print"
  BY <1>1 DEF TeamsInv, Lives, AtRest, Teams!Running, Started
<1>3. CondSafeTurns
  BY <1>2 DEF TeamsInv, Turns
<1>4. /\ shared' \in [greets : [Team(TeamSize) -> {"NULL", "", "hello", "freed"}]]
      /\ shared'.greets = [shared.greets EXCEPT ![t] = "hello"]
  BY <1>1, <1>3 DEF CondSafeTurns
<1>5. \A u \in Team(TeamSize) : shared'.greets[u] = IF u = t THEN "hello" ELSE shared.greets[u]
  BY <1>1, <1>3, <1>4 DEF CondSafeTurns
<1>6. CondSafeTurns'
  <2>1. main.at \in {"create", "join"} =>
          /\ output = <<>>
          /\ \A u \in Team(TeamSize) : /\ at[u] \in {"unborn", "greet", "done"}
                                       /\ at[u] = "done" => shared.greets[u] = "hello"
    BY <1>3 DEF CondSafeTurns
  <2>2. main.count = TeamSize
    BY <1>3 DEF CondSafeTurns
  <2>3. ASSUME main.at \in {"create", "join"}, NEW u \in Team(TeamSize)
        PROVE  /\ at'[u] \in {"unborn", "greet", "done"}
               /\ at'[u] = "done" => shared'.greets[u] = "hello"
    BY <1>1, <1>5, <2>1, <2>3
  <2> QED BY <1>1, <1>2, <1>4, <2>1, <2>2, <2>3 DEF CondSafeTurns
<1> QED BY <1>1, <1>2, <1>6, HeardStays DEF TeamsInv, Turns

-----------------------------------------------------------------------------
LEMMA RaceMainTurns ==
  ASSUME TeamsInv, UNCHANGED program, program = "position_race",
         Teams!RaceMain \/ Teams!RaceCreateThreads
  PROVE  Heard' /\ Turns'
<1>1. main \in Phases /\ TeamSize \in Nat /\ at \in [Team(TeamSize) -> TeamPoints]
  BY NumbersAssumption DEF TeamsInv, Lives
<1>2. CASE Quiet
  BY <1>2 DEF TeamsInv, Heard, Turns, Quiet, Started, RaceTurns
<1>3. CASE Creation("lock")
  <2>1. Started /\ RaceTurns /\ main'.at # "start"
    BY <1>3, CreatesUnborn DEF TeamsInv, Turns
  <2>2. /\ UNCHANGED <<shared, output>> /\ at[main.next] = "unborn"
        /\ \A t \in Team(TeamSize) : at'[t] = IF t = main.next THEN "lock" ELSE at[t]
    BY <1>1, <1>3, CreatesUnborn DEF TeamsInv
  <2>3. RaceTurns'
    BY <2>1, <2>2 DEF RaceTurns
  <2> QED BY <2>1, <2>2, <2>3, HeardStays DEF TeamsInv, Turns
<1>4. CASE Teams!Allocate([position |-> 0, can_access_position |-> TRUE])
  <2>1. /\ at' = at /\ \A t \in Team(TeamSize) : at[t] = "unborn"
        /\ output = <<>> /\ output' = output /\ main'.at # "start"
        /\ ~Started' \/ shared' = [position |-> 0, can_access_position |-> TRUE]
    BY <1>4, TeamAllocates DEF TeamsInv
  <2>2. ASSUME shared' = [position |-> 0, can_access_position |-> TRUE]
        PROVE  RaceTurns'
    <3>1. Len(output') = 0
      BY <2>1
    <3> QED BY <2>1, <2>2, <3>1 DEF RaceTurns
  <2> QED BY <2>1, <2>2, HeardStays DEF TeamsInv, Turns
<1> QED
  <2>1. /\ Teams!Passes("free", "freed") \/ Teams!Passes("freed", "ended") => Quiet
        /\ Teams!CreateThreads("lock") => Creation("lock") \/ Quiet
    BY <1>1, QuietSteps
  <2> QED BY <1>2, <1>3, <1>4, <2>1 DEF Teams!RaceMain, Teams!RaceCreateThreads

LEMMA RaceThreadTurns ==
  ASSUME TeamsInv, UNCHANGED program, program = "position_race", Teams!Running,
         NEW t \in Teams!Threads, Teams!Race(t)
  PROVE  Heard' /\ Turns'
<1>1. /\ t \in Team(TeamSize) /\ at \in [Team(TeamSize) -> TeamPoints] /\ main' = main
      /\ output \in Reports(TeamSize, Nat) /\ Len(output) \in Nat
  <2>1. output \in Reports(TeamSize, Nat)
    BY DEF TeamsInv, Heard
  <2>2. Len(output) \in Nat
    BY <2>1 DEF Reports
  <2> QED BY <2>1, <2>2 DEF TeamsInv, Lives, Teams!Threads, Team, Teams!Race, Teams!Goes
<1>2. at[t] \in {"lock", "increment", "print"}
  BY DEF Teams!Race, Teams!Goes
<1>3. main.at # "start" /\ Started
  BY <1>1, <1>2 DEF TeamsInv, Lives, Teams!Running, Started
<1>4. RaceTurns
  BY <1>3 DEF TeamsInv, Turns
<1>5. CASE /\ Teams!Goes(t, "lock", "increment") /\ shared.can_access_position
           /\ Teams!Field("can_access_position", FALSE) /\ UNCHANGED output
  <2>1. \A u \in Team(TeamSize) : at'[u] = IF u = t THEN "increment" ELSE at[u]
    BY <1>1, <1>5 DEF Teams!Goes
  <2>2. /\ shared' \in [position : Nat, can_access_position : BOOLEAN]
        /\ shared'.position = shared.position /\ ~shared'.can_access_position
    BY <1>4, <1>5 DEF RaceTurns, Teams!Field
  <2>3. RaceTurns'
    BY <1>1, <1>4, <1>5, <2>1, <2>2 DEF RaceTurns
  <2> QED BY <1>1, <1>3, <1>5, <2>3, HeardStays DEF TeamsInv, Turns
<1>6. CASE /\ Teams!Goes(t, "increment", "print") /\ UNCHANGED output
           /\ Teams!Field("position", shared.position + 1)
  <2>1. /\ at[t] = "increment"
        /\ \A u \in Team(TeamSize) : at'[u] = IF u = t THEN "print" ELSE at[u]
    BY <1>1, <1>6 DEF Teams!Goes
  <2>2. /\ shared' \in [position : Nat, can_access_position : BOOLEAN]
        /\ shared'.position = shared.position + 1
        /\ shared'.can_access_position = shared.can_access_position
    BY <1>4, <1>6 DEF RaceTurns, Teams!Field
  <2>3. /\ ~shared.can_access_position /\ shared.position = Len(output)
        /\ \A u \in Team(TeamSize) \ {t} : at[u] \notin {"increment", "print"}
    BY <1>1, <1>4, <2>1 DEF RaceTurns
  <2>4. RaceTurns'
    BY <1>1, <1>6, <2>1, <2>2, <2>3 DEF RaceTurns
  <2> QED BY <1>1, <1>3, <1>6, <2>4, HeardStays DEF TeamsInv, Turns
<1>7. CASE /\ Teams!Goes(t, "print", "done") /\ Teams!Report(t, shared.position)
           /\ Teams!Field("can_access_position", TRUE)
  <2>1. /\ at[t] = "print"
        /\ \A u \in Team(TeamSize) : at'[u] = IF u = t THEN "done" ELSE at[u]
    BY <1>1, <1>7 DEF Teams!Goes
  <2>2. /\ shared' \in [position : Nat, can_access_position : BOOLEAN]
        /\ shared'.position = shared.position /\ shared'.can_access_position
    BY <1>4, <1>7 DEF RaceTurns, Teams!Field
  <2>h. ~shared.can_access_position
    BY <1>1, <1>4, <2>1 DEF RaceTurns
  <2>3. /\ ~shared.can_access_position /\ shared.position = Len(output) + 1
        /\ \A u \in Team(TeamSize) \ {t} : at[u] \notin {"increment", "print"}
    BY <1>1, <1>4, <2>1, <2>h DEF RaceTurns
  <2>4. /\ output' \in Reports(TeamSize, Nat) /\ Len(output') = Len(output) + 1
        /\ DOMAIN output' = 1..Len(output) + 1 /\ DOMAIN output = 1..Len(output)
        /\ output'[Len(output) + 1] = [by |-> t, says |-> shared.position]
        /\ \A i \in 1..Len(output) : output'[i] = output[i]
    <3>1. shared.position \in Nat /\ Teams!Report(t, shared.position)
      BY <1>4, <1>7 DEF RaceTurns
    <3> QED BY <1>1, <3>1, Reported
  <2>5. RaceTurns'
    <3>1. shared'.position = Len(output')
      BY <2>2, <2>3, <2>4
    <3>2. \A u \in Team(TeamSize) : at'[u] \notin {"increment", "print"}
      BY <2>1, <2>3
    <3> QED BY <2>2, <3>1, <3>2 DEF RaceTurns
  <2>6. output'[Len(output) + 1].says = Len(output) + 1
    BY <2>3, <2>4
  <2>7. ASSUME NEW i \in DOMAIN output'
        PROVE  output'[i].says = i
    <3>1. i \in 1..Len(output) \/ i = Len(output) + 1
      BY <1>1, <2>4
    <3>2. \A j \in 1..Len(output) : output[j].says = j
      BY <2>4 DEF TeamsInv, Heard
    <3> QED BY <2>4, <2>6, <3>1, <3>2
  <2>8. Heard'
    BY <2>4, <2>7 DEF Heard, Teams!Greeting, Teams!Ordered
  <2> QED BY <1>1, <1>3, <2>5, <2>8 DEF TeamsInv, Turns
<1> QED BY <1>5, <1>6, <1>7 DEF Teams!Race

-----------------------------------------------------------------------------
(* In the other programs nothing is ordered.                               *)
Unordered == Teams!Greeting \cup {"birthday_pinata"}

LEMMA UnorderedMainTurns ==
  ASSUME TeamsInv, UNCHANGED program, program \in Unordered, Teams!MainStep
  PROVE  Heard' /\ Turns'
<1>1. output' = output
  BY DEF Unordered, Teams!Greeting, Teams!MainStep, Teams!IwPriMain,
     Teams!IwPriCreateThreads,
     Teams!IwShrMain, Teams!IwShrCreateThreads, Teams!HelloWMain, Teams!HelloWCreateThreads,
     Teams!TeamMain, Teams!TeamCreateThreads, Teams!TeamJoinThreads,
     Teams!PinataMain, Teams!PinataCreateThreads, Teams!Allocate, Teams!CreateThreads,
     Teams!CreateNext, Teams!CreationFails, Teams!CreationEnds, Teams!JoinNext,
     Teams!JoinEnds,
     Teams!Passes
<1>2. main'.at # "start"
  <2>1. Moves(TeamSize, TeamPoints, TRUE) /\ main \in Phases
    BY TeamsMain DEF TeamsInv, Lives
  <2> QED BY <2>1 DEF Moves, Creates, Joins, Leaves, Phases
<1> QED BY <1>1, <1>2, HeardStays DEF TeamsInv, Turns, Unordered, Teams!Greeting

LEMMA UnorderedThreadTurns ==
  ASSUME TeamsInv, UNCHANGED program, program \in Unordered, Teams!Running,
         NEW t \in Teams!Threads, Teams!ThreadStep(t)
  PROVE  Heard' /\ Turns'
<1>1. t \in Team(TeamSize) /\ main' = main
  BY TeamsThread DEF TeamsInv, Teams!Threads, Team
<1>2. main.at # "start"
  <2>1. at[t] \in {"greet", "hit"}
    BY DEF Unordered, Teams!Greeting, Teams!ThreadStep, Teams!IwPriGreet, Teams!IwShrGreet,
       Teams!HelloWGreet, Teams!TeamGreet, Teams!Greet, Teams!Hit, Teams!Goes
  <2> QED BY <1>1, <2>1 DEF TeamsInv, Lives
<1>3. CASE program \in Teams!Greeting
  <2>1. Teams!Report(t, "hello")
    BY <1>3 DEF Teams!Greeting, Teams!ThreadStep, Teams!IwPriGreet, Teams!IwShrGreet,
       Teams!HelloWGreet, Teams!TeamGreet, Teams!Greet
  <2>2. output \in Reports(TeamSize, {"hello"})
    BY <1>3 DEF TeamsInv, Heard
  <2>3. output' \in Reports(TeamSize, {"hello"})
    BY <1>1, <2>1, <2>2, Reported
  <2> QED BY <1>1, <1>2, <1>3, <2>3 DEF Heard, Turns, Teams!Greeting, Teams!Ordered
<1>4. CASE program = "birthday_pinata"
  <2>1. \E what \in {"none", "destroyed", "left"} : Teams!Report(t, what)
    BY <1>4 DEF Teams!ThreadStep, Teams!Hit
  <2>2. output \in Reports(TeamSize, {"none", "destroyed", "left"})
    BY <1>4 DEF TeamsInv, Heard
  <2>3. output' \in Reports(TeamSize, {"none", "destroyed", "left"})
    BY <1>1, <2>1, <2>2, Reported
  <2> QED BY <1>1, <1>2, <1>4, <2>3 DEF Heard, Turns, Teams!Greeting, Teams!Ordered
<1> QED BY <1>3, <1>4 DEF Unordered

-----------------------------------------------------------------------------
LEMMA TeamsInitially ==
  Teams!Init => TeamsInv
<1> SUFFICES ASSUME Teams!Init PROVE TeamsInv
  OBVIOUS
<1>1. /\ main = [at |-> "start", next |-> 0, count |-> TeamSize, error |-> FALSE]
      /\ at = [t \in Team(TeamSize) |-> "unborn"] /\ output = <<>>
      /\ program \in Teams!Programs /\ TeamSize \in Nat
  BY NumbersAssumption DEF Teams!Init, Teams!Starts, Teams!Threads, Team
<1>2. Lives(TeamSize, TeamPoints, TRUE)
  BY <1>1 DEF Lives, Phases, Places, TeamPoints, Team
<1>3. Heard
  BY <1>1 DEF Heard, Reports
<1> QED BY <1>1, <1>2, <1>3 DEF TeamsInv, Turns, Started

LEMMA TeamsKeep ==
  ASSUME TeamsInv,
         \/ Teams!Step(Teams!MainStep)
         \/ \E t \in Teams!Threads : Teams!Step(Teams!ThreadStep(t))
  PROVE  TeamsInv'
<1>1. CASE Teams!Step(Teams!MainStep)
  <2>1. Teams!MainStep /\ program' = program /\ Teams!Running
    BY <1>1 DEF Teams!Step
  <2>2. Lives(TeamSize, TeamPoints, TRUE)'
    BY <2>1, NumbersAssumption, TeamsMain, MainLivesOn DEF TeamsInv
  <2>3. Heard' /\ Turns'
    BY <2>1, BusywaitMainTurns, SemaphorMainTurns, CondSafeMainTurns, RaceMainTurns,
       UnorderedMainTurns
       DEF TeamsInv, Teams!MainStep, Teams!Programs, Unordered, Teams!Greeting,
           Teams!Ordered
  <2> QED BY <2>1, <2>2, <2>3 DEF TeamsInv
<1>2. ASSUME NEW t \in Teams!Threads, Teams!Step(Teams!ThreadStep(t))
      PROVE  TeamsInv'
  <2>1. Teams!ThreadStep(t) /\ program' = program /\ Teams!Running
    BY <1>2 DEF Teams!Step
  <2>2. Lives(TeamSize, TeamPoints, TRUE)'
    BY <2>1, NumbersAssumption, TeamsThread, ThreadLivesOn DEF TeamsInv
  <2>3. Heard' /\ Turns'
    BY <2>1, BusywaitThreadTurns, SemaphorThreadTurns, CondSafeThreadTurns, RaceThreadTurns,
       UnorderedThreadTurns
       DEF TeamsInv, Teams!ThreadStep, Teams!Programs, Unordered, Teams!Greeting,
           Teams!Ordered,
           Teams!SemVsGreet
  <2> QED BY <2>1, <2>2, <2>3 DEF TeamsInv
<1> QED BY <1>1, <1>2

LEMMA TeamsPromise ==
  ASSUME TeamsInv
  PROVE  Teams!TypeOK /\ Teams!TurnsRespected /\ Teams!MemoryOutlivesThreads
<1>1. Teams!MemoryOutlivesThreads
  BY DEF TeamsInv, Lives, AtRest, Teams!MemoryOutlivesThreads, Teams!Threads, Team
<1>2. Teams!TurnsRespected
  BY DEF TeamsInv, Heard, Teams!TurnsRespected
<1>3. \A i \in DOMAIN output : output[i].by \in Team(TeamSize)
  <2>1. ASSUME NEW sayings, output \in Reports(TeamSize, sayings)
        PROVE  \A i \in DOMAIN output : output[i].by \in Team(TeamSize)
    BY <2>1, ReportsBy, NumbersAssumption
  <2>2. \/ program \in Teams!Greeting \/ program \in Teams!Ordered
        \/ program = "position_race" \/ program = "birthday_pinata"
    BY DEF TeamsInv, Teams!Programs
  <2>3. \/ output \in Reports(TeamSize, {"hello"}) \/ output \in Reports(TeamSize, Nat)
        \/ output \in Reports(TeamSize, {"none", "destroyed", "left"})
    BY <2>2 DEF TeamsInv, Heard
  <2> QED BY <2>1, <2>3
<1>4. Teams!TypeOK
  <2>1. TeamPoints = {"greet", "wait", "print", "load", "store", "post", "lock",
                      "increment", "hit"} \cup {"unborn", "done"}
    BY DEF TeamPoints
  <2>2. /\ main.at \in Places /\ main.next \in 0..TeamSize /\ main.count \in 0..TeamSize
        /\ main.error \in BOOLEAN /\ at \in [Team(TeamSize) -> TeamPoints]
    BY DEF TeamsInv, Lives, Phases
  <2> QED BY <1>3, <2>1, <2>2 DEF TeamsInv, Places, Teams!TypeOK, Teams!CommonTypes,
         Teams!Threads, Team
<1> QED BY <1>1, <1>2, <1>4

-----------------------------------------------------------------------------
(* Whether every thread of a team is heard once.  A thread has reported    *)
(* when it has come to a place of HasSpoken, and never reports again; in        *)
(* hello_order_cond_safe main does it for all of them.  No thread was left *)
(* out when main goes on without an error.                                 *)
HasSpoken(t) == at[t] \in {"load", "store", "post", "done"}

Everyone ==
  /\ main.at = "create" => \A t \in 0..main.next - 1 : at[t] # "unborn"
  /\ main.at \in {"join", "print", "free", "freed"} /\ main.error = FALSE =>
       \A t \in Team(TeamSize) : at[t] # "unborn"
  /\ main.at = "ended" /\ main.error = FALSE => \A t \in Team(TeamSize) : at[t] = "done"

Once ==
  /\ \A i, j \in DOMAIN output : output[i].by = output[j].by => i = j
  /\ \A t \in Team(TeamSize) : (\E i \in DOMAIN output : output[i].by = t) <=> HasSpoken(t)

HeardOnce ==
  /\ program # "hello_order_cond_safe" => Once
  /\ program = "hello_order_cond_safe" =>
       /\ main.at \in {"free", "freed"} => Len(output) = TeamSize
       /\ main.at = "ended" /\ main.error = FALSE => Len(output) = TeamSize

TeamsHeardInv == TeamsInv /\ Everyone /\ HeardOnce

PrintsNext ==
  /\ main.at = "print" /\ main.next < TeamSize /\ main' = [main EXCEPT !.next = @ + 1]
  /\ UNCHANGED at

GivesUp ==
  /\ main.at = "create" /\ main' = [at |-> "join", next |-> 0, count |-> main.next, error |-> TRUE]
  /\ UNCHANGED <<at, output>>

LEMMA TeamsForms ==
  ASSUME Teams!MainStep
  PROVE  \/ \E data : Teams!Allocate(data)
         \/ Teams!Passes("start", "undefined")
         \/ \E first \in {"greet", "wait", "lock", "hit"} : Teams!CreateNext(first)
         \/ \E to \in {"ended", "join"} : Teams!CreationFails(to)
         \/ GivesUp \/ Teams!CreationEnds \/ Teams!JoinNext
         \/ \E to \in {"free", "freed"} :
              program # "hello_order_cond_safe" /\ Teams!JoinEnds(to)
         \/ Teams!JoinEnds("print")
         \/ Teams!Passes("free", "freed") \/ Teams!Passes("freed", "ended")
         \/ program = "hello_order_cond_safe" /\ PrintsNext
         \/ main.next = TeamSize /\ Teams!Passes("print", "free")
<1>1. \A first \in {"greet", "wait", "lock"} : Teams!CreateThreads(first) =>
        \/ Teams!CreateNext(first) \/ Teams!CreationFails("join") \/ Teams!CreationEnds
        \/ Teams!JoinNext \/ Teams!JoinEnds("free")
  BY DEF Teams!CreateThreads
<1>2. Teams!CreateAndDestroy("wait") =>
        \/ Teams!CreateNext("wait") \/ Teams!CreationFails("join") \/ Teams!CreationEnds
        \/ Teams!JoinNext \/ Teams!JoinEnds("free")
  BY DEF Teams!CreateAndDestroy, Teams!JoinAndDestroy
<1>3. CASE program \in {"hello_iw_pri", "hello_iw_shr"}
  BY <1>1, <1>3 DEF Teams!MainStep, Teams!IwPriMain, Teams!IwPriCreateThreads,
     Teams!IwShrMain, Teams!IwShrCreateThreads
<1>4. CASE program = "hello_w"
  BY <1>4 DEF Teams!MainStep, Teams!HelloWMain, Teams!HelloWCreateThreads
<1>5. CASE program = "create_thread_team"
  BY <1>5 DEF Teams!MainStep, Teams!TeamMain, Teams!TeamCreateThreads,
     Teams!TeamJoinThreads, GivesUp
<1>6. CASE program = "hello_order_busywait"
  BY <1>1, <1>6 DEF Teams!MainStep, Teams!BusywaitMain, Teams!BusywaitCreateThreads
<1>7. CASE program = "hello_order_cond_safe"
  BY <1>7 DEF Teams!MainStep, Teams!CondSafeMain, Teams!CondSafeCreateThreads, PrintsNext
<1>8. CASE program \in {"hello_order_semaphor", "sem_vs_condsafe"}
  BY <1>2, <1>8 DEF Teams!MainStep, Teams!SemaphorMain, Teams!SemaphorCreateThreads,
     Teams!SemVsMain, Teams!SemVsCreateThreads, Teams!AllocateSemaphores
<1>9. CASE program = "position_race"
  BY <1>1, <1>9 DEF Teams!MainStep, Teams!RaceMain, Teams!RaceCreateThreads
<1>10. CASE program = "birthday_pinata"
  BY <1>10 DEF Teams!MainStep, Teams!PinataMain, Teams!PinataCreateThreads
<1> QED BY <1>3, <1>4, <1>5, <1>6, <1>7, <1>8, <1>9, <1>10 DEF Teams!MainStep

LEMMA OnceStays ==
  ASSUME Once, output' = output, \A t \in Team(TeamSize) : HasSpoken(t)' <=> HasSpoken(t)
  PROVE  Once'
BY DEF Once

LEMMA MainHearsOnce ==
  ASSUME TeamsHeardInv, TeamsInv', UNCHANGED program, Teams!MainStep
  PROVE  Everyone' /\ HeardOnce'
<1>1. /\ main \in Phases /\ TeamSize \in Nat /\ at \in [Team(TeamSize) -> TeamPoints]
      /\ main.next \in 0..TeamSize /\ Lives(TeamSize, TeamPoints, TRUE) /\ Turns
      /\ Everyone /\ HeardOnce
  BY NumbersAssumption DEF TeamsHeardInv, TeamsInv, Lives
<1>2. ASSUME NEW from, NEW to, Teams!Passes(from, to)
      PROVE  /\ main.at = from /\ UNCHANGED <<at, output>>
             /\ main' = [at |-> to, next |-> 0, count |-> main.count, error |-> main.error]
  BY <1>1, <1>2 DEF Teams!Passes, Teams!MainGoes, Phases
<1>3. ASSUME at' = at
      PROVE  \A t \in Team(TeamSize) : HasSpoken(t)' <=> HasSpoken(t)
  BY <1>3 DEF HasSpoken
<1>4. CASE \E data : Teams!Allocate(data)
  <2>1. /\ UNCHANGED <<at, output>>
        /\ \/ main' = [at |-> "create", next |-> 0, count |-> main.count, error |-> main.error]
           \/ main' = [at |-> "ended", next |-> 0, count |-> main.count, error |-> TRUE]
    BY <1>1, <1>4 DEF Teams!Allocate, Teams!MainGoes, Teams!MainFails, Phases
  <2> QED BY <1>1, <1>3, <2>1, OnceStays DEF Everyone, HeardOnce
<1>5. CASE \E first \in {"greet", "wait", "lock", "hit"} : Teams!CreateNext(first)
  <2>1. PICK first \in {"greet", "wait", "lock", "hit"} : Teams!CreateNext(first)
    BY <1>5
  <2>2. /\ main' = [at |-> "create", next |-> main.next + 1, count |-> main.count,
                    error |-> main.error]
        /\ main.at = "create" /\ main.next < TeamSize /\ output' = output
        /\ at' = [at EXCEPT ![main.next] = first]
    BY <1>1, <2>1 DEF Teams!CreateNext, Phases
  <2>3. main.next \in Team(TeamSize) /\ at[main.next] = "unborn"
    BY <1>1, <2>2 DEF Lives, Team
  <2>4. \A t \in Team(TeamSize) : at'[t] = IF t = main.next THEN first ELSE at[t]
    BY <1>1, <2>2
  <2>5. \A t \in Team(TeamSize) : HasSpoken(t)' <=> HasSpoken(t)
    BY <2>3, <2>4 DEF HasSpoken
  <2>6. Everyone'
    BY <1>1, <2>2, <2>4 DEF Everyone, Team
  <2> QED BY <1>1, <2>2, <2>5, <2>6, OnceStays DEF HeardOnce
<1>6. CASE GivesUp \/ \E to \in {"ended", "join"} : Teams!CreationFails(to)
  <2>1. CASE GivesUp
    BY <1>1, <1>3, <2>1, OnceStays DEF GivesUp, Everyone, HeardOnce
  <2>2. ASSUME NEW to \in {"ended", "join"}, Teams!CreationFails(to)
        PROVE  /\ UNCHANGED <<at, output>>
               /\ main' = [at |-> to, next |-> 0, count |-> main.count, error |-> TRUE]
    BY <1>1, <2>2 DEF Teams!CreationFails, Teams!MainFails, Phases
  <2>3. ASSUME NEW to \in {"ended", "join"}, Teams!CreationFails(to)
        PROVE  Everyone' /\ HeardOnce'
    BY <1>1, <1>3, <2>2, <2>3, OnceStays DEF Everyone, HeardOnce
  <2> QED BY <1>6, <2>1, <2>3
<1>7. CASE Teams!CreationEnds
  <2>1. /\ main.next = TeamSize /\ main.at = "create" /\ UNCHANGED <<at, output>>
        /\ main' = [at |-> "join", next |-> 0, count |-> main.count, error |-> main.error]
    BY <1>2, <1>7 DEF Teams!CreationEnds
  <2> QED BY <1>1, <1>3, <2>1, OnceStays DEF Everyone, HeardOnce, Team
<1>8. CASE Teams!JoinNext
  <2>1. /\ UNCHANGED <<at, output>> /\ main'.error = main.error /\ main.at = "join"
        /\ main'.at \in {"join", "undefined"}
    BY <1>1, <1>8 DEF Teams!JoinNext, Teams!MainGoes, Phases
  <2> QED BY <1>1, <1>3, <2>1, OnceStays DEF Everyone, HeardOnce
<1>9. CASE \/ Teams!JoinEnds("print")
           \/ \E to \in {"free", "freed"} :
                program # "hello_order_cond_safe" /\ Teams!JoinEnds(to)
  <2>1. /\ UNCHANGED <<at, output>> /\ main'.error = main.error /\ main.at = "join"
        /\ main'.at \in {"print", "free", "freed"}
        /\ program = "hello_order_cond_safe" => main'.at = "print"
    BY <1>2, <1>9 DEF Teams!JoinEnds
  <2> QED BY <1>1, <1>3, <2>1, OnceStays DEF Everyone, HeardOnce
<1>10. CASE Teams!Passes("free", "freed")
  <2>1. /\ UNCHANGED <<at, output>> /\ main'.error = main.error /\ main.at = "free"
        /\ main'.at = "freed"
    BY <1>2, <1>10
  <2> QED BY <1>1, <1>3, <2>1, OnceStays DEF Everyone, HeardOnce
<1>11. CASE Teams!Passes("freed", "ended")
  <2>1. /\ UNCHANGED <<at, output>> /\ main'.error = main.error /\ main.at = "freed"
        /\ main'.at = "ended"
    BY <1>2, <1>11
  <2>2. AtRest(TeamSize)
    BY <1>1, <2>1 DEF Lives
  <2> QED BY <1>1, <1>3, <2>1, <2>2, OnceStays DEF Everyone, HeardOnce, AtRest
<1>12. CASE program = "hello_order_cond_safe" /\ PrintsNext
  <2>1. at' = at /\ main'.error = main.error /\ main.at = "print" /\ main'.at = "print"
    BY <1>1, <1>12 DEF PrintsNext, Phases
  <2> QED BY <1>1, <1>12, <2>1 DEF Everyone, HeardOnce
<1>13. CASE main.next = TeamSize /\ Teams!Passes("print", "free")
  <2>1. /\ UNCHANGED <<at, output>> /\ main'.error = main.error /\ main.at = "print"
        /\ main'.at = "free"
    BY <1>2, <1>13
  <2>2. program = "hello_order_cond_safe" => Len(output) = main.next
    BY <1>1, <2>1 DEF Turns, Started, CondSafeTurns
  <2> QED BY <1>1, <1>3, <1>13, <2>1, <2>2, OnceStays DEF Everyone, HeardOnce
<1>14. CASE Teams!Passes("start", "undefined")
  <2>1. /\ UNCHANGED <<at, output>> /\ main'.error = main.error /\ main.at = "start"
        /\ main'.at = "undefined"
    BY <1>2, <1>14
  <2> QED BY <1>1, <1>3, <2>1, OnceStays DEF Everyone, HeardOnce
<1> QED
  BY <1>4, <1>5, <1>6, <1>7, <1>8, <1>9, <1>10, <1>11, <1>12, <1>13, <1>14, TeamsForms

Silent == {"greet", "wait", "print", "lock", "increment", "hit"}
Spoken == {"load", "store", "post", "done"}

LEMMA ThreadForms ==
  ASSUME NEW t \in Teams!Threads, Teams!ThreadStep(t)
  PROVE  \/ \E from, to \in Silent : Teams!Goes(t, from, to) /\ output' = output
         \/ \E from, to \in Spoken :
              from # "done" /\ Teams!Goes(t, from, to) /\ output' = output
         \/ \E from \in Silent, to \in Spoken :
              Teams!Goes(t, from, to) /\ \E what : Teams!Report(t, what)
         \/ program = "hello_order_cond_safe" /\ Teams!Goes(t, "greet", "done") /\ output' = output
<1>1. CASE program \in {"hello_iw_pri", "hello_iw_shr", "hello_w", "create_thread_team"}
  BY <1>1 DEF Teams!ThreadStep, Teams!IwPriGreet, Teams!IwShrGreet, Teams!HelloWGreet,
     Teams!TeamGreet, Teams!Greet, Silent, Spoken
<1>2. CASE program = "hello_order_busywait"
  BY <1>2 DEF Teams!ThreadStep, Teams!BusywaitGreet, Teams!Greet, Silent, Spoken
<1>3. CASE program \in {"hello_order_semaphor", "sem_vs_condsafe"}
  BY <1>3 DEF Teams!ThreadStep, Teams!SemaphorGreet, Teams!SemVsGreet, Teams!Greet, Silent,
     Spoken
<1>4. CASE program \in {"hello_order_cond_safe", "position_race"}
  BY <1>4 DEF Teams!ThreadStep, Teams!CondSafeGreet, Teams!Race, Silent, Spoken
<1>5. CASE program = "birthday_pinata"
  <2>1. Teams!Goes(t, "hit", "done") /\ \E what : Teams!Report(t, what)
    BY <1>5 DEF Teams!ThreadStep, Teams!Hit
  <2> QED BY <2>1 DEF Silent, Spoken
<1> QED BY <1>1, <1>2, <1>3, <1>4, <1>5 DEF Teams!ThreadStep

LEMMA OutputIsSequence ==
  ASSUME TeamsInv
  PROVE  \E sayings : output \in Reports(TeamSize, sayings)
BY DEF TeamsInv, Teams!Programs, Heard

LEMMA ThreadHeardOnce ==
  ASSUME TeamsHeardInv, UNCHANGED program, Teams!Running, NEW t \in Teams!Threads,
         Teams!ThreadStep(t)
  PROVE  Everyone' /\ HeardOnce'
<1>1. /\ TeamSize \in Nat /\ at \in [Team(TeamSize) -> TeamPoints] /\ t \in Team(TeamSize)
      /\ Everyone /\ HeardOnce /\ main.at # "ended"
  BY NumbersAssumption
     DEF TeamsHeardInv, TeamsInv, Lives, Teams!Threads, Team, Teams!Running
<1>2. ASSUME NEW from \in Silent \cup Spoken, NEW to \in Silent \cup Spoken, Teams!Goes(t, from, to)
      PROVE  /\ at[t] = from /\ main' = main /\ Everyone'
             /\ \A u \in Team(TeamSize) : at'[u] = IF u = t THEN to ELSE at[u]
  <2>1. /\ at[t] = from /\ main' = main
        /\ \A u \in Team(TeamSize) : at'[u] = IF u = t THEN to ELSE at[u]
    BY <1>1, <1>2 DEF Teams!Goes
  <2>2. to # "unborn"
    BY <1>2 DEF Silent, Spoken
  <2>3. main.at = "create" => 0..main.next - 1 \subseteq Team(TeamSize)
    BY <1>1 DEF TeamsHeardInv, TeamsInv, Lives, Phases, Team
  <2>4. Everyone'
    BY <1>1, <2>1, <2>2, <2>3 DEF Everyone
  <2> QED BY <2>1, <2>4
<1>3. Silent \cap Spoken = {} /\ \A u : HasSpoken(u) <=> at[u] \in Spoken
  BY DEF Silent, Spoken, HasSpoken
<1>4. \A u : HasSpoken(u)' <=> at'[u] \in Spoken
  BY DEF Spoken, HasSpoken
<1>5. CASE program = "hello_order_cond_safe"
  <2>1. \E from, to \in Silent \cup Spoken : Teams!Goes(t, from, to)
    BY ThreadForms DEF Silent, Spoken
  <2>2. output' = output
    BY <1>5 DEF Teams!ThreadStep, Teams!CondSafeGreet
  <2> QED BY <1>1, <1>2, <1>5, <2>1, <2>2 DEF HeardOnce
<1>6. CASE /\ program # "hello_order_cond_safe" /\ output' = output
           /\ \E from, to : /\ Teams!Goes(t, from, to)
                            /\ {from, to} \subseteq Silent \/ {from, to} \subseteq Spoken
  <2>1. PICK from, to : /\ Teams!Goes(t, from, to)
                        /\ {from, to} \subseteq Silent \/ {from, to} \subseteq Spoken
    BY <1>6
  <2>2. \A u \in Team(TeamSize) : HasSpoken(u)' <=> HasSpoken(u)
    BY <1>2, <1>3, <1>4, <2>1
  <2> QED BY <1>1, <1>2, <1>6, <2>1, <2>2, OnceStays DEF HeardOnce
<1>7. CASE /\ program # "hello_order_cond_safe"
           /\ \E from \in Silent, to \in Spoken :
                Teams!Goes(t, from, to) /\ \E what : Teams!Report(t, what)
  <2>0. PICK from \in Silent, to \in Spoken :
          Teams!Goes(t, from, to) /\ \E what : Teams!Report(t, what)
    BY <1>7
  <2>1. PICK what : Teams!Goes(t, from, to) /\ Teams!Report(t, what)
    BY <2>0
  <2> DEFINE n == Len(output)
             report == [by |-> t, says |-> what]
  <2>2. /\ n \in Nat /\ DOMAIN output = 1..n /\ DOMAIN output' = 1..n + 1
        /\ output'[n + 1] = report /\ \A i \in 1..n : output'[i] = output[i]
    <3>1. PICK sayings : output \in Reports(TeamSize, sayings)
      BY OutputIsSequence DEF TeamsHeardInv
    <3> DEFINE S == [by : Team(TeamSize), says : sayings]
    <3>2. output \in Seq(S) /\ output' = Append(output, report)
      BY <2>1, <3>1 DEF Reports, Teams!Report
    <3> HIDE DEF S, report
    <3>3. output \in Seq(S \cup {report})
      BY <3>2
    <3> QED BY <3>2, <3>3
  <2>3. report.by = t
    OBVIOUS
  <2> HIDE DEF n, report
  <2>4. /\ \A i, j \in 1..n : output[i].by = output[j].by => i = j
        /\ \A u \in Team(TeamSize) : (\E i \in 1..n : output[i].by = u) <=> HasSpoken(u)
    BY <1>1, <1>7, <2>2 DEF HeardOnce, Once
  <2>5. \A i \in 1..n : output[i].by # t
    BY <1>1, <1>2, <1>3, <2>1, <2>4
  <2>6. \A i, j \in 1..n + 1 : output'[i].by = output'[j].by => i = j
    <3>1. \A i \in 1..n + 1 : i \in 1..n \/ i = n + 1
      BY <2>2
    <3>2. output'[n + 1].by = t
      BY <2>2, <2>3
    <3>3. \A i \in 1..n : output'[i].by # t
      BY <2>2, <2>5
    <3> QED BY <2>2, <2>4, <3>1, <3>2, <3>3
  <2>7. ASSUME NEW u \in Team(TeamSize)
        PROVE  (\E i \in 1..n + 1 : output'[i].by = u) <=> HasSpoken(u)'
    <3>1. \A i : i \in 1..n + 1 <=> i \in 1..n \/ i = n + 1
      BY <2>2
    <3>2. u = t => HasSpoken(u)'
      BY <1>2, <1>4, <2>1
    <3>3. u # t => (HasSpoken(u)' <=> HasSpoken(u))
      BY <1>2, <1>3, <1>4, <2>1
    <3> QED BY <2>2, <2>3, <2>4, <3>1, <3>2, <3>3
  <2>8. Once'
    BY <2>2, <2>6, <2>7 DEF Once
  <2> QED BY <1>2, <1>7, <2>1, <2>8 DEF HeardOnce
<1> QED BY <1>5, <1>6, <1>7, ThreadForms

LEMMA TeamsHeardInitially ==
  Teams!Init => TeamsHeardInv
<1> SUFFICES ASSUME Teams!Init PROVE TeamsHeardInv
  OBVIOUS
<1>1. /\ main = [at |-> "start", next |-> 0, count |-> TeamSize, error |-> FALSE]
      /\ at = [t \in Team(TeamSize) |-> "unborn"] /\ output = <<>>
  BY DEF Teams!Init, Teams!Starts, Teams!Threads, Team
<1> QED BY <1>1, TeamsInitially DEF TeamsHeardInv, Everyone, HeardOnce, Once, HasSpoken

LEMMA TeamsHear ==
  ASSUME TeamsHeardInv,
         \/ Teams!Step(Teams!MainStep)
         \/ \E t \in Teams!Threads : Teams!Step(Teams!ThreadStep(t))
  PROVE  TeamsHeardInv'
<1>1. TeamsInv' /\ Teams!Running /\ UNCHANGED program
  BY TeamsKeep DEF TeamsHeardInv, Teams!Step
<1> QED BY <1>1, MainHearsOnce, ThreadHeardOnce DEF TeamsHeardInv, Teams!Step

LEMMA EveryoneIsHeard ==
  ASSUME TeamsHeardInv
  PROVE  Teams!EveryoneHeard
<1> SUFFICES ASSUME main.at = "ended", main.error = FALSE, NEW t \in Team(TeamSize)
             PROVE  Cardinality(Teams!Reports(t)) = 1
  <2>1. \A S : Teams!Cardinality(S) = Cardinality(S)
    BY DEF Teams!Cardinality, Cardinality
  <2>2. ~main.error => main.error = FALSE
    BY DEF TeamsHeardInv, TeamsInv, Lives, Phases
  <2> QED BY <2>1, <2>2 DEF Teams!EveryoneHeard, Teams!Threads, Team
<1>1. TeamSize \in Nat /\ Everyone /\ HeardOnce /\ at[t] = "done"
  BY NumbersAssumption DEF TeamsHeardInv, Everyone
<1>2. \E i : Teams!Reports(t) = {i}
  <2>1. CASE program # "hello_order_cond_safe"
    <3>1. PICK i \in DOMAIN output : output[i].by = t
      BY <1>1, <2>1 DEF HeardOnce, Once, HasSpoken
    <3>2. Teams!Reports(t) = {i}
      BY <1>1, <2>1, <3>1 DEF HeardOnce, Once, Teams!Reports
    <3> QED BY <3>2
  <2>2. CASE program = "hello_order_cond_safe"
    <3>1. /\ output \in Reports(TeamSize, {"hello"})
          /\ \A i \in DOMAIN output : output[i] = [by |-> i - 1, says |-> "hello"]
      BY <2>2 DEF TeamsHeardInv, TeamsInv, Heard, Teams!Ordered
    <3>2. DOMAIN output = 1..TeamSize
      BY <1>1, <2>2, <3>1 DEF HeardOnce, Reports
    <3>3. \A i \in 1..TeamSize : output[i].by = i - 1
      BY <3>1, <3>2
    <3>4. Teams!Reports(t) = {t + 1}
      BY <1>1, <3>2, <3>3 DEF Teams!Reports, Team
    <3> QED BY <3>4
  <2> QED BY <2>1, <2>2
<1> QED BY <1>2, FS_Singleton

-----------------------------------------------------------------------------
(* The hits of the piñata.  What was taken up to each report is a running  *)
(* total, and with what is left it is what there was.                      *)
HasPinata ==
  program = "birthday_pinata" /\ main.at # "start" /\ (main.error = FALSE \/ main.at # "ended")

Totals == [0..Len(output) -> Nat]
RunsTo(total) ==
  /\ total[0] = 0
  /\ \A i \in 1..Len(output) : total[i] = total[i - 1] + Teams!HitsIn(i)
  /\ total[Len(output)] + shared.hits_available = HitsAvailable

PinataTypes ==
  shared \in [hits_available : 0..HitsAvailable, position : Nat, hits : [Team(TeamSize) -> Nat]]

HitsInv ==
  HasPinata =>
    /\ PinataTypes
    /\ \E total \in Totals : RunsTo(total)
    /\ shared.position = Cardinality(Teams!Hitting)
    /\ Cardinality(Teams!Destroying) =
         IF shared.hits_available = 0 /\ HitsAvailable > 0 THEN 1 ELSE 0

TeamsWholeInv == TeamsHeardInv /\ HitsInv

LEMMA PinataReports ==
  ASSUME TeamsHeardInv, HasPinata
  PROVE  /\ output \in Reports(TeamSize, {"none", "destroyed", "left"})
         /\ Len(output) \in Nat /\ DOMAIN output = 1..Len(output)
         /\ \A i \in 1..Len(output) : /\ output[i].by \in Team(TeamSize)
                                      /\ output[i].says \in {"none", "destroyed", "left"}
         /\ IsFiniteSet(1..Len(output))
         /\ IsFiniteSet(Teams!Hitting) /\ IsFiniteSet(Teams!Destroying)
<1>1. output \in Reports(TeamSize, {"none", "destroyed", "left"})
  BY DEF TeamsHeardInv, TeamsInv, Heard, HasPinata
<1>2. Len(output) \in Nat /\ DOMAIN output = 1..Len(output)
  BY <1>1 DEF Reports
<1>3. \A i \in 1..Len(output) : /\ output[i].by \in Team(TeamSize)
                                /\ output[i].says \in {"none", "destroyed", "left"}
  <2> DEFINE S == [by : Team(TeamSize), says : {"none", "destroyed", "left"}]
  <2>1. \A report \in S : /\ report.by \in Team(TeamSize)
                          /\ report.says \in {"none", "destroyed", "left"}
    OBVIOUS
  <2>2. output \in Seq(S)
    BY <1>1 DEF Reports
  <2> HIDE DEF S
  <2>3. \A i \in 1..Len(output) : output[i] \in S
    BY <1>2, <2>2
  <2> QED BY <2>1, <2>3
<1>4. IsFiniteSet(1..Len(output))
  BY <1>2, FS_Interval
<1>5. Teams!Hitting \subseteq 1..Len(output) /\ Teams!Destroying \subseteq 1..Len(output)
  BY <1>2 DEF Teams!Hitting, Teams!Destroying
<1>6. IsFiniteSet(Teams!Hitting) /\ IsFiniteSet(Teams!Destroying)
  BY <1>4, <1>5, FS_Subset
<1> QED BY <1>1, <1>2, <1>3, <1>4, <1>6

(* main hangs the piñata, and gives each thread its hits as it creates it. *)
LEMMA PinataHangs ==
  ASSUME TeamsHeardInv, Teams!PinataMain, main.at = "start", HasPinata'
  PROVE  HitsInv'
<1>1. main \in Phases /\ output = <<>> /\ HitsAvailable \in Nat
  BY NumbersAssumption DEF TeamsHeardInv, TeamsInv, Lives, Turns
<1>2. Teams!Allocate([hits_available |-> HitsAvailable, position |-> 0,
                      hits |-> [t \in Teams!Threads |-> 0]])
  BY DEF Teams!PinataMain, Teams!Passes, Teams!MainGoes
<1>3. output' = <<>>
  BY <1>1, <1>2 DEF Teams!Allocate
<1>4. ~Teams!MainFails("start", "ended")
  BY <1>1 DEF Teams!MainFails, HasPinata, Phases
<1>5. shared' = [hits_available |-> HitsAvailable, position |-> 0,
                 hits |-> [t \in Teams!Threads |-> 0]]
  BY <1>2, <1>4 DEF Teams!Allocate
<1>6. PinataTypes'
  BY <1>1, <1>5 DEF PinataTypes, Teams!Threads, Team
<1>7. Teams!Hitting' = {} /\ Teams!Destroying' = {}
  BY <1>3 DEF Teams!Hitting, Teams!Destroying
<1>8. Len(output') = 0 /\ shared'.hits_available = HitsAvailable /\ shared'.position = 0
  BY <1>3, <1>5
<1>9. \E total \in Totals' : RunsTo(total)'
  <2> DEFINE total == [i \in 0..0 |-> 0]
  <2>1. total \in Totals' /\ total[0] = 0
    BY <1>8 DEF Totals
  <2>2. RunsTo(total)'
    BY <1>1, <1>8, <2>1 DEF RunsTo
  <2> QED BY <2>1, <2>2
<1> QED BY <1>1, <1>6, <1>7, <1>8, <1>9, FS_EmptySet DEF HitsInv

LEMMA HitsStay ==
  ASSUME HitsInv, HasPinata' => HasPinata, output' = output, PinataTypes => PinataTypes',
         shared'.hits_available = shared.hits_available, shared'.position = shared.position,
         \A i \in DOMAIN output : shared'.hits[output[i].by] = shared.hits[output[i].by]
  PROVE  HitsInv'
<1> SUFFICES ASSUME HasPinata, PinataTypes
             PROVE  /\ \A i : Teams!HitsIn(i)' = Teams!HitsIn(i)
                    /\ Teams!Hitting' = Teams!Hitting /\ Teams!Destroying' = Teams!Destroying
  <2>1. \A total : RunsTo(total)' <=>
          /\ total[0] = 0
          /\ \A i \in 1..Len(output) : total[i] = total[i - 1] + Teams!HitsIn(i)'
          /\ total[Len(output)] + shared.hits_available = HitsAvailable
    BY DEF RunsTo
  <2> QED BY <2>1 DEF HitsInv, RunsTo, Totals
<1>1. Teams!Hitting' = Teams!Hitting /\ Teams!Destroying' = Teams!Destroying
  BY DEF Teams!Hitting, Teams!Destroying
<1>2. \A i \in Teams!Hitting : i \in DOMAIN output
  BY DEF Teams!Hitting
<1> QED BY <1>1, <1>2 DEF Teams!HitsIn

LEMMA PinataMainKeeps ==
  ASSUME TeamsHeardInv, HitsInv, UNCHANGED program, Teams!Running, Teams!MainStep, HasPinata'
  PROVE  HitsInv'
<1>1. program = "birthday_pinata" /\ (Teams!PinataMain \/ Teams!PinataCreateThreads)
  BY DEF HasPinata, Teams!MainStep
<1>2. /\ main \in Phases /\ at \in [Team(TeamSize) -> TeamPoints]
      /\ Lives(TeamSize, TeamPoints, TRUE) /\ TeamSize \in Nat
  BY NumbersAssumption DEF TeamsHeardInv, TeamsInv, Lives
<1>3. main.at # "start" => HasPinata
  BY <1>1 DEF HasPinata, Teams!Running
<1>4. CASE main.at = "start"
  BY <1>1, <1>4, PinataHangs DEF Teams!PinataCreateThreads, Teams!CreateNext,
     Teams!CreationFails, Teams!CreationEnds, Teams!JoinNext, Teams!JoinEnds,
     Teams!Passes, Teams!MainFails, Teams!MainGoes
<1>5. CASE main.at # "start" /\ UNCHANGED <<shared, output>>
  BY <1>3, <1>5, HitsStay DEF PinataTypes
<1>6. CASE \E h \in HitsOfThread :
             /\ Teams!CreateNext("hit")
             /\ Teams!Field("hits", [shared.hits EXCEPT
                                       ![main.next] = Teams!AtMost(h, shared.hits_available)])
  <2>1. PICK h \in HitsOfThread :
          /\ Teams!CreateNext("hit")
          /\ Teams!Field("hits", [shared.hits EXCEPT
                                    ![main.next] = Teams!AtMost(h, shared.hits_available)])
    BY <1>6
  <2>2. main.at = "create" /\ main.next < TeamSize /\ output' = output
    BY <2>1 DEF Teams!CreateNext
  <2>3. HasPinata /\ PinataTypes
    BY <1>3, <2>2 DEF HitsInv
  <2>4. main.next \in Team(TeamSize) /\ at[main.next] = "unborn"
    BY <1>2, <2>2 DEF Lives, Team
  <2>5. \A i \in DOMAIN output : output[i].by # main.next
    BY <1>1, <2>4 DEF TeamsHeardInv, HeardOnce, Once, HasSpoken
  <2>6. \A i \in DOMAIN output : output[i].by \in Team(TeamSize)
    BY <2>3, PinataReports
  <2> DEFINE share == Teams!AtMost(h, shared.hits_available)
  <2>7. share \in Nat
    BY <2>1, <2>3, NumbersAssumption DEF Teams!AtMost, PinataTypes
  <2> HIDE DEF share
  <2>8. shared' = [shared EXCEPT !["hits"] = [shared.hits EXCEPT ![main.next] = share]]
    BY <2>1 DEF Teams!Field, share
  <2>9. /\ shared'.hits_available = shared.hits_available /\ shared'.position = shared.position
        /\ shared'.hits = [shared.hits EXCEPT ![main.next] = share]
        /\ PinataTypes'
    BY <2>3, <2>7, <2>8 DEF PinataTypes
  <2>10. \A i \in DOMAIN output : shared'.hits[output[i].by] = shared.hits[output[i].by]
    BY <2>3, <2>5, <2>6, <2>9 DEF PinataTypes
  <2> QED BY <2>2, <2>3, <2>9, <2>10, HitsStay
<1> QED BY <1>1, <1>4, <1>5, <1>6 DEF Teams!PinataMain, Teams!PinataCreateThreads,
     Teams!Allocate, Teams!MainGoes, Teams!MainFails, Teams!CreationFails,
     Teams!CreationEnds, Teams!JoinNext, Teams!JoinEnds, Teams!Passes

(* A thread reports, and the running total goes on with what it took.      *)
LEMMA TotalGoesOn ==
  ASSUME NEW n \in Nat, NEW took \in Nat, NEW left \in Nat, Len(output) = n,
         NEW total \in Totals, RunsTo(total),
         Len(output') = n + 1, \A i \in 1..n : Teams!HitsIn(i)' = Teams!HitsIn(i),
         Teams!HitsIn(n + 1)' = took,
         shared.hits_available \in Nat,
         shared'.hits_available = left, shared.hits_available = left + took
  PROVE  \E more \in Totals' : RunsTo(more)'
<1> DEFINE more == [i \in 0..n + 1 |-> IF i = n + 1 THEN total[n] + took ELSE total[i]]
<1>1. total \in [0..n -> Nat] /\ n \in 0..n
  BY DEF Totals
<1>2. more \in Totals'
  BY <1>1 DEF Totals
<1>3. more[0] = 0
  BY DEF RunsTo
<1>4. \A i \in 1..n + 1 : more[i] = more[i - 1] + Teams!HitsIn(i)'
  <2> SUFFICES ASSUME NEW i \in 1..n + 1 PROVE more[i] = more[i - 1] + Teams!HitsIn(i)'
    OBVIOUS
  <2>1. CASE i = n + 1
    <3>1. more[i] = total[n] + took /\ more[n] = total[n] /\ i - 1 = n
      BY <2>1
    <3> HIDE DEF more
    <3> QED BY <2>1, <3>1
  <2>2. CASE i # n + 1
    <3>1. i \in 1..n /\ i - 1 \in 0..n /\ more[i] = total[i] /\ more[i - 1] = total[i - 1]
      BY <2>2
    <3>2. total[i] = total[i - 1] + Teams!HitsIn(i)
      BY <3>1 DEF RunsTo
    <3> HIDE DEF more
    <3> QED BY <3>1, <3>2
  <2> QED BY <2>1, <2>2
<1>5. more[n + 1] + left = HitsAvailable
  <2>1. total[n] + shared.hits_available = HitsAvailable /\ total[n] \in Nat
    BY <1>1 DEF RunsTo
  <2>2. more[n + 1] = total[n] + took
    OBVIOUS
  <2> HIDE DEF more
  <2> QED BY <2>1, <2>2
<1>6. RunsTo(more)'
  <2> HIDE DEF more
  <2> QED BY <1>3, <1>4, <1>5 DEF RunsTo
<1> QED BY <1>2, <1>6

LEMMA PinataThreadKeeps ==
  ASSUME TeamsHeardInv, HitsInv, UNCHANGED program, Teams!Running,
         NEW t \in Teams!Threads, Teams!ThreadStep(t), HasPinata'
  PROVE  HitsInv'
<1>1. program = "birthday_pinata" /\ Teams!Hit(t)
  BY DEF HasPinata, Teams!ThreadStep
<1>2. t \in Team(TeamSize) /\ at[t] = "hit" /\ main' = main
  BY <1>1 DEF Teams!Hit, Teams!Goes, Teams!Threads, Team
<1>3. HasPinata
  BY <1>1, <1>2 DEF HasPinata
<1>4. /\ PinataTypes /\ \E total \in Totals : RunsTo(total)
      /\ shared.position = Cardinality(Teams!Hitting)
      /\ Cardinality(Teams!Destroying) =
           IF shared.hits_available = 0 /\ HitsAvailable > 0 THEN 1 ELSE 0
  BY <1>3 DEF HitsInv
<1>n. PICK n \in Nat : n = Len(output)
  BY <1>3, PinataReports
<1> DEFINE available == shared.hits_available
           hits == Teams!AtMost(shared.hits[t], available)
           says == IF available = 0 THEN "none"
                   ELSE IF available = hits THEN "destroyed" ELSE "left"
<1>5. available \in 0..HitsAvailable /\ HitsAvailable \in Nat /\ shared.hits[t] \in Nat
  BY <1>2, <1>4, NumbersAssumption DEF PinataTypes
<1>6. hits \in 0..available
  BY <1>5 DEF Teams!AtMost
<1>7. Teams!Report(t, says)
  BY <1>1 DEF Teams!Hit
<1>8. says \in {"none", "destroyed", "left"}
  OBVIOUS
<1>9. /\ n \in Nat /\ DOMAIN output = 1..n /\ DOMAIN output' = 1..n + 1 /\ Len(output') = n + 1
      /\ output'[n + 1].by = t /\ output'[n + 1].says = says
      /\ \A i \in 1..n : output'[i] = output[i]
  <2> HIDE DEF says
  <2>1. output \in Reports(TeamSize, {"none", "destroyed", "left"})
    BY <1>3, PinataReports
  <2>2. /\ Len(output') = Len(output) + 1 /\ DOMAIN output' = 1..Len(output) + 1
        /\ output'[Len(output) + 1] = [by |-> t, says |-> says]
        /\ \A i \in 1..Len(output) : output'[i] = output[i]
        /\ DOMAIN output = 1..Len(output)
    BY <1>2, <1>7, <1>8, <2>1, Reported
  <2> QED BY <1>n, <2>2
<1>10. \A i \in 1..n : output[i].by \in Team(TeamSize) \ {t}
  BY <1>1, <1>2, <1>3, <1>9, PinataReports DEF TeamsHeardInv, HeardOnce, Once, HasSpoken
<1>11. IsFiniteSet(Teams!Hitting) /\ IsFiniteSet(Teams!Destroying)
  BY <1>3, PinataReports
<1>12. n + 1 \notin 1..n /\ \A i \in 1..n + 1 : i \in 1..n \/ i = n + 1
  BY <1>9
<1>13. Teams!Hitting' = IF says = "none" THEN Teams!Hitting ELSE Teams!Hitting \cup {n + 1}
  BY <1>9, <1>12 DEF Teams!Hitting
<1>14. Teams!Destroying' = IF says = "destroyed" THEN Teams!Destroying \cup {n + 1}
                           ELSE Teams!Destroying
  BY <1>9, <1>12 DEF Teams!Destroying
<1>15. n + 1 \notin Teams!Hitting /\ n + 1 \notin Teams!Destroying
  BY <1>9, <1>12 DEF Teams!Hitting, Teams!Destroying
<1>16. /\ Cardinality(Teams!Hitting \cup {n + 1}) = Cardinality(Teams!Hitting) + 1
       /\ Cardinality(Teams!Destroying \cup {n + 1}) = Cardinality(Teams!Destroying) + 1
  BY <1>11, <1>15, FS_AddElement
<1>17. PICK total \in Totals : RunsTo(total)
  BY <1>4
<1>18. \A i \in 1..n : i \in Teams!Hitting' <=> i \in Teams!Hitting
  BY <1>12, <1>13
<1>19. CASE available = 0
  <2>1. says = "none" /\ shared' = shared
    BY <1>1, <1>19 DEF Teams!Hit
  <2>2. \A i \in 1..n : Teams!HitsIn(i)' = Teams!HitsIn(i)
    BY <1>9, <1>18, <2>1 DEF Teams!HitsIn
  <2>3. Teams!HitsIn(n + 1)' = 0
    BY <1>13, <1>15, <2>1 DEF Teams!HitsIn
  <2>4. \E more \in Totals' : RunsTo(more)'
    <3> HIDE DEF hits, says
    <3> QED BY <1>5, <1>9, <1>17, <1>19, <2>1, <2>2, <2>3, TotalGoesOn
  <2>5. PinataTypes'
    BY <1>4, <2>1 DEF PinataTypes
  <2> HIDE DEF says, hits
  <2> QED BY <1>4, <1>13, <1>14, <2>1, <2>4, <2>5 DEF HitsInv
<1>20. CASE available # 0
  <2>1. /\ shared' = [shared EXCEPT !.hits_available = @ - hits, !.hits[t] = hits,
                                    !.position = @ + 1]
        /\ says = IF available = hits THEN "destroyed" ELSE "left"
    BY <1>1, <1>20 DEF Teams!Hit
  <2>2. says # "none" /\ (says = "destroyed" <=> available = hits)
    BY <2>1
  <2> HIDE DEF says, hits
  <2>3. /\ shared'.hits_available = available - hits
        /\ shared'.hits = [shared.hits EXCEPT ![t] = hits]
        /\ shared'.position = shared.position + 1
    BY <1>4, <2>1 DEF PinataTypes
  <2>4. PinataTypes'
    <3>1. /\ shared = [hits_available |-> available, position |-> shared.position,
                       hits |-> shared.hits]
          /\ shared.position \in Nat /\ shared.hits \in [Team(TeamSize) -> Nat]
      BY <1>4 DEF PinataTypes
    <3>2. /\ available - hits \in 0..HitsAvailable /\ hits \in Nat
          /\ shared.position + 1 \in Nat
      BY <1>5, <1>6, <3>1
    <3>3. [shared.hits EXCEPT ![t] = hits] \in [Team(TeamSize) -> Nat]
      BY <3>1, <3>2
    <3>4. shared' = [hits_available |-> available - hits, position |-> shared.position + 1,
                     hits |-> [shared.hits EXCEPT ![t] = hits]]
      BY <2>1, <3>1
    <3> QED BY <3>2, <3>3, <3>4 DEF PinataTypes
  <2>5. \A i \in 1..n : Teams!HitsIn(i)' = Teams!HitsIn(i)
    <3>1. \A i \in 1..n : shared'.hits[output[i].by] = shared.hits[output[i].by]
      BY <1>4, <1>10, <2>3 DEF PinataTypes
    <3> QED BY <1>9, <1>18, <3>1 DEF Teams!HitsIn
  <2>6. Teams!HitsIn(n + 1)' = hits
    <3>1. n + 1 \in Teams!Hitting'
      BY <1>13, <2>2
    <3>2. shared'.hits[t] = hits
      BY <1>2, <1>4, <2>3 DEF PinataTypes
    <3> QED BY <1>9, <3>1, <3>2 DEF Teams!HitsIn
  <2>7. available - hits \in Nat /\ hits \in Nat /\ available = (available - hits) + hits
    BY <1>5, <1>6
  <2>8. \E more \in Totals' : RunsTo(more)'
    BY <1>5, <1>9, <1>17, <2>3, <2>5, <2>6, <2>7, TotalGoesOn
  <2>9. shared'.position = Cardinality(Teams!Hitting')
    BY <1>4, <1>13, <1>16, <2>2, <2>3
  <2>10. Cardinality(Teams!Destroying) = 0
    BY <1>4, <1>20
  <2>11. Cardinality(Teams!Destroying') =
           IF available - hits = 0 /\ HitsAvailable > 0 THEN 1 ELSE 0
    <3>1. HitsAvailable > 0 /\ (available - hits = 0 <=> available = hits)
      BY <1>5, <1>6, <1>20
    <3>2. CASE available = hits
      BY <1>14, <1>16, <2>2, <2>10, <3>1, <3>2
    <3>3. CASE available # hits
      BY <1>14, <2>2, <2>10, <3>1, <3>3
    <3> QED BY <3>2, <3>3
  <2> QED BY <2>3, <2>4, <2>8, <2>9, <2>11 DEF HitsInv
<1> QED BY <1>19, <1>20

LEMMA TeamsStayWhole ==
  ASSUME TeamsWholeInv,
         \/ Teams!Step(Teams!MainStep)
         \/ \E t \in Teams!Threads : Teams!Step(Teams!ThreadStep(t))
  PROVE  TeamsWholeInv'
<1>1. TeamsHeardInv' /\ Teams!Running /\ UNCHANGED program
  BY TeamsHear DEF TeamsWholeInv, Teams!Step
<1>2. HasPinata' => HitsInv'
  BY <1>1, PinataMainKeeps, PinataThreadKeeps DEF TeamsWholeInv, Teams!Step
<1> QED BY <1>1, <1>2 DEF TeamsWholeInv, HitsInv

LEMMA TeamsWholeInitially ==
  Teams!Init => TeamsWholeInv
BY TeamsHeardInitially DEF TeamsWholeInv, HitsInv, HasPinata, Teams!Init, Teams!Starts

(* Induction on the natural numbers for a given set of numbers.            *)
LEMMA Induction ==
  ASSUME NEW S, 0 \in S, \A n \in Nat : n \in S => n + 1 \in S
  PROVE  Nat \subseteq S
<1> DEFINE Less == OpToRel(<, Nat)
           Rest == Nat \ S
<1> SUFFICES ASSUME Rest # {} PROVE FALSE
  OBVIOUS
<1>1. PICK x \in Rest : \A y \in Rest : <<y, x>> \notin Less
  BY NatLessThanWellFounded, WFMin
<1>2. x \in Nat /\ x \notin S /\ x # 0
  BY <1>1
<1>3. x - 1 \in Nat /\ x - 1 + 1 = x /\ x - 1 < x
  BY <1>2
<1>4. x - 1 \in Rest
  BY <1>2, <1>3
<1>5. <<x - 1, x>> \in Less
  BY <1>2, <1>3 DEF OpToRel
<1> QED BY <1>1, <1>4, <1>5

(* The running total is the one that HitsUntil computes.                   *)
LEMMA RunningTotal ==
  ASSUME NEW n \in Nat, Len(output) = n, NEW total \in Totals, RunsTo(total)
  PROVE  Teams!HitsUntil[n] = total[n]
<1> DEFINE Following(f, i) == IF i = 0 THEN 0 ELSE f[i - 1] + Teams!HitsIn(i)
           until == Teams!HitsUntil
           S == {i \in Nat : i \in 0..n => until[i] = total[i]}
<1>1. total \in [0..n -> Nat]
  BY DEF Totals
<1>2. \A i \in 0..n : total[i] = Following(total, i)
  <2> SUFFICES ASSUME NEW i \in 0..n PROVE total[i] = Following(total, i)
    OBVIOUS
  <2>1. i # 0 => i \in 1..n
    OBVIOUS
  <2> QED BY <2>1 DEF RunsTo
<1>3. total = [i \in 0..n |-> Following(total, i)]
  BY <1>1, <1>2
<1>4. until = CHOOSE f : f = [i \in 0..n |-> Following(f, i)]
  BY DEF Teams!HitsUntil
<1>5. until = [i \in 0..n |-> Following(until, i)]
  <2> HIDE DEF until, Following
  <2> QED BY <1>3, <1>4
<1>6. \A i \in 0..n : until[i] = Following(until, i)
  <2> HIDE DEF until, Following
  <2> QED BY <1>5
<1>7. 0 \in S
  <2>1. until[0] = 0 /\ total[0] = 0
    <3> HIDE DEF until
    <3> QED BY <1>2, <1>6
  <2> QED BY <2>1
<1>8. ASSUME NEW i \in Nat, i \in S PROVE i + 1 \in S
  <2> SUFFICES ASSUME i + 1 \in 0..n PROVE until[i + 1] = total[i + 1]
    OBVIOUS
  <2>1. i \in 0..n /\ i + 1 # 0 /\ (i + 1) - 1 = i
    OBVIOUS
  <2>2. until[i] = total[i]
    BY <1>8, <2>1
  <2>3. until[i + 1] = until[i] + Teams!HitsIn(i + 1)
    <3> HIDE DEF until, S
    <3> QED BY <1>6, <2>1
  <2>4. total[i + 1] = total[i] + Teams!HitsIn(i + 1)
    <3> HIDE DEF until, S
    <3> QED BY <1>2, <2>1
  <2> QED BY <2>2, <2>3, <2>4
<1>9. n \in S
  <2> HIDE DEF S
  <2> QED BY <1>7, <1>8, Induction
<1> QED BY <1>9

LEMMA PinataIsWhole ==
  ASSUME TeamsWholeInv
  PROVE  Teams!HitsAddUp
<1> SUFFICES ASSUME HasPinata
             PROVE  /\ shared.hits_available \in 0..HitsAvailable
                    /\ Teams!HitsUntil[Len(output)] + shared.hits_available = HitsAvailable
                    /\ shared.position = Cardinality(Teams!Hitting)
                    /\ Cardinality(Teams!Destroying) =
                         IF shared.hits_available = 0 /\ HitsAvailable > 0 THEN 1 ELSE 0
  <2>1. \A S : Teams!Cardinality(S) = Cardinality(S)
    BY DEF Teams!Cardinality, Cardinality
  <2>2. ~main.error => main.error = FALSE
    BY DEF TeamsWholeInv, TeamsHeardInv, TeamsInv, Lives, Phases
  <2> QED BY <2>1, <2>2 DEF Teams!HitsAddUp, HasPinata
<1>1. HitsInv /\ TeamsHeardInv
  BY DEF TeamsWholeInv
<1>2. PICK total \in Totals : RunsTo(total)
  BY <1>1 DEF HitsInv
<1>3. Teams!HitsUntil[Len(output)] = total[Len(output)]
  BY <1>1, <1>2, PinataReports, RunningTotal
<1> QED BY <1>1, <1>2, <1>3 DEF HitsInv, PinataTypes, RunsTo

-----------------------------------------------------------------------------
(* Water: the atoms that have been counted, and those that have bonded, in *)
(* terms of the number of molecules there are units for.                   *)
WaterPoints == {"lock", "condition", "semaphore", "unborn", "done"}
CountedPoints == {"condition", "semaphore", "done"}

AtomsAt(kind, places) == {t \in Team(Atoms) : shared.kind[t] = kind /\ at[t] \in places}
HydrogensCounted == AtomsAt("hydrogen", CountedPoints)
OxygensCounted == AtomsAt("oxygen", CountedPoints)
HydrogensBonded == AtomsAt("hydrogen", {"done"})
OxygensBonded == AtomsAt("oxygen", {"done"})

WaterTypes ==
  /\ shared \in [hydrogen_sem : Nat, oxygen_sem : Nat, hydrogen_count : Nat, oxygen_count : Nat,
                 kind : [Team(Atoms) -> Water!Kinds]]
  /\ output = <<>>

Molecules(m) ==
  /\ Cardinality(HydrogensCounted) = 2 * m + shared.hydrogen_count
  /\ Cardinality(OxygensCounted) = m + shared.oxygen_count
  /\ shared.hydrogen_count < 2 \/ shared.oxygen_count = 0
  /\ Cardinality(HydrogensBonded) + shared.hydrogen_sem = 2 * m
  /\ Cardinality(OxygensBonded) + shared.oxygen_sem = m

WaterInv ==
  /\ program \in Water!Programs /\ Lives(Atoms, WaterPoints, TRUE)
  /\ WaterTypes /\ \E m \in Nat : Molecules(m)

LEMMA WaterMain ==
  ASSUME Lives(Atoms, WaterPoints, TRUE), Water!MainStep
  PROVE  Moves(Atoms, WaterPoints, TRUE)
<1>n. Atoms \in Nat /\ main \in Phases
  BY NumbersAssumption DEF Lives
<1>1. ASSUME NEW from, NEW to, MayGo(from, to), Water!Passes(from, to)
      PROVE  Moves(Atoms, WaterPoints, TRUE)
  BY <1>1, <1>n, MainGoesOn DEF Water!Passes, Water!MainGoes, GoesTo
<1>2. CASE Water!InitSemaphores
  BY <1>1, <1>2 DEF Water!InitSemaphores, MayGo
<1>3. CASE Water!ReadAtom
  BY <1>3 DEF Water!ReadAtom, Water!CreateNext, WaterPoints, Moves, Creates
<1>4. CASE Water!ReadExit
  <2>1. /\ main.at = "create" /\ main' = [at |-> "join", next |-> 0, count |-> main.next, error |-> main.error]
        /\ at' = at /\ main.next \in 0..Atoms
    BY <1>4, <1>n DEF Water!ReadExit, Phases, Lives
  <2>2. /\ main' \in Phases /\ main'.at = "join" /\ main'.next = 0 /\ main'.count = main.next
    BY <1>n, <2>1 DEF Phases, Places
  <2>3. Stays(Atoms, WaterPoints)
    BY <2>1 DEF Stays, Lives
  <2> QED BY <1>n, <2>1, <2>2, <2>3 DEF Moves, Leaves
<1>5. CASE Water!JoinNext
  <2>1. at' = at /\ (Joins \/ GoesTo("join", "undefined"))
    BY <1>5 DEF Water!JoinNext, Water!MainGoes, Joins, GoesTo
  <2> QED BY <1>n, <2>1, MainJoins
<1>6. CASE Water!JoinEnds("freed") \/ Water!Passes("freed", "ended")
  BY <1>1, <1>6 DEF Water!JoinEnds, Water!Passes, Water!MainGoes, MayGo
<1> QED BY <1>2, <1>3, <1>4, <1>5, <1>6 DEF Water!MainStep

LEMMA WaterThread ==
  ASSUME Lives(Atoms, WaterPoints, TRUE), NEW t \in Water!Threads,
         Water!ThreadStep(t) \/ Water!WakeSpuriously(t)
  PROVE  Stays(Atoms, WaterPoints) /\ main' = main /\ at[t] \notin {"unborn", "done"}
<1>1. CASE Water!WakeSpuriously(t) \/ Water!Bond(t)
  BY <1>1 DEF Water!WakeSpuriously, Water!Bond, Water!Goes, Stays, Lives, Water!Threads,
     Team, WaterPoints
<1>2. CASE Water!Hydrogen(t) \/ Water!Oxygen(t)
  BY <1>2 DEF Water!Hydrogen, Water!Oxygen, Water!CountAtom, Stays, Lives, Water!Threads,
     Team, WaterPoints
<1> QED BY <1>1, <1>2 DEF Water!ThreadStep

LEMMA AtomsAreFew ==
  ASSUME NEW kind, NEW places
  PROVE  /\ IsFiniteSet(AtomsAt(kind, places))
         /\ Cardinality(AtomsAt(kind, places)) \in 0..Atoms
<1>1. Atoms \in Nat /\ 0 \in Int /\ Atoms - 1 \in Int
  BY NumbersAssumption
<1>2. IsFiniteSet(Team(Atoms)) /\ Cardinality(Team(Atoms)) = Atoms
  BY <1>1, FS_Interval DEF Team
<1>3. AtomsAt(kind, places) \subseteq Team(Atoms)
  BY DEF AtomsAt
<1> QED BY <1>1, <1>2, <1>3, FS_Subset, FS_CardinalityType

(* Nothing is counted where nobody comes to the places that count.         *)
AtomsStay ==
  \A t \in Team(Atoms) :
    /\ at'[t] \in CountedPoints <=> at[t] \in CountedPoints
    /\ at'[t] = "done" <=> at[t] = "done"
    /\ at[t] \in CountedPoints => shared'.kind[t] = shared.kind[t]

CountersStay ==
  /\ shared'.hydrogen_sem = shared.hydrogen_sem /\ shared'.oxygen_sem = shared.oxygen_sem
  /\ shared'.hydrogen_count = shared.hydrogen_count /\ shared'.oxygen_count = shared.oxygen_count

LEMMA NothingCounted ==
  ASSUME AtomsStay
  PROVE  /\ UNCHANGED <<HydrogensCounted, OxygensCounted>>
         /\ UNCHANGED <<HydrogensBonded, OxygensBonded>>
BY DEF AtomsStay, HydrogensCounted, OxygensCounted, HydrogensBonded, OxygensBonded,
   AtomsAt, CountedPoints

LEMMA MoleculesStay ==
  ASSUME AtomsStay, CountersStay, NEW m, Molecules(m)
  PROVE  Molecules(m)'
BY NothingCounted DEF CountersStay, Molecules

LEMMA CardinalitiesOfAtoms ==
  /\ Cardinality(HydrogensCounted) \in 0..Atoms /\ IsFiniteSet(HydrogensCounted)
  /\ Cardinality(OxygensCounted) \in 0..Atoms /\ IsFiniteSet(OxygensCounted)
  /\ Cardinality(HydrogensBonded) \in 0..Atoms /\ IsFiniteSet(HydrogensBonded)
  /\ Cardinality(OxygensBonded) \in 0..Atoms /\ IsFiniteSet(OxygensBonded)
BY AtomsAreFew DEF HydrogensCounted, OxygensCounted, HydrogensBonded, OxygensBonded

LEMMA OneMore ==
  ASSUME NEW S, IsFiniteSet(S), NEW x, x \notin S
  PROVE  Cardinality(S \cup {x}) = Cardinality(S) + 1
BY FS_AddElement

(* main enters an atom.                                                    *)
LEMMA WaterMainCounts ==
  ASSUME WaterInv, Water!MainStep
  PROVE  WaterTypes' /\ \E m \in Nat : Molecules(m)'
<1>1. PICK m \in Nat : Molecules(m)
  BY DEF WaterInv
<1>2. WaterTypes /\ Lives(Atoms, WaterPoints, TRUE) /\ Atoms \in Nat
  BY NumbersAssumption DEF WaterInv
<1>3. CASE UNCHANGED <<at, shared, output>>
  <2>1. AtomsStay /\ CountersStay
    BY <1>3 DEF AtomsStay, CountersStay
  <2> QED BY <1>1, <1>2, <1>3, <2>1, MoleculesStay DEF WaterTypes
<1>4. CASE Water!ReadAtom
  <2>1. PICK k \in Water!Kinds : shared' = [shared EXCEPT !["kind"] = [shared.kind EXCEPT ![main.next] = k]]
    BY <1>4 DEF Water!ReadAtom, Water!Field
  <2>2. /\ main.next \in Team(Atoms) /\ at[main.next] = "unborn" /\ output' = output
        /\ at' = at \/ at' = [at EXCEPT ![main.next] = "lock"]
    BY <1>2, <1>4 DEF Water!ReadAtom, Water!CreateNext, Lives, Team
  <2>3. WaterTypes' /\ CountersStay /\ shared'.kind = [shared.kind EXCEPT ![main.next] = k]
    BY <1>2, <2>1, <2>2 DEF WaterTypes, CountersStay
  <2>4. AtomsStay
    BY <1>2, <2>2, <2>3 DEF AtomsStay, CountedPoints, Lives, WaterTypes
  <2> QED BY <1>1, <2>3, <2>4, MoleculesStay
<1> QED BY <1>3, <1>4 DEF Water!MainStep, Water!InitSemaphores, Water!ReadExit,
           Water!JoinNext, Water!JoinEnds, Water!Passes

(* An atom is counted, and perhaps completes a molecule.                   *)
LEMMA AtomCounted ==
  ASSUME WaterInv, NEW t \in Team(Atoms), at[t] = "lock", output' = output,
         NEW h \in Nat, NEW o \in Nat, Water!CountAtom(t, h, o),
         \/ shared.kind[t] = "hydrogen" /\ h = shared.hydrogen_count + 1 /\ o = shared.oxygen_count
         \/ shared.kind[t] = "oxygen" /\ h = shared.hydrogen_count /\ o = shared.oxygen_count + 1
  PROVE  WaterTypes' /\ \E m \in Nat : Molecules(m)'
<1>1. PICK m \in Nat : Molecules(m)
  BY DEF WaterInv
<1>2. WaterTypes /\ at \in [Team(Atoms) -> WaterPoints]
  BY DEF WaterInv, Lives
<1>3. /\ at'[t] \in {"condition", "semaphore"}
      /\ \A u \in Team(Atoms) \ {t} : \/ at'[u] = at[u]
                                      \/ at[u] = "condition" /\ at'[u] = "semaphore"
  BY <1>2 DEF Water!CountAtom, Water!Threads, Team
<1>4. shared'.kind = shared.kind
  BY <1>2 DEF Water!CountAtom, WaterTypes
<1>5. UNCHANGED <<HydrogensBonded, OxygensBonded>>
  BY <1>3, <1>4 DEF HydrogensBonded, OxygensBonded, AtomsAt
<1>6. /\ Cardinality(HydrogensCounted)' = Cardinality(HydrogensCounted) + (h - shared.hydrogen_count)
      /\ Cardinality(OxygensCounted)' = Cardinality(OxygensCounted) + (o - shared.oxygen_count)
  <2>1. CASE shared.kind[t] = "hydrogen"
    <3>1. HydrogensCounted' = HydrogensCounted \cup {t} /\ t \notin HydrogensCounted
          /\ OxygensCounted' = OxygensCounted
      BY <1>3, <1>4, <2>1 DEF HydrogensCounted, OxygensCounted, AtomsAt, CountedPoints
    <3>2. h - shared.hydrogen_count = 1 /\ o - shared.oxygen_count = 0
      BY <1>2, <2>1 DEF WaterTypes
    <3> QED BY <3>1, <3>2, OneMore, CardinalitiesOfAtoms
  <2>2. CASE shared.kind[t] = "oxygen"
    <3>1. OxygensCounted' = OxygensCounted \cup {t} /\ t \notin OxygensCounted
          /\ HydrogensCounted' = HydrogensCounted
      BY <1>3, <1>4, <2>2 DEF HydrogensCounted, OxygensCounted, AtomsAt, CountedPoints
    <3>2. h - shared.hydrogen_count = 0 /\ o - shared.oxygen_count = 1
      BY <1>2, <2>2 DEF WaterTypes
    <3> QED BY <3>1, <3>2, OneMore, CardinalitiesOfAtoms
  <2> QED BY <2>1, <2>2
<1>7. CASE h >= 2 /\ o >= 1
  <2>1. shared' = [shared EXCEPT !.hydrogen_sem = @ + 2, !.oxygen_sem = @ + 1,
                                 !.hydrogen_count = h - 2, !.oxygen_count = o - 1]
    BY <1>7 DEF Water!CountAtom
  <2>2. /\ shared'.hydrogen_sem = shared.hydrogen_sem + 2 /\ shared'.oxygen_sem = shared.oxygen_sem + 1
        /\ shared'.hydrogen_count = h - 2 /\ shared'.oxygen_count = o - 1
    BY <1>2, <2>1 DEF WaterTypes
  <2>3. h - 2 \in Nat /\ o - 1 \in Nat
    BY <1>7
  <2>4. WaterTypes'
    <3>1. shared' = [hydrogen_sem |-> shared.hydrogen_sem + 2, oxygen_sem |-> shared.oxygen_sem + 1,
                     hydrogen_count |-> h - 2, oxygen_count |-> o - 1, kind |-> shared.kind]
      BY <1>2, <2>1 DEF WaterTypes
    <3>2. /\ shared.hydrogen_sem + 2 \in Nat /\ shared.oxygen_sem + 1 \in Nat
          /\ shared.kind \in [Team(Atoms) -> Water!Kinds] /\ output' = <<>>
      BY <1>2 DEF WaterTypes
    <3> QED BY <3>1, <3>2, <2>3 DEF WaterTypes
  <2>5. h - 2 < 2 \/ o - 1 = 0
    <3>1. /\ shared.hydrogen_count \in Nat /\ shared.oxygen_count \in Nat
          /\ shared.hydrogen_count < 2 \/ shared.oxygen_count = 0
      BY <1>1, <1>2 DEF Molecules, WaterTypes
    <3> QED BY <3>1, <1>7
  <2>6. Molecules(m + 1)'
    <3>1. Cardinality(HydrogensCounted)' = 2 * (m + 1) + (h - 2)
      BY <1>1, <1>2, <1>6, CardinalitiesOfAtoms DEF Molecules, WaterTypes
    <3>2. Cardinality(OxygensCounted)' = (m + 1) + (o - 1)
      BY <1>1, <1>2, <1>6, CardinalitiesOfAtoms DEF Molecules, WaterTypes
    <3>3. /\ Cardinality(HydrogensBonded) + (shared.hydrogen_sem + 2) = 2 * (m + 1)
          /\ Cardinality(OxygensBonded) + (shared.oxygen_sem + 1) = m + 1
      <4>1. /\ Cardinality(HydrogensBonded) + shared.hydrogen_sem = 2 * m
            /\ Cardinality(OxygensBonded) + shared.oxygen_sem = m
        BY <1>1 DEF Molecules
      <4>2. shared.hydrogen_sem \in Int /\ shared.oxygen_sem \in Int
        BY <1>2 DEF WaterTypes
      <4>3. Cardinality(HydrogensBonded) \in Int /\ Cardinality(OxygensBonded) \in Int
        BY CardinalitiesOfAtoms
      <4>4. \A a, b \in Int : a + b = 2 * m => a + (b + 2) = 2 * (m + 1)
        OBVIOUS
      <4>5. \A a, b \in Int : a + b = m => a + (b + 1) = m + 1
        OBVIOUS
      <4> QED BY <4>1, <4>2, <4>3, <4>4, <4>5
    <3>4. /\ Cardinality(HydrogensBonded)' + shared'.hydrogen_sem = 2 * (m + 1)
          /\ Cardinality(OxygensBonded)' + shared'.oxygen_sem = m + 1
      BY <1>5, <2>2, <3>3
    <3>5. /\ Cardinality(HydrogensCounted)' = 2 * (m + 1) + shared'.hydrogen_count
          /\ Cardinality(OxygensCounted)' = (m + 1) + shared'.oxygen_count
          /\ shared'.hydrogen_count < 2 \/ shared'.oxygen_count = 0
      BY <2>2, <2>5, <3>1, <3>2
    <3> QED BY ONLY <3>4, <3>5, Zenon DEF Molecules
  <2> QED BY <2>4, <2>6
<1>8. CASE ~(h >= 2 /\ o >= 1)
  <2>1. shared' = [shared EXCEPT !.hydrogen_count = h, !.oxygen_count = o]
    BY <1>8 DEF Water!CountAtom
  <2>2. /\ shared'.hydrogen_sem = shared.hydrogen_sem /\ shared'.oxygen_sem = shared.oxygen_sem
        /\ shared'.hydrogen_count = h /\ shared'.oxygen_count = o
    BY <1>2, <2>1 DEF WaterTypes
  <2>3. WaterTypes'
    BY <1>2, <2>1 DEF WaterTypes
  <2>4. h < 2 \/ o = 0
    BY <1>8
  <2>5. Molecules(m)'
    <3>1. /\ Cardinality(HydrogensCounted) = 2 * m + shared.hydrogen_count
          /\ Cardinality(OxygensCounted) = m + shared.oxygen_count
          /\ Cardinality(HydrogensBonded) + shared.hydrogen_sem = 2 * m
          /\ Cardinality(OxygensBonded) + shared.oxygen_sem = m
      BY <1>1 DEF Molecules
    <3>2. shared.hydrogen_count \in Int /\ shared.oxygen_count \in Int
      BY <1>2 DEF WaterTypes
    <3>3. \A a, b, c \in Int : (a + b) + (c - b) = a + c
      OBVIOUS
    <3>4. Cardinality(HydrogensCounted)' = 2 * m + h /\ Cardinality(OxygensCounted)' = m + o
      BY <1>6, <3>1, <3>2, <3>3
    <3>5. /\ Cardinality(HydrogensBonded)' + shared'.hydrogen_sem = 2 * m
          /\ Cardinality(OxygensBonded)' + shared'.oxygen_sem = m
      BY <1>5, <2>2, <3>1
    <3>6. shared'.hydrogen_count < 2 \/ shared'.oxygen_count = 0
      BY <2>2, <2>4
    <3>7. /\ Cardinality(HydrogensCounted)' = 2 * m + shared'.hydrogen_count
          /\ Cardinality(OxygensCounted)' = m + shared'.oxygen_count
      BY <2>2, <3>4
    <3> QED BY ONLY <3>5, <3>6, <3>7, Zenon DEF Molecules
  <2> QED BY <2>3, <2>5
<1> QED BY <1>7, <1>8

(* An atom bonds.                                                          *)
LEMMA AtomBonds ==
  ASSUME WaterInv, NEW t \in Team(Atoms), Water!Bond(t)
  PROVE  WaterTypes' /\ \E m \in Nat : Molecules(m)'
<1>1. PICK m \in Nat : Molecules(m)
  BY DEF WaterInv
<1>2. WaterTypes /\ at \in [Team(Atoms) -> WaterPoints]
  BY DEF WaterInv, Lives
<1>3. /\ at[t] = "semaphore" /\ at'[t] = "done" /\ \A u \in Team(Atoms) \ {t} : at'[u] = at[u]
      /\ output' = output
  BY <1>2 DEF Water!Bond, Water!Goes
<1>4. CASE shared.kind[t] = "hydrogen"
  <2>1. shared' = [shared EXCEPT !["hydrogen_sem"] = shared.hydrogen_sem - 1] /\ shared.hydrogen_sem > 0
    BY <1>2, <1>4 DEF Water!Bond, Water!Semaphore, Water!Field, WaterTypes
  <2>2. /\ shared.hydrogen_sem - 1 \in Nat /\ shared'.hydrogen_sem = shared.hydrogen_sem - 1
        /\ shared'.kind = shared.kind /\ shared'.oxygen_sem = shared.oxygen_sem
        /\ shared'.hydrogen_count = shared.hydrogen_count /\ shared'.oxygen_count = shared.oxygen_count
    BY <1>2, <2>1 DEF WaterTypes
  <2>3. WaterTypes'
    BY <1>2, <1>3, <2>1, <2>2 DEF WaterTypes
  <2>4. /\ UNCHANGED <<HydrogensCounted, OxygensCounted, OxygensBonded>>
        /\ HydrogensBonded' = HydrogensBonded \cup {t} /\ t \notin HydrogensBonded
    BY <1>3, <1>4, <2>2
       DEF HydrogensCounted, OxygensCounted, HydrogensBonded, OxygensBonded, AtomsAt,
           CountedPoints
  <2>5. Cardinality(HydrogensBonded)' = Cardinality(HydrogensBonded) + 1
    BY <2>4, OneMore, CardinalitiesOfAtoms
  <2>6. (Cardinality(HydrogensBonded) + 1) + (shared.hydrogen_sem - 1) = 2 * m
    BY <1>1, <1>2, CardinalitiesOfAtoms DEF Molecules, WaterTypes
  <2>7. Molecules(m)'
    BY <1>1, <2>2, <2>4, <2>5, <2>6 DEF Molecules
  <2> QED BY <2>3, <2>7
<1>5. CASE shared.kind[t] = "oxygen"
  <2>1. shared' = [shared EXCEPT !["oxygen_sem"] = shared.oxygen_sem - 1] /\ shared.oxygen_sem > 0
    BY <1>2, <1>5 DEF Water!Bond, Water!Semaphore, Water!Field, WaterTypes
  <2>2. /\ shared.oxygen_sem - 1 \in Nat /\ shared'.oxygen_sem = shared.oxygen_sem - 1
        /\ shared'.kind = shared.kind /\ shared'.hydrogen_sem = shared.hydrogen_sem
        /\ shared'.hydrogen_count = shared.hydrogen_count /\ shared'.oxygen_count = shared.oxygen_count
    BY <1>2, <2>1 DEF WaterTypes
  <2>3. WaterTypes'
    BY <1>2, <1>3, <2>1, <2>2 DEF WaterTypes
  <2>4. /\ UNCHANGED <<HydrogensCounted, OxygensCounted, HydrogensBonded>>
        /\ OxygensBonded' = OxygensBonded \cup {t} /\ t \notin OxygensBonded
    BY <1>3, <1>5, <2>2
       DEF HydrogensCounted, OxygensCounted, HydrogensBonded, OxygensBonded, AtomsAt,
           CountedPoints
  <2>5. Cardinality(OxygensBonded)' = Cardinality(OxygensBonded) + 1
    BY <2>4, OneMore, CardinalitiesOfAtoms
  <2>6. (Cardinality(OxygensBonded) + 1) + (shared.oxygen_sem - 1) = m
    BY <1>1, <1>2, CardinalitiesOfAtoms DEF Molecules, WaterTypes
  <2>7. Molecules(m)'
    BY <1>1, <2>2, <2>4, <2>5, <2>6 DEF Molecules
  <2> QED BY <2>3, <2>7
<1>6. shared.kind[t] \in {"hydrogen", "oxygen"}
  BY <1>2 DEF WaterTypes, Water!Kinds
<1> QED BY <1>4, <1>5, <1>6

LEMMA WaterInitially ==
  Water!Init => WaterInv
<1> SUFFICES ASSUME Water!Init PROVE WaterInv
  OBVIOUS
<1>1. /\ main = [at |-> "start", next |-> 0, count |-> Atoms, error |-> FALSE]
      /\ at = [t \in Team(Atoms) |-> "unborn"] /\ output = <<>>
      /\ shared = [hydrogen_sem |-> 0, oxygen_sem |-> 0, hydrogen_count |-> 0, oxygen_count |-> 0,
                   kind |-> [t \in Team(Atoms) |-> "hydrogen"]]
      /\ program \in Water!Programs /\ Atoms \in Nat
  BY NumbersAssumption DEF Water!Init, Water!Starts, Water!Threads, Team
<1>2. Lives(Atoms, WaterPoints, TRUE)
  BY <1>1 DEF Lives, Phases, Places, WaterPoints, Team
<1>3. WaterTypes
  BY <1>1 DEF WaterTypes, Water!Kinds
<1>4. Molecules(0)
  <2>1. /\ HydrogensCounted = {} /\ OxygensCounted = {}
        /\ HydrogensBonded = {} /\ OxygensBonded = {}
    BY <1>1 DEF HydrogensCounted, OxygensCounted, HydrogensBonded, OxygensBonded, AtomsAt,
       CountedPoints
  <2>2. Cardinality({}) = 0
    BY FS_EmptySet
  <2> QED BY <1>1, <2>1, <2>2 DEF Molecules
<1> QED BY <1>1, <1>2, <1>3, <1>4 DEF WaterInv

LEMMA WaterKeeps ==
  ASSUME WaterInv,
         \/ Water!Step(Water!MainStep)
         \/ \E t \in Water!Threads : Water!Step(Water!ThreadStep(t)) \/ Water!Step(Water!WakeSpuriously(t))
  PROVE  WaterInv'
<1>1. CASE Water!Step(Water!MainStep)
  <2>1. Water!MainStep /\ program' = program
    BY <1>1 DEF Water!Step
  <2>2. Lives(Atoms, WaterPoints, TRUE)'
    BY <2>1, NumbersAssumption, WaterMain, MainLivesOn DEF WaterInv
  <2> QED BY <2>1, <2>2, WaterMainCounts DEF WaterInv
<1>2. ASSUME NEW t \in Water!Threads,
             Water!Step(Water!ThreadStep(t)) \/ Water!Step(Water!WakeSpuriously(t))
      PROVE  WaterInv'
  <2>1. /\ Water!ThreadStep(t) \/ Water!WakeSpuriously(t)
        /\ program' = program /\ t \in Team(Atoms)
    BY <1>2 DEF Water!Step, Water!Threads, Team
  <2>2. Lives(Atoms, WaterPoints, TRUE)'
    BY <2>1, NumbersAssumption, WaterThread, ThreadLivesOn DEF WaterInv
  <2>3. WaterTypes /\ at \in [Team(Atoms) -> WaterPoints]
    BY DEF WaterInv, Lives
  <2>4. shared.hydrogen_count \in Nat /\ shared.oxygen_count \in Nat
    BY <2>3 DEF WaterTypes
  <2>5. CASE Water!Hydrogen(t) \/ Water!Oxygen(t)
    <3>1. /\ at[t] = "lock" /\ output' = output /\ main' = main
          /\ \/ /\ shared.kind[t] = "hydrogen"
                /\ Water!CountAtom(t, shared.hydrogen_count + 1, shared.oxygen_count)
             \/ /\ shared.kind[t] = "oxygen"
                /\ Water!CountAtom(t, shared.hydrogen_count, shared.oxygen_count + 1)
      BY <2>5 DEF Water!Hydrogen, Water!Oxygen
    <3>2. shared.hydrogen_count + 1 \in Nat /\ shared.oxygen_count + 1 \in Nat
      BY <2>4
    <3>3. WaterTypes' /\ \E m \in Nat : Molecules(m)'
      BY <2>1, <2>4, <3>1, <3>2, AtomCounted
    <3> QED BY <2>1, <2>2, <3>3 DEF WaterInv
  <2>6. CASE Water!Bond(t)
    BY <2>1, <2>2, <2>6, AtomBonds DEF WaterInv
  <2>7. CASE Water!WakeSpuriously(t)
    <3>1. AtomsStay /\ CountersStay /\ WaterTypes'
      BY <2>1, <2>3, <2>7 DEF Water!WakeSpuriously, Water!Goes, AtomsStay, CountersStay,
         CountedPoints, WaterTypes
    <3> QED BY <2>1, <2>2, <3>1, MoleculesStay DEF WaterInv
  <2> QED BY <2>1, <2>5, <2>6, <2>7 DEF Water!ThreadStep
<1> QED BY <1>1, <1>2

LEMMA WaterPromises ==
  ASSUME WaterInv
  PROVE  Water!TypeOK /\ Water!MoleculesAreWhole /\ Water!MemoryOutlivesThreads
<1>1. Water!MemoryOutlivesThreads
  BY DEF WaterInv, Lives, AtRest, Water!MemoryOutlivesThreads, Water!Threads, Team
<1>2. PICK m \in Nat : Molecules(m)
  BY DEF WaterInv
<1>3. WaterTypes
  BY DEF WaterInv
<1>4. Water!MoleculesAreWhole
  <2>1. \A kind, places : Water!AtomsAt(kind, places) = AtomsAt(kind, places)
    BY DEF Water!AtomsAt, AtomsAt, Water!Threads, Team
  <2>2. Cardinality(OxygensCounted) - shared.oxygen_count = m
    BY <1>2, <1>3, CardinalitiesOfAtoms DEF Molecules, WaterTypes
  <2>3. /\ Cardinality(HydrogensCounted) = 2 * m + shared.hydrogen_count
        /\ shared.hydrogen_count < 2 \/ shared.oxygen_count = 0
        /\ Cardinality(HydrogensBonded) + shared.hydrogen_sem = 2 * m
        /\ Cardinality(OxygensBonded) + shared.oxygen_sem = m
    BY <1>2 DEF Molecules
  <2>4. /\ Water!AtomsAt("hydrogen", {"condition", "semaphore", "done"}) = HydrogensCounted
        /\ Water!AtomsAt("oxygen", {"condition", "semaphore", "done"}) = OxygensCounted
        /\ Water!AtomsAt("hydrogen", {"done"}) = HydrogensBonded
        /\ Water!AtomsAt("oxygen", {"done"}) = OxygensBonded
    BY <2>1 DEF HydrogensCounted, OxygensCounted, HydrogensBonded, OxygensBonded,
       CountedPoints
  <2>5. \A S : Water!Cardinality(S) = Cardinality(S)
    BY DEF Water!Cardinality, Cardinality
  <2> QED BY <2>2, <2>3, <2>4, <2>5 DEF Water!MoleculesAreWhole
<1>5. /\ shared.hydrogen_sem \in 0..2 * Atoms /\ shared.oxygen_sem \in 0..2 * Atoms
      /\ shared.hydrogen_count \in 0..2 * Atoms /\ shared.oxygen_count \in 0..2 * Atoms
  <2>1. /\ shared.hydrogen_sem \in Nat /\ shared.oxygen_sem \in Nat
        /\ shared.hydrogen_count \in Nat /\ shared.oxygen_count \in Nat
    BY <1>3 DEF WaterTypes
  <2>2. /\ Cardinality(HydrogensCounted) = 2 * m + shared.hydrogen_count
        /\ Cardinality(OxygensCounted) = m + shared.oxygen_count
        /\ Cardinality(HydrogensBonded) + shared.hydrogen_sem = 2 * m
        /\ Cardinality(OxygensBonded) + shared.oxygen_sem = m
    BY <1>2 DEF Molecules
  <2>3. Atoms \in Nat
    BY NumbersAssumption
  <2> QED BY <2>1, <2>2, <2>3, CardinalitiesOfAtoms
<1>6. Water!TypeOK
  <2>1. WaterPoints = {"lock", "condition", "semaphore"} \cup {"unborn", "done"}
    BY DEF WaterPoints
  <2>2. /\ main.at \in Places /\ main.next \in 0..Atoms /\ main.count \in 0..Atoms
        /\ main.error \in BOOLEAN /\ at \in [Team(Atoms) -> WaterPoints]
    BY DEF WaterInv, Lives, Phases
  <2>3. shared.kind \in [Team(Atoms) -> Water!Kinds] /\ output = <<>>
    BY <1>3 DEF WaterTypes
  <2>4. \A f \in DOMAIN shared \ {"kind"} : shared[f] \in 0..2 * Atoms
    BY <1>3, <1>5 DEF WaterTypes
  <2> QED BY <2>1, <2>2, <2>3, <2>4 DEF WaterInv, Places, Water!TypeOK, Water!CommonTypes,
         Water!Threads, Team
<1> QED BY <1>1, <1>4, <1>6

-----------------------------------------------------------------------------
(* Dance: the dancers that have been counted are those still in the        *)
(* counters, and four for every dance that has begun or ended.             *)
DancePoints == {"lock", "waiting", "woken", "dance", "unborn", "done"}

EnteredAs(kind) == {t \in Team(Dancers) : shared.kind[t] = kind /\ at[t] \notin {"unborn", "lock"}}
MenEntered == EnteredAs("male")
WomenEntered == EnteredAs("female")
OnTheFloor == {t \in Team(Dancers) : at[t] = "dance"}

DanceTypes ==
  /\ shared \in [male_count : Nat, female_count : Nat, exit_flag : BOOLEAN,
                 kind : [Team(Dancers) -> Dance!Kinds]]
  /\ output \in Reports(Dancers, {"dance"})

Couples(dances) ==
  /\ Cardinality(OnTheFloor) + Len(output) = dances
  /\ Cardinality(MenEntered) = shared.male_count + 2 * dances
  /\ Cardinality(WomenEntered) = shared.female_count + 2 * dances

DanceInv ==
  /\ program \in Dance!Programs /\ Lives(Dancers, DancePoints, TRUE)
  /\ DanceTypes /\ \E dances \in Nat : Couples(dances)

LEMMA DanceMain ==
  ASSUME Lives(Dancers, DancePoints, TRUE), Dance!MainStep
  PROVE  Moves(Dancers, DancePoints, TRUE)
<1>n. Dancers \in Nat /\ main \in Phases
  BY NumbersAssumption DEF Lives
<1>1. ASSUME NEW from, NEW to, MayGo(from, to), Dance!Passes(from, to)
      PROVE  Moves(Dancers, DancePoints, TRUE)
  BY <1>1, <1>n, MainGoesOn DEF Dance!Passes, Dance!MainGoes, GoesTo
<1>2. CASE Dance!OpenFloor
  BY <1>1, <1>2 DEF Dance!OpenFloor, MayGo
<1>3. CASE Dance!ReadDancer
  BY <1>3 DEF Dance!ReadDancer, Dance!CreateNext, DancePoints, Moves, Creates
<1>4. CASE Dance!CreateFails
  <2>1. MayFail("create", "ended", TRUE) /\ MayFail("create", "undefined", TRUE)
    BY DEF MayFail
  <2>2. at' = at /\ (FailsTo("create", "ended") \/ FailsTo("create", "undefined"))
    BY <1>4 DEF Dance!CreateFails, Dance!MainFails, FailsTo
  <2> QED BY <1>n, <2>1, <2>2, MainFailsThen
<1>5. CASE Dance!ReadExit
  <2>1. /\ main.at = "create" /\ main.next \in 0..Dancers
        /\ main' = [at |-> "join", next |-> 0, count |-> main.next, error |-> main.error]
    BY <1>5, <1>n DEF Dance!ReadExit, Phases, Lives
  <2>2. /\ main' \in Phases /\ main'.at = "join" /\ main'.next = 0 /\ main'.count = main.next
    BY <1>n, <2>1 DEF Phases, Places
  <2>3. Stays(Dancers, DancePoints)
    BY <1>5 DEF Stays, Lives, Dance!ReadExit, Dance!WokenAll, Dance!Threads, Team,
       DancePoints
  <2> QED BY <1>n, <2>1, <2>2, <2>3 DEF Moves, Leaves
<1>6. CASE Dance!JoinNext
  <2>1. at' = at /\ (Joins \/ GoesTo("join", "undefined"))
    BY <1>6 DEF Dance!JoinNext, Dance!MainGoes, Joins, GoesTo
  <2> QED BY <1>n, <2>1, MainJoins
<1>7. CASE Dance!JoinEnds("freed") \/ Dance!Passes("freed", "ended")
  BY <1>1, <1>7 DEF Dance!JoinEnds, Dance!Passes, Dance!MainGoes, MayGo
<1> QED BY <1>2, <1>3, <1>4, <1>5, <1>6, <1>7 DEF Dance!MainStep

(* What a look at the floor changes.                                       *)
LEMMA DanceLook ==
  ASSUME Lives(Dancers, DancePoints, TRUE), DanceTypes, NEW t \in Team(Dancers),
         NEW m \in Nat, NEW f \in Nat, Dance!Look(t, m, f)
  PROVE  /\ main' = main /\ output' = output /\ shared'.kind = shared.kind /\ DanceTypes'
         /\ at' \in [Team(Dancers) -> DancePoints]
         /\ \A u \in Team(Dancers) \ {t} :
              at'[u] = at[u] \/ (at[u] = "waiting" /\ at'[u] = "woken")
         /\ \/ /\ at'[t] \in {"done", "waiting"}
               /\ shared'.male_count = m /\ shared'.female_count = f
            \/ /\ at'[t] = "dance" /\ m >= 2 /\ f >= 2
               /\ shared'.male_count = m - 2 /\ shared'.female_count = f - 2
<1>1. /\ at \in [Team(Dancers) -> DancePoints]
      /\ shared \in [male_count : Nat, female_count : Nat, exit_flag : BOOLEAN,
                     kind : [Team(Dancers) -> Dance!Kinds]]
      /\ output \in Reports(Dancers, {"dance"})
  BY DEF Lives, DanceTypes
<1>2. main' = main /\ output' = output
  BY DEF Dance!Look
<1>3. CASE /\ at' = [at EXCEPT ![t] = "done"] \/ at' = [at EXCEPT ![t] = "waiting"]
           /\ shared' = [shared EXCEPT !.male_count = m, !.female_count = f]
  BY <1>1, <1>2, <1>3 DEF DanceTypes, DancePoints
<1>4. CASE /\ at' = [Dance!WokenAll EXCEPT ![t] = "dance"] /\ ~(m < 2 \/ f < 2)
           /\ shared' = [shared EXCEPT !.male_count = m - 2, !.female_count = f - 2]
  <2>1. m >= 2 /\ f >= 2 /\ m - 2 \in Nat /\ f - 2 \in Nat
    BY <1>4
  <2>2. /\ shared'.kind = shared.kind /\ shared'.male_count = m - 2 /\ shared'.female_count = f - 2
        /\ DanceTypes'
    BY <1>1, <1>2, <1>4, <2>1 DEF DanceTypes
  <2>3. /\ at' \in [Team(Dancers) -> DancePoints] /\ at'[t] = "dance"
        /\ \A u \in Team(Dancers) \ {t} :
             at'[u] = at[u] \/ (at[u] = "waiting" /\ at'[u] = "woken")
    BY <1>1, <1>4 DEF Dance!WokenAll, Dance!Threads, Team, DancePoints
  <2> QED BY <1>2, <2>1, <2>2, <2>3
<1> QED BY <1>3, <1>4 DEF Dance!Look

(* Who looks: one that has just come, or one that has woken.               *)
LEMMA DanceLookers ==
  ASSUME NEW t, Dance!Male(t) \/ Dance!Female(t) \/ Dance!LookAgain(t), DanceTypes
  PROVE  \E m, f \in Nat :
           /\ Dance!Look(t, m, f)
           /\ \/ /\ at[t] = "lock" /\ shared.kind[t] = "male"
                 /\ m = shared.male_count + 1 /\ f = shared.female_count
              \/ /\ at[t] = "lock" /\ shared.kind[t] = "female"
                 /\ m = shared.male_count /\ f = shared.female_count + 1
              \/ at[t] = "woken" /\ m = shared.male_count /\ f = shared.female_count
<1>1. shared.male_count \in Nat /\ shared.female_count \in Nat
  BY DEF DanceTypes
<1>2. shared.male_count + 1 \in Nat /\ shared.female_count + 1 \in Nat
  BY <1>1
<1> QED BY <1>1, <1>2 DEF Dance!Male, Dance!Female, Dance!LookAgain

LEMMA DanceThread ==
  ASSUME Lives(Dancers, DancePoints, TRUE), DanceTypes, NEW t \in Dance!Threads,
         Dance!ThreadStep(t) \/ Dance!WakeSpuriously(t)
  PROVE  Stays(Dancers, DancePoints) /\ main' = main
<1>1. CASE Dance!WakeSpuriously(t) \/ Dance!Dance(t)
  BY <1>1 DEF Dance!WakeSpuriously, Dance!Dance, Dance!Goes, Stays, Lives, Dance!Threads,
     Team, DancePoints
<1>2. CASE Dance!Male(t) \/ Dance!Female(t) \/ Dance!LookAgain(t)
  <2>1. t \in Team(Dancers)
    BY DEF Dance!Threads, Team
  <2>2. PICK m, f \in Nat : Dance!Look(t, m, f) /\ at[t] \in {"lock", "woken"}
    BY <1>2, DanceLookers
  <2> QED BY <2>1, <2>2, DanceLook DEF Stays
<1> QED BY <1>1, <1>2 DEF Dance!ThreadStep

LEMMA DancersAreFew ==
  /\ IsFiniteSet(OnTheFloor) /\ Cardinality(OnTheFloor) \in Nat
  /\ IsFiniteSet(MenEntered) /\ Cardinality(MenEntered) \in Nat
  /\ IsFiniteSet(WomenEntered) /\ Cardinality(WomenEntered) \in Nat
<1>1. Dancers \in Nat /\ 0 \in Int /\ Dancers - 1 \in Int
  BY NumbersAssumption
<1>2. IsFiniteSet(Team(Dancers))
  BY <1>1, FS_Interval DEF Team
<1>3. /\ OnTheFloor \subseteq Team(Dancers) /\ MenEntered \subseteq Team(Dancers)
      /\ WomenEntered \subseteq Team(Dancers)
  BY DEF OnTheFloor, MenEntered, WomenEntered, EnteredAs
<1> QED BY <1>2, <1>3, FS_Subset, FS_CardinalityType

(* Nobody enters and nobody leaves the floor.                              *)
DancersStay ==
  \A t \in Team(Dancers) :
    /\ at'[t] \in {"unborn", "lock"} <=> at[t] \in {"unborn", "lock"}
    /\ at'[t] = "dance" <=> at[t] = "dance"
    /\ at[t] \notin {"unborn", "lock"} => shared'.kind[t] = shared.kind[t]

LEMMA CouplesStay ==
  ASSUME DancersStay, NEW dances, Couples(dances), output' = output,
         shared'.male_count = shared.male_count, shared'.female_count = shared.female_count
  PROVE  Couples(dances)'
<1>1. OnTheFloor' = OnTheFloor /\ MenEntered' = MenEntered /\ WomenEntered' = WomenEntered
  BY DEF DancersStay, OnTheFloor, MenEntered, WomenEntered, EnteredAs
<1> QED BY <1>1 DEF Couples

LEMMA DanceMainCounts ==
  ASSUME DanceInv, Dance!MainStep
  PROVE  DanceTypes' /\ \E dances \in Nat : Couples(dances)'
<1>1. PICK dances \in Nat : Couples(dances)
  BY DEF DanceInv
<1>2. DanceTypes /\ Lives(Dancers, DancePoints, TRUE) /\ Dancers \in Nat
  BY NumbersAssumption DEF DanceInv
<1>3. CASE UNCHANGED <<at, shared, output>>
  <2>1. DancersStay /\ DanceTypes'
    BY <1>2, <1>3 DEF DancersStay, DanceTypes
  <2> QED BY <1>1, <1>3, <2>1, CouplesStay
<1>4. CASE Dance!ReadDancer
  <2>1. PICK k \in Dance!Kinds : shared' = [shared EXCEPT !["kind"] = [shared.kind EXCEPT ![main.next] = k]]
    BY <1>4 DEF Dance!ReadDancer, Dance!Field
  <2>2. /\ main.next \in Team(Dancers) /\ at[main.next] = "unborn" /\ output' = output
        /\ at' = [at EXCEPT ![main.next] = "lock"]
    BY <1>2, <1>4 DEF Dance!ReadDancer, Dance!CreateNext, Lives, Team
  <2>3. /\ DanceTypes' /\ shared'.kind = [shared.kind EXCEPT ![main.next] = k]
        /\ shared'.male_count = shared.male_count /\ shared'.female_count = shared.female_count
    BY <1>2, <2>1, <2>2 DEF DanceTypes
  <2>4. DancersStay
    BY <1>2, <2>2, <2>3 DEF DancersStay, Lives, DanceTypes
  <2> QED BY <1>1, <2>2, <2>3, <2>4, CouplesStay
<1>5. CASE Dance!ReadExit
  <2>1. /\ at' = Dance!WokenAll /\ shared' = [shared EXCEPT !["exit_flag"] = TRUE] /\ output' = output
    BY <1>5 DEF Dance!ReadExit, Dance!Field
  <2>2. /\ DanceTypes' /\ shared'.kind = shared.kind
        /\ shared'.male_count = shared.male_count /\ shared'.female_count = shared.female_count
    BY <1>2, <2>1 DEF DanceTypes
  <2>3. DancersStay
    BY <1>2, <2>1, <2>2 DEF DancersStay, Dance!WokenAll, Dance!Threads, Team, Lives
  <2> QED BY <1>1, <2>1, <2>2, <2>3, CouplesStay
<1> QED BY <1>3, <1>4, <1>5 DEF Dance!MainStep, Dance!OpenFloor, Dance!CreateFails,
       Dance!JoinNext,
           Dance!JoinEnds, Dance!Passes

LEMMA DanceLookCounts ==
  ASSUME DanceInv, NEW t \in Team(Dancers),
         Dance!Male(t) \/ Dance!Female(t) \/ Dance!LookAgain(t)
  PROVE  DanceTypes' /\ \E dances \in Nat : Couples(dances)'
<1>1. PICK dances \in Nat : Couples(dances)
  BY DEF DanceInv
<1>2. DanceTypes /\ Lives(Dancers, DancePoints, TRUE)
  BY DEF DanceInv
<1>3. PICK m \in Nat, f \in Nat :
        /\ Dance!Look(t, m, f)
        /\ \/ /\ at[t] = "lock" /\ shared.kind[t] = "male"
              /\ m = shared.male_count + 1 /\ f = shared.female_count
           \/ /\ at[t] = "lock" /\ shared.kind[t] = "female"
              /\ m = shared.male_count /\ f = shared.female_count + 1
           \/ at[t] = "woken" /\ m = shared.male_count /\ f = shared.female_count
  BY <1>2, DanceLookers
<1>4. /\ output' = output /\ shared'.kind = shared.kind /\ DanceTypes'
      /\ \A u \in Team(Dancers) \ {t} :
           at'[u] = at[u] \/ (at[u] = "waiting" /\ at'[u] = "woken")
      /\ \/ /\ at'[t] \in {"done", "waiting"}
            /\ shared'.male_count = m /\ shared'.female_count = f
         \/ /\ at'[t] = "dance" /\ m >= 2 /\ f >= 2
            /\ shared'.male_count = m - 2 /\ shared'.female_count = f - 2
  BY <1>2, <1>3, DanceLook
<1>n. /\ shared.male_count \in Nat /\ shared.female_count \in Nat /\ Len(output) \in Nat
  BY <1>2 DEF DanceTypes, Reports
<1>5. /\ Cardinality(OnTheFloor) + Len(output) = dances
      /\ Cardinality(MenEntered) = shared.male_count + 2 * dances
      /\ Cardinality(WomenEntered) = shared.female_count + 2 * dances
  BY <1>1 DEF Couples
<1>6. /\ Cardinality(MenEntered)' = m + 2 * dances
      /\ Cardinality(WomenEntered)' = f + 2 * dances
  <2>1. CASE at[t] = "lock" /\ shared.kind[t] = "male"
    <3>1. MenEntered' = MenEntered \cup {t} /\ t \notin MenEntered /\ WomenEntered' = WomenEntered
      BY <1>4, <2>1 DEF MenEntered, WomenEntered, EnteredAs
    <3>2. Cardinality(MenEntered)' = Cardinality(MenEntered) + 1
      BY <3>1, OneMore, DancersAreFew
    <3>3. m = shared.male_count + 1 /\ f = shared.female_count
      BY <1>3, <2>1
    <3> QED BY <3>1, <3>2, <3>3, <1>5, <1>n
  <2>2. CASE at[t] = "lock" /\ shared.kind[t] = "female"
    <3>1. WomenEntered' = WomenEntered \cup {t} /\ t \notin WomenEntered /\ MenEntered' = MenEntered
      BY <1>4, <2>2 DEF MenEntered, WomenEntered, EnteredAs
    <3>2. Cardinality(WomenEntered)' = Cardinality(WomenEntered) + 1
      BY <3>1, OneMore, DancersAreFew
    <3>3. m = shared.male_count /\ f = shared.female_count + 1
      BY <1>3, <2>2
    <3> QED BY <3>1, <3>2, <3>3, <1>5, <1>n
  <2>3. CASE at[t] = "woken"
    <3>1. MenEntered' = MenEntered /\ WomenEntered' = WomenEntered
      BY <1>4, <2>3 DEF MenEntered, WomenEntered, EnteredAs
    <3>2. m = shared.male_count /\ f = shared.female_count
      BY <1>3, <2>3
    <3> QED BY <3>1, <3>2, <1>5, <1>n
  <2> QED BY <1>3, <2>1, <2>2, <2>3
<1>7. t \notin OnTheFloor
  BY <1>3 DEF OnTheFloor
<1>8. CASE at'[t] # "dance"
  <2>1. OnTheFloor' = OnTheFloor
    BY <1>3, <1>4, <1>8 DEF OnTheFloor
  <2>2. shared'.male_count = m /\ shared'.female_count = f
    BY <1>4, <1>8
  <2>3. Couples(dances)'
    BY <1>4, <1>5, <1>6, <2>1, <2>2 DEF Couples
  <2> QED BY <1>4, <2>3
<1>9. CASE at'[t] = "dance"
  <2>1. OnTheFloor' = OnTheFloor \cup {t}
    BY <1>4, <1>9 DEF OnTheFloor
  <2>2. Cardinality(OnTheFloor)' = Cardinality(OnTheFloor) + 1
    BY <1>7, <2>1, OneMore, DancersAreFew
  <2>3. shared'.male_count = m - 2 /\ shared'.female_count = f - 2
    BY <1>4, <1>9
  <2>4. /\ m + 2 * dances = (m - 2) + 2 * (dances + 1)
        /\ f + 2 * dances = (f - 2) + 2 * (dances + 1)
    OBVIOUS
  <2>5. Cardinality(OnTheFloor)' + Len(output) = dances + 1
    BY <2>2, <1>5, <1>n, DancersAreFew
  <2>6. /\ Cardinality(OnTheFloor)' + Len(output)' = dances + 1
        /\ Cardinality(MenEntered)' = shared'.male_count + 2 * (dances + 1)
        /\ Cardinality(WomenEntered)' = shared'.female_count + 2 * (dances + 1)
    BY <1>4, <1>6, <2>3, <2>4, <2>5
  <2>7. Couples(dances + 1)'
    BY ONLY <2>6, Zenon DEF Couples
  <2> QED BY <1>4, <2>7
<1> QED BY <1>8, <1>9

LEMMA DanceEnds ==
  ASSUME DanceInv, NEW t \in Team(Dancers), Dance!Dance(t)
  PROVE  DanceTypes' /\ \E dances \in Nat : Couples(dances)'
<1>1. PICK dances \in Nat : Couples(dances)
  BY DEF DanceInv
<1>2. DanceTypes /\ at \in [Team(Dancers) -> DancePoints] /\ Dancers \in Nat
  BY NumbersAssumption DEF DanceInv, Lives
<1>3. /\ at[t] = "dance" /\ at' = [at EXCEPT ![t] = "done"] /\ shared' = shared
      /\ output' = Append(output, [by |-> t, says |-> "dance"])
  BY DEF Dance!Dance, Dance!Goes, Dance!Report
<1>4. output \in Reports(Dancers, {"dance"}) /\ Len(output) \in Nat
  BY <1>2 DEF DanceTypes, Reports
<1>5. output' \in Reports(Dancers, {"dance"}) /\ Len(output)' = Len(output) + 1
  BY <1>2, <1>3, <1>4 DEF Reports
<1>6. DanceTypes'
  BY <1>2, <1>3, <1>5 DEF DanceTypes
<1>7. MenEntered' = MenEntered /\ WomenEntered' = WomenEntered
  BY <1>2, <1>3 DEF MenEntered, WomenEntered, EnteredAs
<1>8. OnTheFloor' = OnTheFloor \ {t} /\ t \in OnTheFloor
  BY <1>2, <1>3 DEF OnTheFloor
<1>9. Cardinality(OnTheFloor)' = Cardinality(OnTheFloor) - 1
  BY <1>8, DancersAreFew, FS_RemoveElement
<1>10. Couples(dances)'
  BY <1>1, <1>3, <1>4, <1>5, <1>7, <1>9, DancersAreFew DEF Couples
<1> QED BY <1>6, <1>10

LEMMA DanceInitially ==
  Dance!Init => DanceInv
<1> SUFFICES ASSUME Dance!Init PROVE DanceInv
  OBVIOUS
<1>1. /\ main = [at |-> "start", next |-> 0, count |-> Dancers, error |-> FALSE]
      /\ at = [t \in Team(Dancers) |-> "unborn"] /\ output = <<>>
      /\ shared = [male_count |-> 0, female_count |-> 0, exit_flag |-> FALSE,
                   kind |-> [t \in Team(Dancers) |-> "male"]]
      /\ program \in Dance!Programs /\ Dancers \in Nat
  BY NumbersAssumption DEF Dance!Init, Dance!Starts, Dance!Threads, Team
<1>2. Lives(Dancers, DancePoints, TRUE)
  BY <1>1 DEF Lives, Phases, Places, DancePoints, Team
<1>3. DanceTypes
  BY <1>1 DEF DanceTypes, Dance!Kinds, Reports
<1>4. Couples(0)
  <2>1. OnTheFloor = {} /\ MenEntered = {} /\ WomenEntered = {} /\ Len(output) = 0
    BY <1>1 DEF OnTheFloor, MenEntered, WomenEntered, EnteredAs
  <2>2. Cardinality({}) = 0
    BY FS_EmptySet
  <2> QED BY <1>1, <2>1, <2>2 DEF Couples
<1> QED BY <1>1, <1>2, <1>3, <1>4 DEF DanceInv

LEMMA DanceKeeps ==
  ASSUME DanceInv,
         \/ Dance!Step(Dance!MainStep)
         \/ \E t \in Dance!Threads : Dance!Step(Dance!ThreadStep(t)) \/ Dance!Step(Dance!WakeSpuriously(t))
  PROVE  DanceInv'
<1>1. CASE Dance!Step(Dance!MainStep)
  <2>1. Dance!MainStep /\ program' = program
    BY <1>1 DEF Dance!Step
  <2>2. Lives(Dancers, DancePoints, TRUE)'
    BY <2>1, NumbersAssumption, DanceMain, MainLivesOn DEF DanceInv
  <2> QED BY <2>1, <2>2, DanceMainCounts DEF DanceInv
<1>2. ASSUME NEW t \in Dance!Threads,
             Dance!Step(Dance!ThreadStep(t)) \/ Dance!Step(Dance!WakeSpuriously(t))
      PROVE  DanceInv'
  <2>1. /\ Dance!ThreadStep(t) \/ Dance!WakeSpuriously(t)
        /\ program' = program /\ t \in Team(Dancers)
    BY <1>2 DEF Dance!Step, Dance!Threads, Team
  <2>2. Lives(Dancers, DancePoints, TRUE)'
    BY <2>1, NumbersAssumption, DanceThread, ThreadLivesOn DEF DanceInv
  <2>3. CASE Dance!Male(t) \/ Dance!Female(t) \/ Dance!LookAgain(t)
    BY <2>1, <2>2, <2>3, DanceLookCounts DEF DanceInv
  <2>4. CASE Dance!Dance(t)
    BY <2>1, <2>2, <2>4, DanceEnds DEF DanceInv
  <2>5. CASE Dance!WakeSpuriously(t)
    <3>1. PICK dances \in Nat : Couples(dances)
      BY DEF DanceInv
    <3>2. DanceTypes /\ at \in [Team(Dancers) -> DancePoints]
      BY DEF DanceInv, Lives
    <3>3. DancersStay /\ DanceTypes' /\ UNCHANGED <<shared, output>>
      BY <2>5, <3>2 DEF Dance!WakeSpuriously, Dance!Goes, DancersStay, DanceTypes
    <3>4. Couples(dances)'
      BY <3>1, <3>3, CouplesStay
    <3> QED BY <2>1, <2>2, <3>3, <3>4 DEF DanceInv
  <2> QED BY <2>1, <2>3, <2>4, <2>5 DEF Dance!ThreadStep
<1> QED BY <1>1, <1>2

LEMMA DancePromises ==
  ASSUME DanceInv
  PROVE  Dance!TypeOK /\ Dance!TeamsAreWhole /\ Dance!MemoryOutlivesThreads
<1>1. Dance!MemoryOutlivesThreads
  BY DEF DanceInv, Lives, AtRest, Dance!MemoryOutlivesThreads, Dance!Threads, Team
<1>2. PICK dances \in Nat : Couples(dances)
  BY DEF DanceInv
<1>3. DanceTypes
  BY DEF DanceInv
<1>4. Dance!TeamsAreWhole
  <2>1. /\ Dance!Entered("male") = Cardinality(MenEntered)
        /\ Dance!Entered("female") = Cardinality(WomenEntered)
        /\ Dance!Teams = Cardinality(OnTheFloor) + Len(output)
    <3>1. \A S : Dance!Cardinality(S) = Cardinality(S)
      BY DEF Dance!Cardinality, Cardinality
    <3> QED BY <3>1 DEF Dance!Entered, Dance!Teams, MenEntered, WomenEntered, EnteredAs,
           OnTheFloor,
                Dance!Threads, Team
  <2>2. shared.male_count >= 0 /\ shared.female_count >= 0
    BY <1>3 DEF DanceTypes
  <2> QED BY <1>2, <2>1, <2>2 DEF Dance!TeamsAreWhole, Couples
<1>5. Dance!TypeOK
  <2>1. DancePoints = {"lock", "waiting", "woken", "dance"} \cup {"unborn", "done"}
    BY DEF DancePoints
  <2>2. /\ main.at \in Places /\ main.next \in 0..Dancers /\ main.count \in 0..Dancers
        /\ main.error \in BOOLEAN /\ at \in [Team(Dancers) -> DancePoints]
    BY DEF DanceInv, Lives, Phases
  <2>3. shared.kind \in [Team(Dancers) -> Dance!Kinds] /\ output \in Reports(Dancers, {"dance"})
    BY <1>3 DEF DanceTypes
  <2>4. \A i \in DOMAIN output : output[i].by \in Team(Dancers)
    BY <2>3, ReportsBy, NumbersAssumption
  <2> QED BY <2>1, <2>2, <2>3, <2>4 DEF DanceInv, Places, Dance!TypeOK, Dance!CommonTypes,
         Dance!Threads, Team
<1> QED BY <1>1, <1>4, <1>5

-----------------------------------------------------------------------------
(* Building: the units of a semaphore are those it started with and those  *)
(* its task has posted, less those the tasks that depend on it have taken. *)
BuildingPoints == {"wait", "work", "post", "unborn", "done"}
Tasks == 0..9

Posted(u) ==
  IF at[u] = "post" THEN shared.loop[u] - 1 ELSE IF at[u] = "done" THEN Building!num_post(u) ELSE 0

Taken(t, i) ==
  IF at[t] = "unborn" \/ (at[t] = "wait" /\ shared.loop[t] <= i) THEN 0 ELSE 1

Units ==
  /\ shared.semaphore[0] = 1 + Posted(0) - Taken(1, 1) - Taken(2, 1)
  /\ shared.semaphore[1] = Posted(1) - Taken(3, 1) - Taken(6, 1)
  /\ shared.semaphore[2] = Posted(2) - Taken(5, 1)
  /\ shared.semaphore[3] = Posted(3) - Taken(4, 1)
  /\ shared.semaphore[4] = Posted(4)
  /\ shared.semaphore[5] = Posted(5) - Taken(7, 2)
  /\ shared.semaphore[6] = Posted(6) - Taken(7, 1)
  /\ shared.semaphore[7] = Posted(7) - Taken(8, 1)
  /\ shared.semaphore[8] = Posted(8) - Taken(9, 1)
  /\ shared.semaphore[9] = Posted(9)

BuildingTypes ==
  /\ shared \in [semaphore : [Tasks -> Nat], loop : [Tasks -> 1..3]]
  /\ output = <<>>
  /\ \A t \in Tasks :
       /\ at[t] = "unborn" => shared.loop[t] = 1
       /\ at[t] = "wait" => shared.loop[t] <= Len(Building!dependencias(t)) + 1
       /\ at[t] = "post" => shared.loop[t] <= Building!num_post(t) + 1

BuildingInv ==
  program \in Building!Programs /\ Lives(10, BuildingPoints, TRUE) /\ BuildingTypes /\ Units

(* The table of the tasks, as the code has it.                             *)
LEMMA TaskTable ==
  /\ Len(Building!dependencias(0)) = 0
  /\ Building!dependencias(1) = <<0>> /\ Building!dependencias(2) = <<0>>
  /\ Building!dependencias(3) = <<1>> /\ Building!dependencias(4) = <<3>>
  /\ Building!dependencias(5) = <<2>> /\ Building!dependencias(6) = <<1>>
  /\ Building!dependencias(7) = <<6, 5>> /\ Building!dependencias(8) = <<7>>
  /\ Building!dependencias(9) = <<8>>
  /\ Building!num_post(0) = 2 /\ Building!num_post(1) = 2 /\ Building!num_post(2) = 1
  /\ Building!num_post(3) = 1 /\ Building!num_post(4) = 0 /\ Building!num_post(5) = 1
  /\ Building!num_post(6) = 1 /\ Building!num_post(7) = 1 /\ Building!num_post(8) = 1
  /\ Building!num_post(9) = 0
BY DEF Building!dependencias, Building!num_post, Building!Dependencies, Building!Posts,
   Building!None,
   Building!obraGris, Building!plomeriaExt, Building!techo, Building!pinturaExt,
   Building!instalacionElectrica, Building!plomeriaInt, Building!pinturaInt, Building!piso

LEMMA TaskNumbers ==
  /\ Building!Tasks = Tasks /\ Building!Threads = Tasks /\ Team(10) = Tasks /\ 10 \in Nat
  /\ \A t \in Tasks : Len(Building!dependencias(t)) \in 0..2 /\ Building!num_post(t) \in 0..2
<1>1. /\ Building!Tasks = Tasks /\ Building!Threads = Tasks /\ Team(10) = Tasks /\ 10 \in Nat
  BY DEF Building!Tasks, Building!Threads, Team, Tasks, Building!obraGris,
     Building!acabadosInt
<1>2. \A t \in Tasks : t \in {0, 1, 2, 3, 4, 5, 6, 7, 8, 9}
  BY DEF Tasks
<1>3. \A t \in Tasks : Building!num_post(t) \in 0..2
  BY <1>2, TaskTable
<1>4. \A t \in Tasks : Len(Building!dependencias(t)) \in 0..2
  <2>1. \A a, b : Len(<<a>>) = 1 /\ Len(<<a, b>>) = 2
    OBVIOUS
  <2> QED BY <1>2, <2>1, TaskTable
<1> QED BY <1>1, <1>3, <1>4

LEMMA BuildingMain ==
  ASSUME Lives(10, BuildingPoints, TRUE), Building!MainStep
  PROVE  Moves(10, BuildingPoints, TRUE)
<1>n. 10 \in Nat /\ main \in Phases
  BY DEF Lives
<1>1. ASSUME NEW from, NEW to, MayGo(from, to), Building!Passes(from, to)
      PROVE  Moves(10, BuildingPoints, TRUE)
  BY <1>1, <1>n, MainGoesOn DEF Building!Passes, Building!MainGoes, GoesTo
<1>2. CASE Building!Passes("start", "create") \/ Building!Passes("create", "join")
           \/ Building!Passes("freed", "ended")
  BY <1>1, <1>2 DEF MayGo
<1>3. CASE Building!CreateNext("wait")
  BY <1>3 DEF Building!CreateNext, BuildingPoints, Moves, Creates
<1>4. CASE Building!MainFails("create", "ended") /\ UNCHANGED at
  <2>1. MayFail("create", "ended", TRUE) /\ at' = at /\ FailsTo("create", "ended")
    BY <1>4 DEF MayFail, Building!MainFails, FailsTo
  <2> QED BY <1>n, <2>1, MainFailsThen
<1>5. CASE Building!JoinNext
  <2>1. at' = at /\ (Joins \/ GoesTo("join", "undefined"))
    BY <1>5 DEF Building!JoinNext, Building!MainGoes, Joins, GoesTo
  <2> QED BY <1>n, <2>1, MainJoins
<1>6. CASE Building!JoinEnds("freed")
  BY <1>1, <1>6 DEF Building!JoinEnds, Building!Passes, Building!MainGoes, MayGo
<1> QED BY <1>2, <1>3, <1>4, <1>5, <1>6 DEF Building!MainStep

LEMMA BuildingThread ==
  ASSUME Lives(10, BuildingPoints, TRUE), NEW t \in Building!Threads, Building!ThreadStep(t)
  PROVE  Stays(10, BuildingPoints) /\ main' = main
BY TaskNumbers DEF Building!ThreadStep, Building!WaitDependency, Building!StartWork,
   Building!EndWork,
   Building!Post, Building!Goes, Stays, Lives, BuildingPoints

(* Nothing is posted and nothing taken by a thread that stays as it is.    *)
LEMMA OthersUnits ==
  ASSUME NEW u, at'[u] = at[u], shared'.loop[u] = shared.loop[u]
  PROVE  Posted(u)' = Posted(u) /\ \A i : Taken(u, i)' = Taken(u, i)
BY DEF Posted, Taken

LEMMA UnitsStay ==
  ASSUME Units, shared'.semaphore = shared.semaphore,
         \A u \in Tasks : Posted(u)' = Posted(u) /\ \A i \in 1..2 : Taken(u, i)' = Taken(u, i)
  PROVE  Units'
BY DEF Units, Tasks

LEMMA BuildingMainUnits ==
  ASSUME BuildingInv, Building!MainStep
  PROVE  BuildingTypes' /\ Units'
<1>1. BuildingTypes /\ Units /\ Lives(10, BuildingPoints, TRUE)
  BY DEF BuildingInv
<1>2. CASE UNCHANGED <<at, shared, output>>
  <2>1. Units'
    BY <1>1, <1>2, OthersUnits, UnitsStay
  <2> QED BY <1>1, <1>2, <2>1 DEF BuildingTypes
<1>3. CASE Building!CreateNext("wait") /\ UNCHANGED shared
  <2>1. /\ main.next \in Tasks /\ at[main.next] = "unborn" /\ output' = output
        /\ at' = [at EXCEPT ![main.next] = "wait"] /\ at \in [Tasks -> BuildingPoints]
    BY <1>1, <1>3, TaskNumbers DEF Building!CreateNext, Lives, Tasks
  <2>2. shared.loop[main.next] = 1 /\ shared' = shared
    BY <1>1, <1>3, <2>1 DEF BuildingTypes
  <2>3. BuildingTypes'
    BY <1>1, <2>1, <2>2, TaskNumbers DEF BuildingTypes
  <2>4. \A u \in Tasks : Posted(u)' = Posted(u) /\ \A i \in 1..2 : Taken(u, i)' = Taken(u, i)
    BY <2>1, <2>2 DEF Posted, Taken
  <2> QED BY <1>1, <2>2, <2>3, <2>4, UnitsStay
<1> QED BY <1>2, <1>3
        DEF Building!MainStep, Building!JoinNext, Building!JoinEnds, Building!Passes

LEMMA UnitNumbers ==
  ASSUME BuildingTypes, at \in [Tasks -> BuildingPoints]
  PROVE  /\ \A u \in Tasks : Posted(u) \in 0..2
         /\ \A t \in Tasks, i \in 1..2 : Taken(t, i) \in 0..1
<1>1. \A u \in Tasks : shared.loop[u] \in 1..3
  BY DEF BuildingTypes
<1>2. \A u \in Tasks : Posted(u) \in 0..2
  BY <1>1, TaskNumbers DEF Posted
<1>3. \A t \in Tasks, i \in 1..2 : Taken(t, i) \in 0..1
  BY DEF Taken
<1> QED BY <1>2, <1>3

(* A task takes a unit of a semaphore it depends on.                       *)
LEMMA TakesUnit ==
  ASSUME BuildingInv, NEW t \in Tasks, Building!WaitDependency(t),
         NEW k, NEW needed, k = shared.loop[t], needed = Building!dependencias(t)[k]
  PROVE  BuildingTypes' /\ Units'
<1>1. BuildingTypes /\ Units /\ at \in [Tasks -> BuildingPoints]
  BY TaskNumbers DEF BuildingInv, Lives
<1>2. /\ at[t] = "wait" /\ k <= Len(Building!dependencias(t)) /\ k \in 1..3
      /\ at' = at /\ output' = output /\ shared.semaphore[needed] > 0
      /\ shared' = [shared EXCEPT !.semaphore[needed] = @ - 1, !.loop[t] = @ + 1]
  BY <1>1 DEF Building!WaitDependency, BuildingTypes
<1>3. \/ (t = 1 /\ k = 1 /\ needed = 0) \/ (t = 2 /\ k = 1 /\ needed = 0)
      \/ (t = 3 /\ k = 1 /\ needed = 1) \/ (t = 4 /\ k = 1 /\ needed = 3)
      \/ (t = 5 /\ k = 1 /\ needed = 2) \/ (t = 6 /\ k = 1 /\ needed = 1)
      \/ (t = 7 /\ k = 1 /\ needed = 6) \/ (t = 7 /\ k = 2 /\ needed = 5)
      \/ (t = 8 /\ k = 1 /\ needed = 7) \/ (t = 9 /\ k = 1 /\ needed = 8)
  <2>1. t \in {0, 1, 2, 3, 4, 5, 6, 7, 8, 9}
    BY DEF Tasks
  <2>2. \A a, b : Len(<<a>>) = 1 /\ Len(<<a, b>>) = 2 /\ <<a>>[1] = a /\ <<a, b>>[1] = a
                  /\ <<a, b>>[2] = b
    OBVIOUS
  <2> QED BY <1>2, <2>1, <2>2, TaskTable
<1>4. /\ shared'.semaphore = [shared.semaphore EXCEPT ![needed] = @ - 1]
      /\ shared'.loop = [shared.loop EXCEPT ![t] = @ + 1]
      /\ shared' = [semaphore |-> shared'.semaphore, loop |-> shared'.loop]
  BY <1>1, <1>2 DEF BuildingTypes
<1>5. needed \in Tasks /\ k \in 1..2
  BY <1>3 DEF Tasks
<1>6. /\ shared'.semaphore \in [Tasks -> Nat] /\ shared'.loop \in [Tasks -> 1..3]
      /\ shared'.loop[t] = k + 1 /\ \A u \in Tasks \ {t} : shared'.loop[u] = shared.loop[u]
      /\ shared'.semaphore[needed] = shared.semaphore[needed] - 1
      /\ \A u \in Tasks \ {needed} : shared'.semaphore[u] = shared.semaphore[u]
  <2>1. shared.semaphore \in [Tasks -> Nat] /\ shared.loop \in [Tasks -> 1..3]
    BY <1>1 DEF BuildingTypes
  <2>2. shared.semaphore[needed] - 1 \in Nat /\ shared.loop[t] = k /\ shared.loop[t] + 1 \in 1..3
    BY <1>2, <1>5, <2>1
  <2> QED BY <1>4, <1>5, <2>1, <2>2
<1>7. BuildingTypes'
  <2>1. at'[t] = "wait" /\ shared'.loop[t] <= Len(Building!dependencias(t)) + 1
    BY <1>2, <1>6, TaskNumbers
  <2> QED BY <1>1, <1>2, <1>4, <1>6, <2>1 DEF BuildingTypes
<1>8. \A u \in Tasks : Posted(u)' = Posted(u)
  BY <1>2, <1>6 DEF Posted
<1>9. \A u \in Tasks, i \in 1..2 : u # t \/ i # k => Taken(u, i)' = Taken(u, i)
  BY <1>2, <1>5, <1>6 DEF Taken
<1>10. Taken(t, k) = 0 /\ Taken(t, k)' = 1
  <2>1. shared.loop[t] = k /\ ~(k + 1 <= k)
    BY <1>5
  <2> QED BY <1>2, <1>6, <2>1 DEF Taken
<1>11. Units'
  <2>1. /\ \A u \in Tasks : Posted(u) \in Int
        /\ \A u \in Tasks, i \in 1..2 : Taken(u, i) \in Int
    BY <1>1, UnitNumbers
  <2>2. \A u \in Tasks : shared.semaphore[u] \in Int
    BY <1>1 DEF BuildingTypes
  <2> QED BY <1>1, <1>3, <1>6, <1>8, <1>9, <1>10, <2>1, <2>2 DEF Units, Tasks
<1> QED BY <1>7, <1>11

(* A task posts a unit of its own semaphore.                               *)
LEMMA PostsUnit ==
  ASSUME BuildingInv, NEW t \in Tasks, Building!Post(t),
         shared.loop[t] <= Building!num_post(t)
  PROVE  BuildingTypes' /\ Units'
<1>1. BuildingTypes /\ Units /\ at \in [Tasks -> BuildingPoints]
  BY TaskNumbers DEF BuildingInv, Lives
<1>2. /\ at[t] = "post" /\ at' = at /\ output' = output
      /\ shared' = [shared EXCEPT !.semaphore[t] = @ + 1, !.loop[t] = @ + 1]
  BY DEF Building!Post
<1>3. /\ shared'.semaphore = [shared.semaphore EXCEPT ![t] = @ + 1]
      /\ shared'.loop = [shared.loop EXCEPT ![t] = @ + 1]
      /\ shared' = [semaphore |-> shared'.semaphore, loop |-> shared'.loop]
  BY <1>1, <1>2 DEF BuildingTypes
<1>4. /\ shared'.semaphore \in [Tasks -> Nat] /\ shared'.loop \in [Tasks -> 1..3]
      /\ shared'.loop[t] = shared.loop[t] + 1
      /\ \A u \in Tasks \ {t} : shared'.loop[u] = shared.loop[u]
      /\ shared'.semaphore[t] = shared.semaphore[t] + 1
      /\ \A u \in Tasks \ {t} : shared'.semaphore[u] = shared.semaphore[u]
  <2>1. shared.semaphore \in [Tasks -> Nat] /\ shared.loop \in [Tasks -> 1..3]
    BY <1>1 DEF BuildingTypes
  <2>2. shared.semaphore[t] + 1 \in Nat /\ shared.loop[t] + 1 \in 1..3
    BY <2>1, TaskNumbers
  <2> QED BY <1>3, <2>1, <2>2
<1>5. BuildingTypes'
  <2>1. at'[t] = "post" /\ shared'.loop[t] <= Building!num_post(t) + 1
    BY <1>1, <1>2, <1>4, TaskNumbers DEF BuildingTypes
  <2> QED BY <1>1, <1>2, <1>3, <1>4, <2>1 DEF BuildingTypes
<1>6. \A u \in Tasks \ {t} : Posted(u)' = Posted(u)
  BY <1>2, <1>4 DEF Posted
<1>7. Posted(t)' = Posted(t) + 1
  BY <1>1, <1>2, <1>4 DEF Posted, BuildingTypes
<1>8. \A u \in Tasks, i \in 1..2 : Taken(u, i)' = Taken(u, i)
  BY <1>2, <1>4 DEF Taken
<1>9. Units'
  <2>1. /\ \A u \in Tasks : Posted(u) \in Int
        /\ \A u \in Tasks, i \in 1..2 : Taken(u, i) \in Int
    BY <1>1, UnitNumbers
  <2>2. \A u \in Tasks : shared.semaphore[u] \in Int
    BY <1>1 DEF BuildingTypes
  <2>3. t \in {0, 1, 2, 3, 4, 5, 6, 7, 8, 9}
    BY DEF Tasks
  <2> QED BY <1>1, <1>4, <1>6, <1>7, <1>8, <2>1, <2>2, <2>3 DEF Units, Tasks
<1> QED BY <1>5, <1>9

(* A task begins to work, ends its work, or ends.                          *)
LEMMA WorkUnits ==
  ASSUME BuildingInv, NEW t \in Tasks,
         \/ Building!StartWork(t) \/ Building!EndWork(t)
         \/ Building!Post(t) /\ ~(shared.loop[t] <= Building!num_post(t))
  PROVE  BuildingTypes' /\ Units'
<1>1. BuildingTypes /\ Units /\ at \in [Tasks -> BuildingPoints]
  BY TaskNumbers DEF BuildingInv, Lives
<1>2. /\ shared.loop[t] \in 1..3 /\ shared.loop \in [Tasks -> 1..3]
      /\ shared.semaphore \in [Tasks -> Nat]
  BY <1>1 DEF BuildingTypes
<1>3. CASE Building!StartWork(t)
  <2>1. /\ at[t] = "wait" /\ at' = [at EXCEPT ![t] = "work"] /\ shared' = shared
        /\ shared.loop[t] > Len(Building!dependencias(t)) /\ output' = output
    BY <1>3 DEF Building!StartWork, Building!Goes
  <2>2. BuildingTypes'
    BY <1>1, <2>1 DEF BuildingTypes
  <2>3. \A u \in Tasks : Posted(u)' = Posted(u)
    BY <1>1, <2>1 DEF Posted
  <2>4. \A u \in Tasks \ {t}, i \in 1..2 : Taken(u, i)' = Taken(u, i)
    BY <1>1, <2>1 DEF Taken
  <2>5. \A i \in 1..Len(Building!dependencias(t)) : Taken(t, i)' = Taken(t, i)
    <3>1. \A i \in 1..Len(Building!dependencias(t)) : ~(shared.loop[t] <= i)
      BY <1>2, <2>1, TaskNumbers
    <3>2. at'[t] = "work"
      BY <1>1, <2>1
    <3> QED BY <2>1, <3>1, <3>2 DEF Taken
  <2>6. Units'
    <3>1. t \in {0, 1, 2, 3, 4, 5, 6, 7, 8, 9}
      BY DEF Tasks
    <3>2. \A a, b : Len(<<a>>) = 1 /\ Len(<<a, b>>) = 2
      OBVIOUS
    <3>3. /\ t # 0 => 1 \in 1..Len(Building!dependencias(t))
          /\ t = 7 => 2 \in 1..Len(Building!dependencias(t))
      <4>1. /\ \A u \in {1, 2, 3, 4, 5, 6, 8, 9} : Len(Building!dependencias(u)) = 1
            /\ Len(Building!dependencias(7)) = 2
        BY <3>2, TaskTable
      <4>2. t # 0 => Len(Building!dependencias(t)) \in {1, 2}
        BY <3>1, <4>1
      <4>3. t = 7 => Len(Building!dependencias(t)) = 2
        BY <4>1
      <4>4. \A n \in {1, 2} : 1 \in 1..n
        OBVIOUS
      <4>5. 2 \in 1..2
        OBVIOUS
      <4> QED BY <4>2, <4>3, <4>4, <4>5, Zenon
    <3>4. t # 0 => Taken(t, 1)' = Taken(t, 1)
      BY <2>5, <3>3
    <3>5. t = 7 => Taken(t, 2)' = Taken(t, 2)
      BY <2>5, <3>3
    <3>6. /\ Taken(1, 1)' = Taken(1, 1) /\ Taken(2, 1)' = Taken(2, 1) /\ Taken(3, 1)' = Taken(3, 1)
          /\ Taken(4, 1)' = Taken(4, 1) /\ Taken(5, 1)' = Taken(5, 1) /\ Taken(6, 1)' = Taken(6, 1)
          /\ Taken(7, 1)' = Taken(7, 1) /\ Taken(8, 1)' = Taken(8, 1) /\ Taken(9, 1)' = Taken(9, 1)
          /\ Taken(7, 2)' = Taken(7, 2)
      BY <2>4, <3>1, <3>4, <3>5 DEF Tasks
    <3> QED BY <1>1, <2>1, <2>3, <3>6 DEF Units, Tasks
  <2> QED BY <2>2, <2>6
<1>4. CASE Building!EndWork(t)
  <2>1. /\ at[t] = "work" /\ at' = [at EXCEPT ![t] = "post"] /\ output' = output
        /\ shared' = [shared EXCEPT !["loop"] = [shared.loop EXCEPT ![t] = 1]]
    BY <1>4 DEF Building!EndWork, Building!Goes, Building!Field, Building!Loop
  <2>2. /\ shared'.semaphore = shared.semaphore /\ shared'.loop = [shared.loop EXCEPT ![t] = 1]
        /\ shared' = [semaphore |-> shared'.semaphore, loop |-> shared'.loop]
    BY <1>1, <2>1 DEF BuildingTypes
  <2>3. at'[t] = "post" /\ shared'.loop[t] = 1 /\ 1 <= Building!num_post(t) + 1
    BY <1>1, <1>2, <2>1, <2>2, TaskNumbers
  <2>4. /\ \A u \in Tasks \ {t} : at'[u] = at[u] /\ shared'.loop[u] = shared.loop[u]
        /\ shared'.loop \in [Tasks -> 1..3]
    BY <1>1, <1>2, <2>1, <2>2
  <2>5. BuildingTypes'
    BY <1>1, <1>2, <2>1, <2>2, <2>3, <2>4 DEF BuildingTypes
  <2>6. \A u \in Tasks : Posted(u)' = Posted(u)
    BY <2>1, <2>3, <2>4 DEF Posted
  <2>7. \A u \in Tasks, i \in 1..2 : Taken(u, i)' = Taken(u, i)
    BY <2>1, <2>3, <2>4 DEF Taken
  <2> QED BY <1>1, <2>2, <2>5, <2>6, <2>7, UnitsStay
<1>5. CASE Building!Post(t) /\ ~(shared.loop[t] <= Building!num_post(t))
  <2>1. /\ at[t] = "post" /\ at' = [at EXCEPT ![t] = "done"] /\ shared' = shared /\ output' = output
    BY <1>5 DEF Building!Post, Building!Goes
  <2>2. BuildingTypes'
    BY <1>1, <2>1 DEF BuildingTypes
  <2>3. shared.loop[t] - 1 = Building!num_post(t)
    <3>1. shared.loop[t] <= Building!num_post(t) + 1
      BY <1>1, <2>1 DEF BuildingTypes
    <3> QED BY <3>1, <1>2, <1>5, TaskNumbers
  <2>4. \A u \in Tasks : Posted(u)' = Posted(u)
    BY <1>1, <2>1, <2>3 DEF Posted
  <2>5. \A u \in Tasks, i \in 1..2 : Taken(u, i)' = Taken(u, i)
    BY <1>1, <2>1 DEF Taken
  <2> QED BY <1>1, <2>1, <2>2, <2>4, <2>5, UnitsStay
<1> QED BY <1>3, <1>4, <1>5

LEMMA BuildingInitially ==
  Building!Init => BuildingInv
<1> SUFFICES ASSUME Building!Init PROVE BuildingInv
  OBVIOUS
<1>1. /\ main = [at |-> "start", next |-> 0, count |-> 10, error |-> FALSE]
      /\ at = [t \in Tasks |-> "unborn"] /\ output = <<>>
      /\ shared = [semaphore |-> [t \in Tasks |-> IF t = 0 THEN 1 ELSE 0],
                   loop |-> [t \in Tasks |-> 1]]
      /\ program \in Building!Programs
  BY TaskNumbers DEF Building!Init, Building!Starts, Building!obraGris
<1>2. Lives(10, BuildingPoints, TRUE)
  BY <1>1, TaskNumbers DEF Lives, Phases, Places, BuildingPoints
<1>3. BuildingTypes
  BY <1>1 DEF BuildingTypes
<1>4. Units
  BY <1>1 DEF Units, Posted, Taken, Tasks
<1> QED BY <1>1, <1>2, <1>3, <1>4 DEF BuildingInv

LEMMA BuildingKeeps ==
  ASSUME BuildingInv,
         \/ Building!Step(Building!MainStep)
         \/ \E t \in Building!Threads : Building!Step(Building!ThreadStep(t))
  PROVE  BuildingInv'
<1>1. CASE Building!Step(Building!MainStep)
  <2>1. Building!MainStep /\ program' = program
    BY <1>1 DEF Building!Step
  <2>2. Lives(10, BuildingPoints, TRUE)'
    BY <2>1, TaskNumbers, BuildingMain, MainLivesOn DEF BuildingInv
  <2> QED BY <2>1, <2>2, BuildingMainUnits DEF BuildingInv
<1>2. ASSUME NEW t \in Building!Threads, Building!Step(Building!ThreadStep(t))
      PROVE  BuildingInv'
  <2>1. Building!ThreadStep(t) /\ program' = program /\ t \in Tasks
    BY <1>2, TaskNumbers DEF Building!Step
  <2>2. Lives(10, BuildingPoints, TRUE)'
    BY <2>1, TaskNumbers, BuildingThread, ThreadLivesOn DEF BuildingInv
  <2>3. PICK k, needed : k = shared.loop[t] /\ needed = Building!dependencias(t)[k]
    OBVIOUS
  <2>4. BuildingTypes' /\ Units'
    BY <2>1, <2>3, TakesUnit, PostsUnit, WorkUnits DEF Building!ThreadStep
  <2> QED BY <2>1, <2>2, <2>4 DEF BuildingInv
<1> QED BY <1>1, <1>2

LEMMA BuildingPromises ==
  ASSUME BuildingInv
  PROVE  Building!TypeOK /\ Building!TurnsRespected /\ Building!MemoryOutlivesThreads
<1>1. Building!MemoryOutlivesThreads
  BY TaskNumbers DEF BuildingInv, Lives, AtRest, Building!MemoryOutlivesThreads
<1>2. BuildingTypes /\ Units /\ at \in [Tasks -> BuildingPoints]
  BY TaskNumbers DEF BuildingInv, Lives
<1>3. /\ \A u \in Tasks : Posted(u) \in 0..2
      /\ \A u \in Tasks, i \in 1..2 : Taken(u, i) \in 0..1
      /\ shared.semaphore \in [Tasks -> Nat] /\ shared.loop \in [Tasks -> 1..3]
  BY <1>2, UnitNumbers DEF BuildingTypes
<1>4. Building!TypeOK
  <2>1. BuildingPoints = {"wait", "work", "post"} \cup {"unborn", "done"}
    BY DEF BuildingPoints
  <2>2. /\ main.at \in Places /\ main.next \in 0..10 /\ main.count \in 0..10
        /\ main.error \in BOOLEAN /\ at \in [Tasks -> BuildingPoints]
    BY <1>2 DEF BuildingInv, Lives, Phases
  <2>3. shared.semaphore \in [Tasks -> 0..3]
    <3>1. \A u \in Tasks : shared.semaphore[u] \in Nat
      BY <1>3
    <3>2. \A u \in Tasks : u \in {0, 1, 2, 3, 4, 5, 6, 7, 8, 9}
      BY DEF Tasks
    <3>3. \A u \in Tasks : shared.semaphore[u] <= 3
      BY <1>2, <1>3, <3>1, <3>2 DEF Units, Tasks
    <3> QED BY <1>3, <3>1, <3>3
  <2>4. output = <<>>
    BY <1>2 DEF BuildingTypes
  <2> QED BY <1>3, <2>1, <2>2, <2>3, <2>4, TaskNumbers
          DEF BuildingInv, Places, Building!TypeOK, Building!CommonTypes
<1>5. Building!TurnsRespected
  <2>1. \A u \in Tasks : Posted(u) >= 1 => Building!HasEnded(u)
    BY DEF Posted, Building!HasEnded
  <2>2. /\ Taken(3, 1) = 1 => Building!HasEnded(1)
        /\ Taken(6, 1) = 1 => Building!HasEnded(1)
        /\ Taken(5, 1) = 1 => Building!HasEnded(2)
        /\ Taken(4, 1) = 1 => Building!HasEnded(3)
        /\ Taken(7, 1) = 1 => Building!HasEnded(6)
        /\ Taken(7, 2) = 1 => Building!HasEnded(5)
        /\ Taken(8, 1) = 1 => Building!HasEnded(7)
        /\ Taken(9, 1) = 1 => Building!HasEnded(8)
    <3>1. \A u \in Tasks : shared.semaphore[u] \in Nat
      BY <1>3
    <3> QED BY <1>2, <1>3, <2>1, <3>1 DEF Units, Tasks
  <2>3. ASSUME NEW t \in Tasks, at[t] \in {"work", "post", "done"},
               NEW i \in DOMAIN Building!dependencias(t), Building!dependencias(t)[i] # 0
        PROVE  Building!HasEnded(Building!dependencias(t)[i])
    <3>1. \A j : Taken(t, j) = 1
      BY <2>3 DEF Taken
    <3>2. t \in {0, 1, 2, 3, 4, 5, 6, 7, 8, 9}
      BY DEF Tasks
    <3>3. \A a, b : /\ DOMAIN <<a>> = {1} /\ DOMAIN <<a, b>> = {1, 2}
                    /\ <<a>>[1] = a /\ <<a, b>>[1] = a /\ <<a, b>>[2] = b
      OBVIOUS
    <3>4. Building!dependencias(0) = <<>>
      BY DEF Building!dependencias, Building!Dependencies, Building!None
    <3>5. DOMAIN <<>> = {}
      OBVIOUS
    <3> HIDE DEF Building!HasEnded
    <3> QED BY <2>2, <2>3, <3>1, <3>2, <3>3, <3>4, <3>5, TaskTable
  <2> QED BY <2>3, TaskNumbers DEF Building!TurnsRespected, Building!obraGris
<1> QED BY <1>1, <1>4, <1>5

-----------------------------------------------------------------------------
(* Division: what the places of a buffer are counted with.                 *)
LEMMA Division ==
  ASSUME NEW a \in Int, NEW b \in Int, b > 0
  PROVE  a = (a \div b) * b + (a % b) /\ a \div b \in Int /\ a % b \in 0..b - 1
<1>1. a = (a \div b) * b + (a % b)
  OBVIOUS
<1>2. a \div b \in Int /\ a % b \in 0..b - 1
  OBVIOUS
<1> QED BY <1>1, <1>2

LEMMA DivisionUnique ==
  ASSUME NEW b \in Int, b > 0, NEW q \in Int, NEW r \in 0..b - 1,
         NEW p \in Int, NEW s \in 0..b - 1, q * b + r = p * b + s
  PROVE  q = p /\ r = s
<1>1. ASSUME NEW x \in Int, NEW y \in Int, NEW v \in 0..b - 1, NEW w \in 0..b - 1,
             x * b + v = y * b + w, x >= y + 1
      PROVE  FALSE
  <2>1. x * b >= (y + 1) * b
    BY <1>1
  <2>2. (y + 1) * b = y * b + b
    OBVIOUS
  <2>3. x * b \in Int /\ y * b \in Int
    OBVIOUS
  <2> QED BY <1>1, <2>1, <2>2, <2>3
<1>2. ~(q >= p + 1) /\ ~(p >= q + 1)
  BY <1>1
<1>3. q = p
  BY <1>2
<1> QED BY <1>3

LEMMA NextRemainder ==
  ASSUME NEW a \in Nat, NEW b \in Int, b > 0
  PROVE  (a + 1) % b = IF (a % b) + 1 = b THEN 0 ELSE (a % b) + 1
<1> DEFINE r == a % b
           q == a \div b
           s == (a + 1) % b
           p == (a + 1) \div b
<1>1. a = q * b + r /\ q \in Int /\ r \in 0..b - 1
  BY Division
<1>2. a + 1 = p * b + s /\ p \in Int /\ s \in 0..b - 1
  <2>1. a + 1 \in Int
    OBVIOUS
  <2> QED BY <2>1, Division
<1> HIDE DEF r, q, s, p
<1>3. CASE r + 1 = b
  <2>1. (q + 1) * b + 0 = q * b + b
    BY <1>1
  <2>2. q * b \in Int /\ p * b \in Int /\ (q + 1) * b \in Int
    BY <1>1, <1>2
  <2>3. (q + 1) * b + 0 = p * b + s
    BY <2>1, <2>2, <1>1, <1>2, <1>3
  <2>4. q + 1 \in Int /\ 0 \in 0..b - 1
    BY <1>1
  <2>5. s = 0
    BY <2>3, <2>4, <1>2, DivisionUnique
  <2> QED BY <1>3, <2>5 DEF r, s
<1>4. CASE r + 1 # b
  <2> DEFINE next == r + 1
  <2>1. q * b \in Int /\ p * b \in Int
    BY <1>1, <1>2
  <2>2. q * b + next = p * b + s /\ next \in 0..b - 1
    BY <2>1, <1>1, <1>2, <1>4
  <2> HIDE DEF next
  <2>3. next = s
    BY <2>2, <1>1, <1>2, DivisionUnique
  <2> QED BY <1>4, <2>3 DEF r, s, next
<1> QED BY <1>3, <1>4

LEMMA SameRemainders ==
  ASSUME NEW a \in Nat, NEW c \in Nat, NEW b \in Int, b > 0
  PROVE  (a + 1) % b = (c + 1) % b <=> a % b = c % b
<1> DEFINE r == a % b
           s == c % b
<1>1. (a + 1) % b = IF r + 1 = b THEN 0 ELSE r + 1
  BY NextRemainder
<1>2. (c + 1) % b = IF s + 1 = b THEN 0 ELSE s + 1
  BY NextRemainder
<1>3. r \in 0..b - 1 /\ s \in 0..b - 1
  OBVIOUS
<1> HIDE DEF r, s
<1>4. (IF r + 1 = b THEN 0 ELSE r + 1) = (IF s + 1 = b THEN 0 ELSE s + 1) <=> r = s
  BY <1>3
<1> QED BY <1>1, <1>2, <1>4 DEF r, s

-----------------------------------------------------------------------------
(* The bounded buffer: a place holds nothing, or a product made for it,    *)
(* and never an older one than was seen there before.  IndexAfter(n - 1)   *)
(* is the place that the product n was made for, and that was read the     *)
(* n-th time.                                                              *)
BoundPoints == {"running", "consuming", "unborn", "done"}
Product == 0..Bound!Products
IndexAt(n) == Bound!IndexAfter(n - 1)

BoundTypes ==
  /\ shared \in [buffer : [Bound!Indexes -> Product], count : Product, reads : Product,
                 value : Product]
  /\ output \in Reports(2, Product)

SeenAt(v, n) == v <= shared.buffer[IndexAt(n)] /\ (v > 0 => IndexAt(v) = IndexAt(n))

Consuming ==
  /\ SeenAt(shared.value, shared.reads)
  /\ \A i \in 1..Len(output) : IndexAt(i) = IndexAt(shared.reads) => output[i].says <= shared.value

BoundPlaces ==
  /\ \A i \in Bound!Indexes :
       /\ shared.buffer[i] <= shared.count
       /\ shared.buffer[i] > 0 => IndexAt(shared.buffer[i]) = i
  /\ shared.reads = IF at[1] = "consuming" THEN Len(output) + 1 ELSE Len(output)
  /\ at[1] = "consuming" => Consuming
  /\ \A i \in 1..Len(output) : SeenAt(output[i].says, i)
  /\ \A i, j \in 1..Len(output) :
       i < j /\ IndexAt(i) = IndexAt(j) => output[i].says <= output[j].says

BoundInv ==
  program \in Bound!Programs /\ Lives(2, BoundPoints, FALSE) /\ BoundTypes /\ BoundPlaces

LEMMA BoundMain ==
  ASSUME Lives(2, BoundPoints, FALSE), Bound!MainStep
  PROVE  Moves(2, BoundPoints, FALSE)
<1>n. 2 \in Nat /\ main \in Phases
  BY DEF Lives
<1>1. ASSUME NEW from, NEW to, MayGo(from, to), Bound!Passes(from, to)
      PROVE  Moves(2, BoundPoints, FALSE)
  BY <1>1, <1>n, MainGoesOn DEF Bound!Passes, Bound!MainGoes, GoesTo
<1>2. ASSUME NEW from, NEW to, MayFail(from, to, FALSE), Bound!MainFails(from, to), at' = at
      PROVE  Moves(2, BoundPoints, FALSE)
  BY <1>2, <1>n, MainFailsThen DEF Bound!MainFails, FailsTo
<1>3. CASE Bound!AnalyzeArguments
  BY <1>2, <1>3 DEF Bound!AnalyzeArguments, MayFail
<1>4. CASE Bound!CreateThreads
  <2>1. CASE Bound!CreateNext("running")
    BY <2>1 DEF Bound!CreateNext, BoundPoints, Moves, Creates
  <2>2. CASE Bound!MainFails("create", "free") /\ at' = at
    BY <1>2, <2>2 DEF MayFail
  <2>3. CASE Bound!JoinNext
    <3>1. at' = at /\ (Joins \/ GoesTo("join", "undefined"))
      BY <2>3 DEF Bound!JoinNext, Bound!MainGoes, Joins, GoesTo
    <3> QED BY <1>n, <3>1, MainJoins
  <2>4. CASE Bound!JoinEnds("free")
    BY <1>1, <2>4 DEF Bound!JoinEnds, Bound!Passes, Bound!MainGoes, MayGo
  <2>5. CASE Bound!Passes("create", "join")
    BY <1>1, <2>5 DEF MayGo
  <2> QED BY <1>4, <2>1, <2>2, <2>3, <2>4, <2>5 DEF Bound!CreateThreads
<1>5. CASE \/ Bound!Passes("start", "create")
           \/ Bound!Passes("free", "freed") \/ Bound!Passes("freed", "ended")
  BY <1>1, <1>5 DEF MayGo
<1> QED BY <1>3, <1>4, <1>5 DEF Bound!MainStep

LEMMA BoundThread ==
  ASSUME Lives(2, BoundPoints, FALSE), NEW t \in Bound!Threads, Bound!ThreadStep(t)
  PROVE  Stays(2, BoundPoints) /\ main' = main
<1>1. Team(2) = {0, 1} /\ t \in {0, 1}
  BY DEF Team, Bound!Threads
<1> QED BY <1>1 DEF Bound!ThreadStep, Bound!Produce, Bound!Read, Bound!Consume,
       Bound!Return, Bound!Goes,
           Stays, Lives, BoundPoints, Bound!producer, Bound!consumer

LEMMA BufferNumbers ==
  /\ Bound!Products \in Nat /\ \A n \in Nat : Bound!IndexAfter(n) \in Bound!Indexes
  /\ Bound!Indexes = 0..BufferCapacity - 1
<1>1. BufferCapacity \in Int /\ BufferCapacity > 0 /\ Rounds \in Nat
  BY NumbersAssumption
<1>2. \A n \in Nat : n % BufferCapacity \in 0..BufferCapacity - 1
  BY <1>1, Division
<1>3. BufferCapacity * Rounds \in Nat
  BY <1>1
<1> QED BY <1>2, <1>3 DEF Bound!Products, Bound!IndexAfter, Bound!Indexes

LEMMA BoundStays ==
  ASSUME BoundTypes, BoundPlaces, UNCHANGED <<shared, output>>,
         at'[1] = "consuming" <=> at[1] = "consuming"
  PROVE  BoundTypes' /\ BoundPlaces'
BY DEF BoundTypes, BoundPlaces, Consuming, SeenAt

LEMMA BoundOutput ==
  ASSUME BoundTypes
  PROVE  /\ Len(output) \in Nat /\ DOMAIN output = 1..Len(output)
         /\ \A i \in 1..Len(output) : output[i].says \in Product
<1> DEFINE Said == [by : Team(2), says : Product]
<1>1. output \in Seq(Said)
  BY DEF BoundTypes, Reports
<1>2. \A report \in Said : report.says \in Product
  OBVIOUS
<1> HIDE DEF Said
<1>3. Len(output) \in Nat /\ DOMAIN output = 1..Len(output)
      /\ \A i \in 1..Len(output) : output[i] \in Said
  BY <1>1
<1> QED BY <1>2, <1>3

LEMMA IndexAts ==
  /\ \A n \in Nat : IndexAt(n + 1) = Bound!IndexAfter(n)
  /\ \A n \in Nat \ {0} : IndexAt(n) \in Bound!Indexes
<1>1. \A n \in Nat : (n + 1) - 1 = n
  OBVIOUS
<1>2. \A n \in Nat \ {0} : n - 1 \in Nat
  OBVIOUS
<1> QED BY <1>1, <1>2, BufferNumbers DEF IndexAt

LEMMA ProduceKeeps ==
  ASSUME BoundTypes, BoundPlaces, at \in [Team(2) -> BoundPoints], Bound!Produce
  PROVE  BoundTypes' /\ BoundPlaces'
<1> DEFINE c == shared.count
           q == Bound!IndexAfter(shared.count)
<1>1. /\ shared \in [buffer : [Bound!Indexes -> Product], count : Product, reads : Product,
                     value : Product]
      /\ c \in Nat /\ c \in Product /\ c + 1 \in Product /\ Bound!Products \in Nat
  BY BufferNumbers DEF BoundTypes, Bound!Produce, Product
<1>2. /\ at'[1] = at[1] /\ output' = output
      /\ shared' = [shared EXCEPT !.buffer[q] = c + 1, !.count = c + 1]
  BY DEF Bound!Produce, Bound!Goes, Bound!producer, Team
<1>3. q \in Bound!Indexes /\ IndexAt(c + 1) = q
  BY <1>1, BufferNumbers, IndexAts
<1> HIDE DEF c, q
<1>4. shared' = [buffer |-> [shared.buffer EXCEPT ![q] = c + 1], count |-> c + 1,
                 reads |-> shared.reads, value |-> shared.value]
  BY <1>1, <1>2
<1>5. /\ shared'.buffer = [shared.buffer EXCEPT ![q] = c + 1] /\ shared'.count = c + 1
      /\ shared'.reads = shared.reads /\ shared'.value = shared.value
  BY <1>4
<1>6. /\ shared.buffer \in [Bound!Indexes -> Product] /\ shared.reads \in Product
      /\ shared.value \in Product
  BY <1>1
<1>7. shared'.buffer \in [Bound!Indexes -> Product]
  BY <1>1, <1>3, <1>5, <1>6
<1>8. BoundTypes'
  <2>1. BoundTypes
    OBVIOUS
  <2> QED BY <2>1, <1>1, <1>2, <1>4, <1>5, <1>6, <1>7 DEF BoundTypes
<1>9. /\ \A i \in Bound!Indexes : shared.buffer[i] <= c /\ shared.buffer[i] \in Nat
      /\ \A i \in Bound!Indexes : shared.buffer[i] > 0 => IndexAt(shared.buffer[i]) = i
  BY <1>6 DEF BoundPlaces, c, Product
<1>10. \A i \in Bound!Indexes : shared'.buffer[i] = IF i = q THEN c + 1 ELSE shared.buffer[i]
  BY <1>3, <1>5, <1>6
<1>11. \A i \in Bound!Indexes : shared.buffer[i] <= shared'.buffer[i] /\ shared'.buffer[i] \in Nat
  BY <1>1, <1>9, <1>10
<1>12. \A i \in Bound!Indexes : shared'.buffer[i] <= shared'.count
  BY <1>1, <1>5, <1>9, <1>10
<1>13. \A i \in Bound!Indexes : shared'.buffer[i] > 0 => IndexAt(shared'.buffer[i]) = i
  BY <1>3, <1>9, <1>10
<1>14. ASSUME NEW v \in Product, NEW n \in Nat \ {0}, SeenAt(v, n)
       PROVE  SeenAt(v, n)'
  <2>1. IndexAt(n) \in Bound!Indexes
    BY IndexAts
  <2>2. shared.buffer[IndexAt(n)] <= shared'.buffer[IndexAt(n)] /\ shared.buffer[IndexAt(n)] \in Nat
        /\ shared'.buffer[IndexAt(n)] \in Nat
    BY <1>9, <1>11, <2>1
  <2>3. v \in Nat
    BY DEF Product
  <2>4. v <= shared.buffer[IndexAt(n)] /\ (v > 0 => IndexAt(v) = IndexAt(n))
    BY <1>14 DEF SeenAt
  <2>5. v <= shared'.buffer[IndexAt(n)]
    BY <2>2, <2>3, <2>4
  <2> QED BY <2>4, <2>5 DEF SeenAt
<1>15. /\ Len(output) \in Nat
       /\ \A i \in 1..Len(output) : output[i].says \in Product /\ i \in Nat \ {0}
  BY BoundOutput
<1>16. \A i \in 1..Len(output) : SeenAt(output[i].says, i)'
  BY <1>2, <1>14, <1>15 DEF BoundPlaces
<1>17. at[1] = "consuming" => Consuming'
  <2> SUFFICES ASSUME at[1] = "consuming" PROVE Consuming'
    OBVIOUS
  <2>1. shared.reads \in Nat \ {0}
    BY <1>15 DEF BoundPlaces
  <2>2. SeenAt(shared.value, shared.reads)
    BY DEF BoundPlaces, Consuming
  <2>3. SeenAt(shared.value, shared.reads)'
    BY <1>5, <1>6, <1>14, <2>1, <2>2 DEF SeenAt
  <2>4. \A i \in 1..Len(output) : IndexAt(i) = IndexAt(shared.reads) => output[i].says <= shared.value
    BY DEF BoundPlaces, Consuming
  <2> QED BY <1>2, <1>5, <2>3, <2>4 DEF Consuming
<1>18. /\ shared.reads = IF at[1] = "consuming" THEN Len(output) + 1 ELSE Len(output)
       /\ \A i, j \in 1..Len(output) :
            i < j /\ IndexAt(i) = IndexAt(j) => output[i].says <= output[j].says
  BY DEF BoundPlaces
<1>19. BoundPlaces'
  BY <1>2, <1>5, <1>12, <1>13, <1>16, <1>17, <1>18 DEF BoundPlaces
<1> QED BY <1>8, <1>19

LEMMA ReadKeeps ==
  ASSUME BoundTypes, BoundPlaces, at \in [Team(2) -> BoundPoints], Bound!Read
  PROVE  BoundTypes' /\ BoundPlaces'
<1> DEFINE n == shared.reads
           q == Bound!IndexAfter(shared.reads)
<1>1. /\ shared \in [buffer : [Bound!Indexes -> Product], count : Product, reads : Product,
                     value : Product]
      /\ n \in Nat /\ n \in Product /\ n + 1 \in Product /\ Bound!Products \in Nat
  BY BufferNumbers DEF BoundTypes, Bound!Read, Product
<1>2. /\ at[1] = "running" /\ at'[1] = "consuming" /\ output' = output
      /\ shared' = [shared EXCEPT !.value = shared.buffer[q], !.reads = n + 1]
  BY DEF Bound!Read, Bound!Goes, Bound!consumer, Team
<1>3. q \in Bound!Indexes /\ IndexAt(n + 1) = q
  BY <1>1, BufferNumbers, IndexAts
<1> HIDE DEF n, q
<1>4. shared' = [buffer |-> shared.buffer, count |-> shared.count, reads |-> n + 1,
                 value |-> shared.buffer[q]]
  BY <1>1, <1>2
<1>5. /\ shared'.buffer = shared.buffer /\ shared'.count = shared.count
      /\ shared'.reads = n + 1 /\ shared'.value = shared.buffer[q]
  BY <1>4
<1>6. BoundTypes'
  <2>1. shared.buffer[q] \in Product
    BY <1>1, <1>3
  <2> QED BY <1>1, <1>2, <1>4, <2>1 DEF BoundTypes
<1>7. n = Len(output)
  BY <1>2 DEF BoundPlaces, n
<1>8. SeenAt(shared.value, shared.reads)'
  <2>1. shared.buffer[q] \in Nat
    BY <1>1, <1>3 DEF Product
  <2>2. shared.buffer[q] > 0 => IndexAt(shared.buffer[q]) = q
    BY <1>3 DEF BoundPlaces
  <2>3. shared.buffer[q] <= shared.buffer[q]
    BY <2>1
  <2> QED BY <1>3, <1>5, <2>2, <2>3 DEF SeenAt
<1>9. \A i \in 1..Len(output) : SeenAt(output[i].says, i)
  BY DEF BoundPlaces
<1>10. Consuming'
  <2>1. \A i \in 1..Len(output) : IndexAt(i) = q => output[i].says <= shared.buffer[q]
    BY <1>9 DEF SeenAt
  <2> QED BY <1>2, <1>3, <1>5, <1>8, <2>1 DEF Consuming
<1>11. \A i \in 1..Len(output) : SeenAt(output[i].says, i)'
  BY <1>2, <1>5, <1>9 DEF SeenAt
<1>12. BoundPlaces'
  BY <1>2, <1>5, <1>7, <1>10, <1>11 DEF BoundPlaces
<1> QED BY <1>6, <1>12

LEMMA ConsumeKeeps ==
  ASSUME BoundTypes, BoundPlaces, at \in [Team(2) -> BoundPoints], Bound!Consume
  PROVE  BoundTypes' /\ BoundPlaces'
<1> DEFINE n == Len(output)
<1>1. /\ at[1] = "consuming" /\ at'[1] = "running" /\ shared' = shared
      /\ output' = Append(output, [by |-> 1, says |-> shared.value])
  BY DEF Bound!Consume, Bound!Goes, Bound!consumer, Bound!Report, Team
<1>2. shared.value \in Product /\ output \in Reports(2, Product) /\ 1 \in Team(2) /\ n \in Nat
  BY BoundOutput DEF BoundTypes, Team
<1>3. /\ output' \in Reports(2, Product) /\ Len(output') = n + 1
      /\ output'[n + 1].says = shared.value /\ \A i \in 1..n : output'[i] = output[i]
  <2> DEFINE Said == [by : Team(2), says : Product]
             report == [by |-> 1, says |-> shared.value]
  <2>1. report \in Said /\ output \in Seq(Said) /\ report.says = shared.value
    BY <1>2 DEF Reports
  <2>2. output' = Append(output, report)
    BY <1>1
  <2> HIDE DEF Said, report
  <2>3. /\ output' \in Seq(Said) /\ Len(output') = n + 1
        /\ output'[n + 1] = report /\ \A i \in 1..n : output'[i] = output[i]
    BY <2>1, <2>2
  <2> QED BY <2>1, <2>3 DEF Reports, Said
<1> HIDE DEF n
<1>4. BoundTypes'
  BY <1>1, <1>3 DEF BoundTypes
<1>5. /\ shared.reads = n + 1 /\ Consuming
      /\ \A i \in 1..n : SeenAt(output[i].says, i)
      /\ \A i, j \in 1..n : i < j /\ IndexAt(i) = IndexAt(j) => output[i].says <= output[j].says
  BY <1>1 DEF BoundPlaces, n
<1>6. /\ SeenAt(shared.value, n + 1)
      /\ \A i \in 1..n : IndexAt(i) = IndexAt(n + 1) => output[i].says <= shared.value
  BY <1>5 DEF Consuming, n
<1>7. \A i \in 1..n + 1 : SeenAt(output[i].says, i)'
  <2>1. \A i \in 1..n + 1 : i \in 1..n \/ i = n + 1
    BY <1>2 DEF n
  <2> QED BY <1>1, <1>3, <1>5, <1>6, <2>1 DEF SeenAt
<1>8. \A i, j \in 1..n + 1 : i < j /\ IndexAt(i) = IndexAt(j) => output'[i].says <= output'[j].says
  <2>1. ASSUME NEW i \in 1..n + 1, NEW j \in 1..n + 1, i < j
        PROVE  i \in 1..n /\ (j \in 1..n \/ j = n + 1)
    BY <1>2, <2>1 DEF n
  <2> QED BY <1>3, <1>5, <1>6, <2>1
<1>9. BoundPlaces'
  <2>1. /\ \A i \in Bound!Indexes :
             /\ shared.buffer[i] <= shared.count
             /\ shared.buffer[i] > 0 => IndexAt(shared.buffer[i]) = i
    BY DEF BoundPlaces
  <2> QED BY <1>1, <1>3, <1>5, <1>7, <1>8, <2>1 DEF BoundPlaces
<1> QED BY <1>4, <1>9

LEMMA BoundInitially ==
  Bound!Init => BoundInv
<1> SUFFICES ASSUME Bound!Init PROVE BoundInv
  OBVIOUS
<1>1. /\ main = [at |-> "start", next |-> 0, count |-> 2, error |-> FALSE]
      /\ at = [t \in Team(2) |-> "unborn"] /\ output = <<>>
      /\ shared = [buffer |-> [i \in Bound!Indexes |-> 0], count |-> 0, reads |-> 0, value |-> 0]
      /\ program \in Bound!Programs
  BY DEF Bound!Init, Bound!Starts, Bound!Threads, Team
<1>2. Lives(2, BoundPoints, FALSE)
  BY <1>1 DEF Lives, Phases, Places, BoundPoints, Team
<1>3. BoundTypes
  <2>1. 0 \in Product
    BY BufferNumbers DEF Product
  <2> QED BY <1>1, <2>1 DEF BoundTypes, Reports
<1>4. BoundPlaces
  BY <1>1 DEF BoundPlaces, Team
<1> QED BY <1>1, <1>2, <1>3, <1>4 DEF BoundInv

LEMMA BoundKeeps ==
  ASSUME BoundInv,
         \/ Bound!Step(Bound!MainStep)
         \/ \E t \in Bound!Threads : Bound!Step(Bound!ThreadStep(t))
  PROVE  BoundInv'
<1>1. /\ 2 \in Nat /\ Lives(2, BoundPoints, FALSE) /\ BoundTypes /\ BoundPlaces
      /\ at \in [Team(2) -> BoundPoints] /\ program \in Bound!Programs
  BY DEF BoundInv, Lives
<1>2. CASE Bound!Step(Bound!MainStep)
  <2>1. Bound!MainStep /\ program' = program
    BY <1>2 DEF Bound!Step
  <2>2. Lives(2, BoundPoints, FALSE)'
    BY <1>1, <2>1, BoundMain, MainLivesOn
  <2>3. UNCHANGED <<shared, output>> /\ (at' = at \/ Bound!CreateNext("running"))
    BY <2>1 DEF Bound!MainStep, Bound!AnalyzeArguments, Bound!CreateThreads, Bound!JoinNext,
       Bound!JoinEnds, Bound!Passes, Bound!CreateNext
  <2>4. at'[1] = "consuming" <=> at[1] = "consuming"
    <3>1. CASE Bound!CreateNext("running")
      <4>1. /\ main.next \in Team(2) /\ at[main.next] = "unborn"
            /\ at' = [at EXCEPT ![main.next] = "running"]
        BY <1>1, <3>1 DEF Bound!CreateNext, Lives, Team
      <4> QED BY <1>1, <4>1 DEF Team
    <3> QED BY <2>3, <3>1
  <2>5. BoundTypes' /\ BoundPlaces'
    BY <1>1, <2>3, <2>4, BoundStays
  <2> QED BY <1>1, <2>1, <2>2, <2>5 DEF BoundInv
<1>3. ASSUME NEW t \in Bound!Threads, Bound!Step(Bound!ThreadStep(t))
      PROVE  BoundInv'
  <2>1. Bound!ThreadStep(t) /\ program' = program
    BY <1>3 DEF Bound!Step
  <2>2. Lives(2, BoundPoints, FALSE)'
    BY <1>1, <2>1, BoundThread, ThreadLivesOn
  <2>3. ASSUME NEW loops, Bound!Return(t, loops)
        PROVE  BoundTypes' /\ BoundPlaces'
    <3>1. /\ UNCHANGED <<shared, output>>
          /\ at'[1] = "consuming" <=> at[1] = "consuming"
      BY <1>1, <2>3 DEF Bound!Return, Bound!Goes, Team, Bound!Threads
    <3> QED BY <1>1, <3>1, BoundStays
  <2>4. BoundTypes' /\ BoundPlaces'
    BY <1>1, <2>1, <2>3, ProduceKeeps, ReadKeeps, ConsumeKeeps DEF Bound!ThreadStep
  <2> QED BY <1>1, <2>1, <2>2, <2>4 DEF BoundInv
<1> QED BY <1>2, <1>3

LEMMA BoundPromises ==
  ASSUME BoundInv
  PROVE  Bound!TypeOK /\ Bound!PlacesNeverGoBack /\ Bound!MemoryOutlivesThreads
<1>1. Bound!MemoryOutlivesThreads
  BY DEF BoundInv, Lives, AtRest, Bound!MemoryOutlivesThreads, Bound!Threads, Team
<1>2. BoundTypes /\ BoundPlaces
  BY DEF BoundInv
<1>3. Bound!TypeOK
  <2>1. BoundPoints = {"running", "consuming"} \cup {"unborn", "done"}
    BY DEF BoundPoints
  <2>2. /\ main.at \in Places /\ main.next \in 0..2 /\ main.count \in 0..2
        /\ main.error \in BOOLEAN /\ at \in [Team(2) -> BoundPoints]
    BY DEF BoundInv, Lives, Phases
  <2>3. /\ shared.buffer \in [Bound!Indexes -> Product] /\ shared.count \in Product
        /\ shared.reads \in Product /\ shared.value \in Product /\ output \in Reports(2, Product)
    BY <1>2 DEF BoundTypes
  <2>4. \A i \in DOMAIN output : output[i].by \in Team(2)
    BY <2>3, ReportsBy
  <2> QED BY <2>1, <2>2, <2>3, <2>4
          DEF BoundInv, Places, Product, Bound!TypeOK, Bound!CommonTypes, Bound!Threads,
              Team
<1>4. Bound!PlacesNeverGoBack
  <2>1. ASSUME NEW n \in Nat \ {0}, NEW m \in Nat \ {0}
        PROVE  IndexAt(n) = IndexAt(m) <=> Bound!IndexAfter(n) = Bound!IndexAfter(m)
    <3> DEFINE a == n - 1
               c == m - 1
    <3>1. a \in Nat /\ c \in Nat /\ a + 1 = n /\ c + 1 = m
      OBVIOUS
    <3>2. BufferCapacity \in Int /\ BufferCapacity > 0
      BY NumbersAssumption
    <3> HIDE DEF a, c
    <3>3. (a + 1) % BufferCapacity = (c + 1) % BufferCapacity
            <=> a % BufferCapacity = c % BufferCapacity
      BY <3>1, <3>2, SameRemainders
    <3>4. n % BufferCapacity = m % BufferCapacity
            <=> a % BufferCapacity = c % BufferCapacity
      BY <3>1, <3>3
    <3> QED BY <3>4 DEF IndexAt, Bound!IndexAfter, a, c
  <2>2. /\ Len(output) \in Nat /\ DOMAIN output = 1..Len(output)
        /\ \A i \in 1..Len(output) : output[i].says \in Nat /\ i \in Nat \ {0}
    BY <1>2, BoundOutput DEF Product
  <2>3. /\ \A i \in 1..Len(output) : SeenAt(output[i].says, i)
        /\ \A i, j \in 1..Len(output) :
             i < j /\ IndexAt(i) = IndexAt(j) => output[i].says <= output[j].says
    BY <1>2 DEF BoundPlaces
  <2>4. ASSUME NEW i \in 1..Len(output), output[i].says > 0
        PROVE  Bound!IndexAfter(output[i].says) = Bound!IndexAfter(i)
    <3>1. output[i].says \in Nat \ {0} /\ i \in Nat \ {0}
      BY <2>2, <2>4
    <3>2. IndexAt(output[i].says) = IndexAt(i)
      BY <2>3, <2>4 DEF SeenAt
    <3> QED BY <2>1, <3>1, <3>2
  <2> QED BY <2>1, <2>2, <2>3, <2>4 DEF Bound!PlacesNeverGoBack
<1> QED BY <1>1, <1>3, <1>4

-----------------------------------------------------------------------------
(* Heat jobs: what is held at every place, what is known of a plate before *)
(* and after its simulation, and what has been written.                    *)
Memory == {"variables", "job file", "states", "matrix", "plate file"}
JobPlaces == {"start", "count", "read", "states", "plate", "simulate", "write", "free",
              "ended", "undefined"}

JobTypes ==
  /\ main \in [at : JobPlaces, next : Nat, count : Int, error : BOOLEAN]
  /\ shared \in [job : JobFiles, lines : Nat, names : Seq({"name", "NULL"}), states : Seq(Int),
                 held : SUBSET Memory]
  /\ output \in Seq([by : Nat, says : Int \cup Seq(Int)])

JobLines ==
  /\ main.next <= shared.lines
  /\ main.at \in {"simulate", "write"} => main.next < shared.lines
  /\ main.at \in {"read", "states", "plate", "simulate", "write"} => shared.lines > 0

HeldAt(place) ==
  IF place \in {"start", "count"} THEN {}
  ELSE IF place = "read" THEN {"variables", "job file"}
  ELSE IF place = "states" THEN {"variables"}
  ELSE IF place = "plate" THEN {"variables", "states"}
  ELSE IF place = "free" THEN (IF Jobs!Serial THEN {"variables", "states"} ELSE {"variables"})
  ELSE IF place = "ended" THEN (IF Jobs!Serial THEN {"states"} ELSE {})
  ELSE IF place \in {"simulate", "write"} THEN Memory \ {"job file"}
  ELSE Memory

Reading == main.at \in {"plate", "simulate", "write"}

JobStates ==
  /\ "states" \in shared.held =>
       /\ DOMAIN shared.states = 1..shared.lines
       /\ \A l \in 1..shared.lines : shared.states[l] \in {l, -1}
  /\ Reading /\ "states" \in shared.held =>
       /\ Jobs!Serial => \A l \in 1..main.next : shared.states[l] = l
       /\ \A i \in DOMAIN output : shared.states[output[i].by] = output[i].by
  /\ Reading /\ "states" \notin shared.held => Jobs!Serial /\ main.next = 0
  /\ main.at = "write" =>
       "states" \in shared.held /\ shared.states[main.next + 1] = main.next + 1

JobOutput ==
  /\ main.at \in {"start", "count", "read", "states"} => output = <<>>
  /\ Reading => \A i \in DOMAIN output : output[i].by \in 1..main.next
  /\ \A i \in DOMAIN output : output[i].by <= shared.lines
  /\ \A i \in DOMAIN output : output[i].by = 0 => "states" \notin shared.held
  /\ Jobs!ReportIsWhole

JobsInv ==
  /\ program \in Jobs!Programs /\ JobTypes /\ JobLines
  /\ shared.held \subseteq HeldAt(main.at) /\ JobStates /\ JobOutput

JobsGo(from, to) ==
  \/ from = "start" /\ to \in {"count", "ended"}
  \/ from = "count" /\ to = "ended"
  \/ from = "states" /\ to = IF Jobs!Serial THEN "plate" ELSE "free"
  \/ from = "plate" /\ to = "free" /\ Jobs!Serial
  \/ to = "undefined"

LEMMA JobsMain ==
  ASSUME JobTypes, NEW from, NEW to \in JobPlaces,
         Jobs!MainGoes(from, to) \/ Jobs!MainFails(from, to)
  PROVE  /\ main.at = from /\ main'.at = to /\ main'.next = 0
         /\ main' \in [at : JobPlaces, next : Nat, count : Int, error : BOOLEAN]
<1>1. /\ main \in [at : JobPlaces, next : Nat, count : Int, error : BOOLEAN]
      /\ main.at = from
  BY DEF JobTypes, Jobs!MainGoes, Jobs!MainFails
<1>2. \E error \in BOOLEAN : main' = [at |-> to, next |-> 0, count |-> main.count, error |-> error]
  BY <1>1 DEF Jobs!MainGoes, Jobs!MainFails
<1> QED BY <1>1, <1>2

(* What is reported stays as it is.                                        *)
LEMMA JobOutputStays ==
  ASSUME JobTypes, JobOutput, UNCHANGED <<program, output>>,
         shared'.lines = shared.lines \/ output = <<>>,
         "states" \in shared'.held => "states" \in shared.held \/ output = <<>>,
         main'.at \in {"start", "count", "read", "states"} => output = <<>>,
         Reading' => output = <<>> \/ (Reading /\ main'.next \in Nat /\ main.next <= main'.next)
  PROVE  JobOutput'
<1>1. CASE output = <<>>
  BY <1>1 DEF JobOutput, Jobs!ReportIsWhole
<1>2. CASE output # <<>>
  <2>1. shared'.lines = shared.lines
    BY <1>2
  <2>2. Jobs!ReportIsWhole'
    BY <2>1 DEF JobOutput, Jobs!ReportIsWhole, Jobs!Written, Jobs!Serial, Jobs!Unset
  <2>3. Reading' => \A i \in DOMAIN output : output[i].by \in 1..main'.next
    <3> SUFFICES ASSUME Reading', NEW i \in DOMAIN output PROVE output[i].by \in 1..main'.next
      OBVIOUS
    <3>1. Reading /\ main'.next \in Nat /\ main.next <= main'.next /\ main.next \in Nat
      BY <1>2 DEF JobTypes
    <3>2. output[i].by \in 1..main.next
      BY <3>1 DEF JobOutput
    <3> QED BY <3>1, <3>2
  <2>4. \A i \in DOMAIN output : output[i].by = 0 => "states" \notin shared'.held
    BY <1>2 DEF JobOutput
  <2>5. \A i \in DOMAIN output : output[i].by <= shared'.lines
    BY <2>1 DEF JobOutput
  <2>6. main'.at \notin {"start", "count", "read", "states"}
    BY <1>2
  <2> QED BY <2>2, <2>3, <2>4, <2>5, <2>6 DEF JobOutput
<1> QED BY <1>1, <1>2

(* What is known of the plates stays as it is.                             *)
LEMMA JobStatesStay ==
  ASSUME JobTypes, JobStates, UNCHANGED <<program, output>>,
         shared'.lines = shared.lines, shared'.states = shared.states,
         "states" \in shared'.held => "states" \in shared.held, main'.at # "write",
         Reading' => /\ "states" \in shared'.held => Reading /\ main'.next = main.next
                     /\ "states" \notin shared'.held => Jobs!Serial /\ main'.next = 0
  PROVE  JobStates'
BY DEF JobStates, Jobs!Serial

LEMMA JobsQuiet ==
  ASSUME JobsInv, UNCHANGED <<program, shared, output>>, NEW from, NEW to,
         JobsGo(from, to), Jobs!MainGoes(from, to) \/ Jobs!MainFails(from, to)
  PROVE  JobsInv'
<1>1. JobTypes /\ JobLines /\ shared.held \subseteq HeldAt(main.at) /\ JobStates /\ JobOutput
  BY DEF JobsInv
<1>2. to \in JobPlaces
  BY DEF JobsGo, JobPlaces
<1>3. /\ main.at = from /\ main'.at = to /\ main'.next = 0
      /\ main' \in [at : JobPlaces, next : Nat, count : Int, error : BOOLEAN]
  BY <1>1, <1>2, JobsMain
<1>4. JobTypes'
  BY <1>1, <1>3 DEF JobTypes
<1>5. JobLines'
  BY <1>1, <1>3, <1>4 DEF JobLines, JobsGo, JobTypes
<1>6. (shared.held \subseteq HeldAt(main.at))'
  <2>1. shared.held \subseteq Memory
    BY <1>1 DEF JobTypes
  <2> QED BY <1>1, <1>3, <2>1 DEF HeldAt, JobsGo, Jobs!Serial
<1>7. Reading' => /\ main.at = "states" /\ "states" \notin shared.held /\ output = <<>>
                  /\ Jobs!Serial
  BY <1>1, <1>3 DEF Reading, JobsGo, HeldAt, JobOutput
<1>8. JobStates'
  BY <1>1, <1>3, <1>7, JobStatesStay DEF JobsGo
<1>9. JobOutput'
  <2>1. main'.at \in {"start", "count", "read", "states"} => output = <<>>
    BY <1>1, <1>3 DEF JobsGo, JobOutput
  <2> QED BY <1>1, <1>7, <2>1, JobOutputStays
<1> QED BY <1>4, <1>5, <1>6, <1>8, <1>9 DEF JobsInv

LEMMA Appended ==
  ASSUME NEW S, NEW s \in Seq(S), NEW e \in S
  PROVE  /\ Append(s, e) \in Seq(S) /\ Len(s) \in Nat
         /\ DOMAIN Append(s, e) = 1..Len(s) + 1 /\ DOMAIN s = 1..Len(s)
         /\ Append(s, e)[Len(s) + 1] = e /\ \A i \in 1..Len(s) : Append(s, e)[i] = s[i]
OBVIOUS

(* Reading the job file.                                                   *)
LEMMA JobsRead ==
  ASSUME JobsInv, UNCHANGED program, Jobs!read_job_txt
  PROVE  JobsInv'
<1>1. JobTypes /\ JobLines /\ shared.held \subseteq HeldAt(main.at) /\ JobStates /\ JobOutput
  BY DEF JobsInv
<1>2. /\ shared \in [job : JobFiles, lines : Nat, names : Seq({"name", "NULL"}), states : Seq(Int),
                     held : SUBSET Memory]
      /\ shared.job.newlines \in Nat
  <2>1. shared.job \in [newlines : Nat, plates : Seq({"whole", "short", "missing"})]
    BY <1>1, JobsAssumption DEF JobTypes
  <2> QED BY <1>1, <2>1 DEF JobTypes
<1>p. /\ "start" \in JobPlaces /\ "count" \in JobPlaces /\ "read" \in JobPlaces
      /\ "states" \in JobPlaces /\ "ended" \in JobPlaces /\ "undefined" \in JobPlaces
  BY DEF JobPlaces
<1>3. CASE Jobs!MainFails("count", "ended") /\ UNCHANGED <<shared, output>>
  BY <1>3, JobsQuiet DEF JobsGo
<1>4. CASE Jobs!Undefined("read")
  BY <1>4, JobsQuiet DEF JobsGo, Jobs!Undefined
<1>5. CASE /\ Jobs!MainGoes("count", "read") /\ shared.job.newlines > 0
           /\ shared' = [shared EXCEPT !.lines = shared.job.newlines,
                                       !.held = {"variables", "job file"}]
           /\ UNCHANGED output
  <2>1. /\ main.at = "count" /\ main'.at = "read" /\ main'.next = 0 /\ output' = output
        /\ main' \in [at : JobPlaces, next : Nat, count : Int, error : BOOLEAN]
    BY <1>1, <1>5, <1>p, JobsMain
  <2>2. /\ shared' = [job |-> shared.job, lines |-> shared.job.newlines, names |-> shared.names,
                      states |-> shared.states, held |-> {"variables", "job file"}]
    BY <1>2, <1>5
  <2>3. JobTypes'
    BY <1>1, <1>2, <2>1, <2>2 DEF JobTypes, Memory
  <2>f. shared'.lines = shared.job.newlines /\ shared'.held = {"variables", "job file"}
    BY <2>2
  <2>4. JobLines'
    BY <1>2, <1>5, <2>1, <2>f DEF JobLines
  <2>h. (shared.held \subseteq HeldAt(main.at))'
    BY <2>1, <2>f DEF HeldAt
  <2>s. JobStates'
    BY <2>1, <2>f DEF JobStates, Reading
  <2>5. output = <<>>
    BY <1>1, <2>1 DEF JobOutput
  <2>6. JobOutput'
    BY <1>1, <2>1, <2>5, JobOutputStays
  <2> QED BY <1>1, <2>3, <2>4, <2>h, <2>s, <2>6 DEF JobsInv
<1>6. ASSUME NEW to \in {"read", "states"}, Jobs!MainGoes("read", to), UNCHANGED output,
             NEW names \in Seq({"name", "NULL"}), NEW held \in SUBSET shared.held,
             shared' = [shared EXCEPT !.names = names, !.held = held],
             to = "read" \/ "job file" \notin held
      PROVE  JobsInv'
  <2>1. /\ main.at = "read" /\ main'.at = to /\ main'.next = 0 /\ output' = output
        /\ main' \in [at : JobPlaces, next : Nat, count : Int, error : BOOLEAN]
    BY <1>1, <1>6, <1>p, JobsMain
  <2>2. /\ shared' = [job |-> shared.job, lines |-> shared.lines, names |-> names,
                      states |-> shared.states, held |-> held]
    BY <1>2, <1>6
  <2>3. JobTypes'
    BY <1>1, <1>2, <2>1, <2>2 DEF JobTypes, Memory
  <2>f. shared'.lines = shared.lines /\ shared'.held = held
    BY <2>2
  <2>4. JobLines'
    <3>1. shared.lines \in Nat /\ shared.lines > 0
      BY <1>1, <1>2, <2>1 DEF JobLines
    <3>2. shared'.lines = shared.lines /\ main'.next = 0 /\ main'.at \in {"read", "states"}
      BY <2>1, <2>f
    <3> QED BY <3>1, <3>2 DEF JobLines
  <2>h. (shared.held \subseteq HeldAt(main.at))'
    BY <1>1, <1>6, <2>1, <2>f DEF HeldAt
  <2>5. "states" \notin held
    BY <1>1, <2>1 DEF HeldAt
  <2>6. JobStates'
    <3>1. "states" \notin shared'.held /\ main'.at \notin {"plate", "simulate", "write"}
      BY <2>1, <2>5, <2>f
    <3> QED BY <3>1 DEF JobStates, Reading
  <2>7. output = <<>>
    BY <1>1, <2>1 DEF JobOutput
  <2>8. JobOutput'
    BY <1>1, <2>1, <2>7, JobOutputStays
  <2> QED BY <1>1, <2>3, <2>4, <2>h, <2>6, <2>8 DEF JobsInv
<1>n. shared.names \in Seq({"name", "NULL"})
  BY <1>2
<1>7. CASE Jobs!MainGoes("read", "read") /\ Jobs!Field("names", Append(shared.names, "name"))
           /\ UNCHANGED output
  <2>1. Append(shared.names, "name") \in Seq({"name", "NULL"})
    BY <1>n
  <2>2. shared' = [shared EXCEPT !.names = Append(shared.names, "name"), !.held = shared.held]
    BY <1>2, <1>7 DEF Jobs!Field
  <2> QED BY <1>6, <1>7, <2>1, <2>2
<1>8. CASE Jobs!MainGoes("read", "states") /\ UNCHANGED output
           /\ shared' = [shared EXCEPT !.names = Append(@, "NULL"), !.held = @ \ {"job file"}]
  <2>1. Append(shared.names, "NULL") \in Seq({"name", "NULL"})
    BY <1>n
  <2>2. shared' = [shared EXCEPT !.names = Append(shared.names, "NULL"), !.held = shared.held \ {"job file"}]
    BY <1>2, <1>8
  <2> QED BY <1>6, <1>8, <2>1, <2>2
<1>9. CASE Jobs!ReadEnds
  <2>1. shared' = [shared EXCEPT !.names = shared.names, !.held = shared.held \ {"job file"}]
    BY <1>2, <1>9 DEF Jobs!ReadEnds, Jobs!Releases, Jobs!Field
  <2>2. Jobs!MainGoes("read", "states") /\ UNCHANGED output
    BY ONLY <1>9 DEF Jobs!ReadEnds
  <2> QED BY <1>6, <1>n, <2>1, <2>2
<1> QED BY <1>3, <1>4, <1>5, <1>7, <1>8, <1>9
        DEF Jobs!read_job_txt, Jobs!count_lines, Jobs!ReadEntry

(* The array of states, no plate having one.                               *)
LEMMA JobsAllocate ==
  ASSUME JobsInv, UNCHANGED program, Jobs!AllocateStates
  PROVE  JobsInv'
<1>1. JobTypes /\ JobLines /\ shared.held \subseteq HeldAt(main.at) /\ JobStates /\ JobOutput
  BY DEF JobsInv
<1>2. shared \in [job : JobFiles, lines : Nat, names : Seq({"name", "NULL"}), states : Seq(Int),
                  held : SUBSET Memory]
  BY <1>1 DEF JobTypes
<1>3. "plate" \in JobPlaces
  BY DEF JobPlaces
<1>4. /\ main.at = "states" /\ main'.at = "plate" /\ main'.next = 0 /\ output' = output
      /\ main' \in [at : JobPlaces, next : Nat, count : Int, error : BOOLEAN]
  BY <1>1, <1>3, JobsMain DEF Jobs!AllocateStates
<1> DEFINE none == [i \in 1..shared.lines |-> -1]
<1>5. /\ none \in Seq(Int) /\ DOMAIN none = 1..shared.lines
      /\ \A l \in 1..shared.lines : none[l] = -1
  <2>1. shared.lines \in Nat
    BY <1>2
  <2>2. none \in [1..shared.lines -> Int]
    OBVIOUS
  <2> QED BY <2>1, <2>2
<1>6. shared' = [shared EXCEPT !.held = shared.held \cup {"states"}, !.states = none]
  BY <1>2 DEF Jobs!AllocateStates, Jobs!Unset
<1> HIDE DEF none
<1>7. shared' = [job |-> shared.job, lines |-> shared.lines, names |-> shared.names,
                 states |-> none, held |-> shared.held \cup {"states"}]
  BY <1>2, <1>6
<1>8. /\ shared'.lines = shared.lines /\ shared'.states = none
      /\ shared'.held = shared.held \cup {"states"}
  BY <1>7
<1>9. JobTypes'
  <2>1. shared.held \cup {"states"} \in SUBSET Memory
    BY <1>2 DEF Memory
  <2> QED BY <1>1, <1>2, <1>4, <1>5, <1>7, <2>1 DEF JobTypes
<1>10. shared.lines \in Nat /\ shared.lines > 0
  BY <1>1, <1>2, <1>4 DEF JobLines
<1>11. JobLines'
  BY <1>4, <1>8, <1>10 DEF JobLines
<1>12. (shared.held \subseteq HeldAt(main.at))'
  BY <1>1, <1>4, <1>8 DEF HeldAt
<1>13. output = <<>>
  BY <1>1, <1>4 DEF JobOutput
<1>14. JobStates'
  BY <1>4, <1>5, <1>8, <1>13 DEF JobStates, Reading
<1>15. JobOutput'
  BY <1>1, <1>4, <1>13, JobOutputStays DEF JobOutput
<1> QED BY <1>9, <1>11, <1>12, <1>14, <1>15 DEF JobsInv

(* A plate is held, with its file or without.                              *)
LEMMA JobsHold ==
  ASSUME JobsInv, UNCHANGED program, Jobs!LinesLeft,
         NEW what, what \subseteq {"matrix", "plate file"}, Jobs!Holding(what)
  PROVE  JobsInv'
<1>1. JobTypes /\ JobLines /\ shared.held \subseteq HeldAt(main.at) /\ JobStates /\ JobOutput
  BY DEF JobsInv
<1>3. shared \in [job : JobFiles, lines : Nat, names : Seq({"name", "NULL"}), states : Seq(Int),
                  held : SUBSET Memory]
  BY <1>1 DEF JobTypes
<1>4. /\ main.at = "plate" /\ main.next < shared.lines /\ main' = [main EXCEPT !.at = "simulate"]
      /\ shared' = [shared EXCEPT !.held = shared.held \cup what] /\ output' = output
      /\ main \in [at : JobPlaces, next : Nat, count : Int, error : BOOLEAN]
  BY <1>1, <1>3 DEF Jobs!LinesLeft, Jobs!Holding, Jobs!Holds, Jobs!Field, JobTypes
<1>5. /\ main' = [at |-> "simulate", next |-> main.next, count |-> main.count, error |-> main.error]
      /\ main'.at = "simulate" /\ main'.next = main.next /\ main.next \in Nat
  BY <1>4
<1>6. shared' = [job |-> shared.job, lines |-> shared.lines, names |-> shared.names,
                 states |-> shared.states, held |-> shared.held \cup what]
  BY <1>3, <1>4
<1>7. /\ shared'.lines = shared.lines /\ shared'.states = shared.states
      /\ shared'.held = shared.held \cup what
  BY <1>6
<1>8. JobTypes'
  <2>1. shared.held \cup what \in SUBSET Memory /\ "simulate" \in JobPlaces
    BY <1>3 DEF Memory, JobPlaces
  <2> QED BY <1>1, <1>3, <1>4, <1>5, <1>6, <2>1 DEF JobTypes
<1>9. JobLines'
  BY <1>1, <1>4, <1>5, <1>7 DEF JobLines
<1>10. (shared.held \subseteq HeldAt(main.at))'
  BY <1>1, <1>4, <1>5, <1>7 DEF HeldAt, Memory
<1>11. Reading /\ ("states" \in shared'.held => "states" \in shared.held)
       /\ ("states" \notin shared'.held => Jobs!Serial /\ main'.next = 0)
  BY <1>1, <1>4, <1>5, <1>7 DEF Reading, JobStates
<1>12. JobStates'
  BY <1>1, <1>4, <1>5, <1>7, <1>11, JobStatesStay
<1>13. JobOutput'
  <2>n. main'.next = main.next /\ main.next \in Nat
    BY <1>5
  <2>1. main'.next \in Nat /\ main.next <= main'.next
    BY ONLY <2>n
  <2>2. /\ shared'.lines = shared.lines /\ main'.at = "simulate"
        /\ UNCHANGED <<program, output>>
    BY <1>4, <1>5, <1>7
  <2>3. "states" \in shared'.held => "states" \in shared.held
    BY <1>11
  <2>4. JobTypes /\ JobOutput /\ Reading
    BY <1>1, <1>11
  <2> QED BY <2>1, <2>2, <2>3, <2>4, JobOutputStays
<1> QED BY <1>8, <1>9, <1>10, <1>12, <1>13 DEF JobsInv

(* The state of a plate is known after its simulation.                     *)
LEMMA JobsSimulate ==
  ASSUME JobsInv, UNCHANGED program, Jobs!Simulate
  PROVE  JobsInv'
<1>1. JobTypes /\ JobLines /\ shared.held \subseteq HeldAt(main.at) /\ JobStates /\ JobOutput
  BY DEF JobsInv
<1>2. CASE Jobs!Undefined("simulate")
  BY <1>2, JobsQuiet DEF JobsGo, Jobs!Undefined
<1> DEFINE n == main.next + 1
<1>3. SUFFICES ASSUME main.at = "simulate", "states" \in shared.held,
                      main' = [main EXCEPT !.at = "write"], output' = output,
                      shared' = [shared EXCEPT !.states = [shared.states EXCEPT ![n] = n]]
               PROVE  JobsInv'
  BY <1>2 DEF Jobs!Simulate, Jobs!Field, Jobs!Line
<1>4. /\ shared \in [job : JobFiles, lines : Nat, names : Seq({"name", "NULL"}), states : Seq(Int),
                     held : SUBSET Memory]
      /\ main \in [at : JobPlaces, next : Nat, count : Int, error : BOOLEAN]
      /\ main.next \in Nat /\ shared.lines \in Nat /\ main.next < shared.lines
  BY <1>1, <1>3 DEF JobTypes, JobLines
<1>5. /\ n \in Nat /\ n \in 1..shared.lines /\ n \notin 1..main.next
      /\ 1..main.next \subseteq 1..shared.lines
  BY <1>4
<1>6. /\ DOMAIN shared.states = 1..shared.lines /\ shared.states \in Seq(Int)
      /\ \A l \in 1..shared.lines : shared.states[l] \in {l, -1}
      /\ Jobs!Serial => \A l \in 1..main.next : shared.states[l] = l
      /\ \A i \in DOMAIN output : shared.states[output[i].by] = output[i].by
      /\ \A i \in DOMAIN output : output[i].by \in 1..main.next
  BY <1>1, <1>3, <1>4 DEF JobStates, Reading, JobOutput
<1> DEFINE new == [shared.states EXCEPT ![n] = n]
<1> HIDE DEF n
<1>7. /\ new \in Seq(Int) /\ DOMAIN new = 1..shared.lines /\ new[n] = n
      /\ \A l \in 1..shared.lines : l # n => new[l] = shared.states[l]
  <2>1. shared.states \in [1..shared.lines -> Int]
    <3>1. DOMAIN shared.states = 1..shared.lines /\ shared.states \in Seq(Int)
      BY <1>6
    <3>2. /\ shared.states \in [1..Len(shared.states) -> Int]
          /\ DOMAIN shared.states = 1..Len(shared.states)
      BY <3>1
    <3> QED BY <3>1, <3>2
  <2>2. new \in [1..shared.lines -> Int]
    BY <1>5, <2>1
  <2>3. new \in Seq(Int)
    BY <1>4, <2>2
  <2> QED BY <1>5, <2>1, <2>2, <2>3
<1> HIDE DEF new
<1>8. /\ main' = [at |-> "write", next |-> main.next, count |-> main.count, error |-> main.error]
      /\ main'.at = "write" /\ main'.next = main.next
  BY <1>3, <1>4
<1>9. shared' = [job |-> shared.job, lines |-> shared.lines, names |-> shared.names,
                 states |-> new, held |-> shared.held]
  BY <1>3, <1>4 DEF new
<1>10. /\ shared'.lines = shared.lines /\ shared'.states = new
       /\ shared'.held = shared.held
  BY <1>9
<1>11. JobTypes'
  <2>1. "write" \in JobPlaces /\ new \in Seq(Int)
    BY <1>7 DEF JobPlaces
  <2>2. main' \in [at : JobPlaces, next : Nat, count : Int, error : BOOLEAN]
    BY <1>4, <1>8, <2>1
  <2>3. shared' \in [job : JobFiles, lines : Nat, names : Seq({"name", "NULL"}),
                     states : Seq(Int), held : SUBSET Memory]
    BY <1>4, <1>9, <2>1
  <2> QED BY <1>1, <1>3, <2>2, <2>3 DEF JobTypes
<1>12. JobLines'
  BY <1>1, <1>4, <1>8, <1>10 DEF JobLines
<1>13. (shared.held \subseteq HeldAt(main.at))'
  BY <1>1, <1>3, <1>8, <1>10 DEF HeldAt
<1>14. JobStates'
  <2>1. \A l \in 1..shared.lines : new[l] \in {l, -1}
    BY <1>6, <1>7
  <2>2. Jobs!Serial => \A l \in 1..main.next : new[l] = l
    BY <1>5, <1>6, <1>7
  <2>3. \A i \in DOMAIN output : new[output[i].by] = output[i].by
    BY <1>5, <1>6, <1>7
  <2>4. new[main.next + 1] = main.next + 1
    BY <1>7 DEF n
  <2>5. DOMAIN new = 1..shared.lines
    BY <1>7
  <2> QED BY <1>3, <1>8, <1>10, <2>1, <2>2, <2>3, <2>4, <2>5 DEF JobStates, Jobs!Serial
<1>15. JobOutput'
  <2>1. Reading /\ main'.next \in Nat /\ main.next <= main'.next
    BY <1>3, <1>4, <1>8 DEF Reading
  <2> QED BY <1>1, <1>3, <1>8, <1>10, <2>1, JobOutputStays
<1> QED BY <1>11, <1>12, <1>13, <1>14, <1>15 DEF JobsInv

(* The file of a plate is written, or not, and the next line is the turn.  *)
LEMMA JobsWrite ==
  ASSUME JobsInv, UNCHANGED program, Jobs!generate_bin_file
  PROVE  JobsInv'
<1> DEFINE n == main.next + 1
           report == [by |-> n, says |-> shared.states[n]]
           k == Len(output)
<1>1. JobTypes /\ JobLines /\ shared.held \subseteq HeldAt(main.at) /\ JobStates /\ JobOutput
  BY DEF JobsInv
<1>2. /\ main.at = "write" /\ main' = [main EXCEPT !.at = "plate", !.next = n]
      /\ shared' = [shared EXCEPT !.held = shared.held \ {"matrix", "plate file"}]
      /\ output' = Append(output, report) \/ output' = output
  BY <1>1 DEF Jobs!generate_bin_file, Jobs!Releases, Jobs!Field, Jobs!Report, Jobs!Line,
     JobTypes
<1>3. /\ shared \in [job : JobFiles, lines : Nat, names : Seq({"name", "NULL"}), states : Seq(Int),
                     held : SUBSET Memory]
      /\ main \in [at : JobPlaces, next : Nat, count : Int, error : BOOLEAN]
      /\ main.next \in Nat /\ shared.lines \in Nat /\ main.next < shared.lines
  BY <1>1, <1>2 DEF JobTypes, JobLines
<1>4. /\ n \in Nat /\ n > 0 /\ n <= shared.lines /\ n \in 1..shared.lines /\ main.next < n
      /\ \A m \in 1..main.next : m \in 1..n /\ m # 0 /\ m < n
      /\ \A m \in 1..n : m \in 1..main.next \/ m = n
  BY <1>3
<1>5. /\ "states" \in shared.held /\ shared.states[n] = n /\ shared.states \in Seq(Int)
      /\ DOMAIN shared.states = 1..shared.lines
      /\ \A l \in 1..shared.lines : shared.states[l] \in {l, -1}
      /\ Jobs!Serial => \A l \in 1..main.next : shared.states[l] = l
      /\ \A i \in DOMAIN output : shared.states[output[i].by] = output[i].by
      /\ \A i \in DOMAIN output : output[i].by \in 1..main.next
  BY <1>1, <1>2, <1>3 DEF JobStates, Reading, JobOutput
<1>6. \A i \in DOMAIN output : /\ output[i].says = output[i].by
                               /\ \A j \in 1..i - 1 : output[j].by < output[i].by
  <2>1. \A i \in DOMAIN output : output[i].by > 0
    BY <1>5, <1>3
  <2> QED BY <1>1, <2>1 DEF JobOutput, Jobs!ReportIsWhole
<1> DEFINE Said == [by : Nat, says : Int \cup Seq(Int)]
<1>7. output \in Seq(Said) /\ report \in Said /\ report.by = n /\ report.says = n
  BY <1>1, <1>4, <1>5 DEF JobTypes
<1> HIDE DEF n, report, Said
<1>8. /\ main' = [at |-> "plate", next |-> n, count |-> main.count, error |-> main.error]
      /\ main'.at = "plate" /\ main'.next = n
  BY <1>2, <1>3
<1>9. shared' = [job |-> shared.job, lines |-> shared.lines, names |-> shared.names,
                 states |-> shared.states, held |-> shared.held \ {"matrix", "plate file"}]
  BY <1>2, <1>3
<1>10. /\ shared'.lines = shared.lines /\ shared'.states = shared.states
       /\ shared'.held = shared.held \ {"matrix", "plate file"}
  BY <1>9
<1>11. /\ Append(output, report) \in Seq(Said) /\ k \in Nat
       /\ DOMAIN Append(output, report) = 1..k + 1 /\ DOMAIN output = 1..k
       /\ Append(output, report)[k + 1] = report
       /\ \A i \in 1..k : Append(output, report)[i] = output[i]
  BY <1>7, Appended
<1> HIDE DEF k
(* Whatever is reported now was before, or is the line that was written.   *)
<1>12. /\ output' \in Seq(Said)
       /\ \A i \in DOMAIN output' :
            \/ i \in DOMAIN output /\ output'[i] = output[i]
            \/ i = k + 1 /\ output'[i] = report
       /\ \A i \in DOMAIN output' : \A j \in 1..i - 1 : j \in DOMAIN output /\ output'[j] = output[j]
  <2>1. CASE output' = output
    <3>1. \A i \in 1..k : \A j \in 1..i - 1 : j \in 1..k
      BY <1>11
    <3> QED BY <1>7, <1>11, <2>1, <3>1
  <2>2. CASE output' = Append(output, report)
    <3>1. /\ \A i \in 1..k + 1 : i \in 1..k \/ i = k + 1
          /\ \A i \in 1..k + 1 : \A j \in 1..i - 1 : j \in 1..k
      BY <1>11
    <3> QED BY <1>11, <2>2, <3>1
  <2> QED BY <1>2, <2>1, <2>2
<1>13. \A i \in DOMAIN output' : /\ output'[i].by \in 1..n /\ output'[i].says = output'[i].by
                                 /\ shared.states[output'[i].by] = output'[i].by
                                 /\ \A j \in 1..i - 1 : output'[j].by < output'[i].by
  <2> SUFFICES ASSUME NEW i \in DOMAIN output'
               PROVE  /\ output'[i].by \in 1..n /\ output'[i].says = output'[i].by
                      /\ shared.states[output'[i].by] = output'[i].by
                      /\ \A j \in 1..i - 1 : output'[j].by < output'[i].by
    OBVIOUS
  <2>1. CASE i \in DOMAIN output /\ output'[i] = output[i]
    <3>1. output[i].by \in 1..n /\ output[i].says = output[i].by
      BY <1>4, <1>5, <1>6, <2>1
    <3>2. \A j \in 1..i - 1 : output[j].by < output[i].by
      BY <1>6, <2>1
    <3> QED BY <1>5, <1>12, <2>1, <3>1, <3>2
  <2>2. CASE i = k + 1 /\ output'[i] = report
    <3>1. \A j \in DOMAIN output : output[j].by < n
      BY <1>4, <1>5
    <3>2. n \in 1..n
      BY <1>4
    <3> QED BY <1>5, <1>7, <1>12, <2>2, <3>1, <3>2
  <2> QED BY <1>12, <2>1, <2>2
<1>14. JobTypes'
  <2>1. main' \in [at : JobPlaces, next : Nat, count : Int, error : BOOLEAN]
    <3>1. "plate" \in JobPlaces /\ main.count \in Int /\ main.error \in BOOLEAN
      BY <1>3 DEF JobPlaces
    <3> QED BY <1>4, <1>8, <3>1
  <2>2. shared' \in [job : JobFiles, lines : Nat, names : Seq({"name", "NULL"}),
                     states : Seq(Int), held : SUBSET Memory]
    BY <1>3, <1>9
  <2> QED BY <1>12, <2>1, <2>2 DEF JobTypes, Said
<1>15. JobLines'
  <2>1. shared.lines > 0
    BY <1>3
  <2> QED BY <1>4, <1>8, <1>10, <2>1 DEF JobLines
<1>16. (shared.held \subseteq HeldAt(main.at))'
  <2>1. shared.held \subseteq Memory \ {"job file"}
    BY <1>1, <1>2 DEF HeldAt
  <2> QED BY <1>8, <1>10, <2>1 DEF HeldAt, Memory
<1>17. JobStates'
  <2>1. "states" \in shared'.held
    BY <1>5, <1>10
  <2>2. Jobs!Serial => \A l \in 1..n : shared.states[l] = l
    BY <1>4, <1>5
  <2>3. \A i \in DOMAIN output' : shared.states[output'[i].by] = output'[i].by
    BY <1>13
  <2>4. DOMAIN shared.states = 1..shared.lines /\ \A l \in 1..shared.lines : shared.states[l] \in {l, -1}
    BY <1>5
  <2> QED BY <1>8, <1>10, <2>1, <2>2, <2>3, <2>4 DEF JobStates, Jobs!Serial
<1>18. JobOutput'
  <2>1. \A i \in DOMAIN output' : output'[i].by > 0 /\ output'[i].by # 0 /\ output'[i].by <= shared.lines
    <3>1. \A m \in 1..n : m > 0 /\ m # 0 /\ m <= shared.lines
      BY <1>3, <1>4
    <3> QED BY <1>13, <3>1
  <2>2. Jobs!ReportIsWhole'
    BY <1>13, <2>1 DEF Jobs!ReportIsWhole
  <2>3. \A i \in DOMAIN output' : output'[i].by \in 1..n
    BY <1>13
  <2> QED BY <1>8, <1>10, <2>1, <2>2, <2>3 DEF JobOutput
<1> QED BY <1>14, <1>15, <1>16, <1>17, <1>18 DEF JobsInv

(* The report is written, or not: every line has had its turn, which takes *)
(* an array of states.                                                     *)
LEMMA JobsReport ==
  ASSUME JobsInv, UNCHANGED program, Jobs!generate_report_file
  PROVE  JobsInv'
<1> DEFINE report == [by |-> 0, says |-> shared.states]
           k == Len(output)
<1>1. JobTypes /\ JobLines /\ shared.held \subseteq HeldAt(main.at) /\ JobStates /\ JobOutput
  BY DEF JobsInv
<1>2. "free" \in JobPlaces
  BY DEF JobPlaces
<1>3. /\ main.at = "plate" /\ main'.at = "free" /\ main'.next = 0 /\ main.next = shared.lines
      /\ main' \in [at : JobPlaces, next : Nat, count : Int, error : BOOLEAN]
      /\ shared' = [shared EXCEPT !.held = shared.held \ {"states"}]
      /\ output' = Append(output, report) \/ output' = output
  BY <1>1, <1>2, JobsMain
     DEF Jobs!generate_report_file, Jobs!Releases, Jobs!Field, Jobs!Report, JobTypes
<1>4. /\ shared \in [job : JobFiles, lines : Nat, names : Seq({"name", "NULL"}), states : Seq(Int),
                     held : SUBSET Memory]
      /\ shared.lines \in Nat /\ shared.lines > 0
  BY <1>1, <1>3 DEF JobTypes, JobLines
<1>5. "states" \in shared.held
  <2>1. main.next # 0
    BY <1>3, <1>4
  <2> QED BY <1>1, <1>3, <2>1 DEF JobStates, Reading
<1>6. /\ DOMAIN shared.states = 1..shared.lines /\ shared.states \in Seq(Int)
      /\ \A l \in 1..shared.lines : shared.states[l] \in {l, -1}
      /\ Jobs!Serial => \A l \in 1..shared.lines : shared.states[l] = l
      /\ \A i \in DOMAIN output : shared.states[output[i].by] = output[i].by
      /\ \A i \in DOMAIN output : output[i].by \in 1..shared.lines
  BY <1>1, <1>3, <1>4, <1>5 DEF JobStates, Reading, JobOutput
<1>7. \A i \in DOMAIN output : /\ output[i].by > 0 /\ output[i].by <= shared.lines
                               /\ output[i].by # 0 /\ output[i].by # -1
  <2>1. \A m \in 1..shared.lines : m > 0 /\ m <= shared.lines /\ m # 0 /\ m # -1
    BY <1>4
  <2> QED BY <1>6, <2>1
<1>8. \A i \in DOMAIN output : /\ output[i].says = output[i].by
                               /\ \A j \in 1..i - 1 : output[j].by < output[i].by
  BY <1>1, <1>7 DEF JobOutput, Jobs!ReportIsWhole
<1> DEFINE Said == [by : Nat, says : Int \cup Seq(Int)]
<1>9. /\ output \in Seq(Said) /\ report \in Said /\ report.by = 0
      /\ report.says = shared.states
  BY <1>1, <1>6 DEF JobTypes
<1> HIDE DEF report, Said
<1>10. shared' = [job |-> shared.job, lines |-> shared.lines, names |-> shared.names,
                  states |-> shared.states, held |-> shared.held \ {"states"}]
  BY <1>3, <1>4
<1>11. /\ shared'.lines = shared.lines /\ shared'.states = shared.states
       /\ shared'.held = shared.held \ {"states"}
  BY <1>10
<1>12. /\ Append(output, report) \in Seq(Said) /\ k \in Nat
       /\ DOMAIN Append(output, report) = 1..k + 1 /\ DOMAIN output = 1..k
       /\ Append(output, report)[k + 1] = report
       /\ \A i \in 1..k : Append(output, report)[i] = output[i]
  BY <1>9, Appended
<1> HIDE DEF k
<1>13. /\ output' \in Seq(Said)
       /\ \A i \in DOMAIN output' :
            \/ i \in DOMAIN output /\ output'[i] = output[i]
            \/ i = k + 1 /\ output'[i] = report
       /\ \A i \in DOMAIN output :
            i \in DOMAIN output' /\ \A j \in 1..i - 1 : output'[j] = output[j]
  <2>1. CASE output' = output
    BY <1>9, <2>1
  <2>2. CASE output' = Append(output, report)
    <3>1. /\ \A i \in 1..k + 1 : i \in 1..k \/ i = k + 1
          /\ \A i \in 1..k : i \in 1..k + 1 /\ \A j \in 1..i - 1 : j \in 1..k
      BY <1>12
    <3> QED BY <1>12, <2>2, <3>1
  <2> QED BY <1>3, <2>1, <2>2
<1>14. JobTypes'
  <2>1. shared' \in [job : JobFiles, lines : Nat, names : Seq({"name", "NULL"}),
                     states : Seq(Int), held : SUBSET Memory]
    BY <1>4, <1>10
  <2> QED BY <1>3, <1>13, <2>1 DEF JobTypes, Said
<1>15. JobLines'
  BY <1>3, <1>4, <1>11 DEF JobLines
<1>16. (shared.held \subseteq HeldAt(main.at))'
  BY <1>1, <1>3, <1>11 DEF HeldAt
<1>17. JobStates'
  <2>1. "states" \notin shared'.held /\ main'.at \notin {"plate", "simulate", "write"}
    BY <1>3, <1>11
  <2> QED BY <2>1 DEF JobStates, Reading
<1>18. JobOutput'
  <2>1. "states" \notin shared'.held /\ ~Reading'
        /\ main'.at \notin {"start", "count", "read", "states"}
    BY <1>3, <1>11 DEF Reading
  <2>2. \A i \in DOMAIN output' : output'[i].by <= shared.lines
    <3>1. 0 <= shared.lines
      BY <1>4
    <3> QED BY <1>7, <1>9, <1>13, <3>1
  <2>3. \A line \in 1..shared.lines :
          shared.states[line] = -1 => ~Jobs!Serial /\ ~Jobs!Written(line)'
    <3> SUFFICES ASSUME NEW line \in 1..shared.lines, shared.states[line] = -1
                 PROVE  ~Jobs!Serial /\ ~Jobs!Written(line)'
      OBVIOUS
    <3>1. line # -1 /\ line > 0 /\ line # 0
      BY <1>4
    <3>2. ~Jobs!Serial
      BY <1>6, <3>1
    <3>3. \A i \in DOMAIN output' : output'[i].by # line
      BY <1>6, <1>9, <1>13, <3>1
    <3> QED BY <3>2, <3>3 DEF Jobs!Written
  <2>4. Jobs!ReportIsWhole'
    <3> SUFFICES ASSUME NEW i \in DOMAIN output'
                 PROVE  IF output'[i].by > 0
                        THEN /\ output'[i].says = output'[i].by
                             /\ \A j \in 1..i - 1 : output'[j].by < output'[i].by
                        ELSE /\ DOMAIN output'[i].says = 1..shared'.lines
                             /\ \A line \in 1..shared'.lines :
                                  /\ output'[i].says[line] \in {line, -1}
                                  /\ output'[i].says[line] = -1
                                       => ~Jobs!Serial' /\ ~Jobs!Written(line)'
      BY DEF Jobs!ReportIsWhole, Jobs!Unset
    <3>1. CASE i \in DOMAIN output /\ output'[i] = output[i]
      BY <1>7, <1>8, <1>13, <3>1
    <3>2. CASE output'[i] = report
      <4>1. ~(output'[i].by > 0) /\ output'[i].says = shared.states
        BY <1>9, <3>2
      <4>2. Jobs!Serial' = Jobs!Serial
        BY DEF Jobs!Serial
      <4> QED BY <1>6, <1>11, <2>3, <4>1, <4>2
    <3> QED BY <1>13, <3>1, <3>2
  <2> QED BY <1>11, <2>1, <2>2, <2>4 DEF JobOutput
<1> QED BY <1>14, <1>15, <1>16, <1>17, <1>18 DEF JobsInv

(* A line is left out by the programs that look at the array of states.    *)
LEMMA JobsSkip ==
  ASSUME JobsInv, UNCHANGED <<program, shared, output>>, Jobs!LinesLeft, ~Jobs!Serial,
         main' = [main EXCEPT !.next = @ + 1]
  PROVE  JobsInv'
<1> DEFINE n == main.next + 1
<1>1. JobTypes /\ JobLines /\ shared.held \subseteq HeldAt(main.at) /\ JobStates /\ JobOutput
  BY DEF JobsInv
<1>2. /\ main \in [at : JobPlaces, next : Nat, count : Int, error : BOOLEAN]
      /\ main.at = "plate" /\ main.next < shared.lines /\ shared.lines \in Nat
      /\ main' = [main EXCEPT !.next = n]
  BY <1>1 DEF Jobs!LinesLeft, JobTypes
<1>3. n \in Nat /\ n <= shared.lines /\ main.next <= n
  BY <1>2
<1> HIDE DEF n
<1>4. /\ main' = [at |-> "plate", next |-> n, count |-> main.count, error |-> main.error]
      /\ main'.at = "plate" /\ main'.next = n
  BY <1>2
<1>5. JobTypes'
  BY <1>1, <1>2, <1>3, <1>4 DEF JobTypes
<1>6. JobLines'
  BY <1>1, <1>2, <1>3, <1>4 DEF JobLines
<1>7. (shared.held \subseteq HeldAt(main.at))'
  BY <1>1, <1>2, <1>4 DEF HeldAt
<1>8. "states" \in shared.held /\ Reading
  BY <1>1, <1>2 DEF JobStates, Reading
<1>9. JobStates'
  <2>1. Jobs!Serial' = Jobs!Serial
    BY DEF Jobs!Serial
  <2> QED BY <1>1, <1>4, <1>8, <2>1 DEF JobStates
<1>10. JobOutput'
  BY <1>1, <1>3, <1>4, <1>8, JobOutputStays
<1> QED BY <1>5, <1>6, <1>7, <1>9, <1>10 DEF JobsInv

(* main() frees what it shares, and ends.                                  *)
LEMMA JobsFree ==
  ASSUME JobsInv, UNCHANGED program, Jobs!Free
  PROVE  JobsInv'
<1>1. JobTypes /\ JobLines /\ shared.held \subseteq HeldAt(main.at) /\ JobStates /\ JobOutput
  BY DEF JobsInv
<1>2. CASE Jobs!Undefined("free")
  BY <1>2, JobsQuiet DEF JobsGo, Jobs!Undefined
<1>3. CASE /\ Jobs!MainGoes("free", "ended") /\ output' = output
           /\ shared' = [shared EXCEPT !.held = shared.held \ {"variables"}]
  <2>1. "ended" \in JobPlaces
    BY DEF JobPlaces
  <2>2. /\ main.at = "free" /\ main'.at = "ended" /\ main'.next = 0
        /\ main' \in [at : JobPlaces, next : Nat, count : Int, error : BOOLEAN]
    BY <1>1, <1>3, <2>1, JobsMain
  <2>3. shared \in [job : JobFiles, lines : Nat, names : Seq({"name", "NULL"}), states : Seq(Int),
                    held : SUBSET Memory]
    BY <1>1 DEF JobTypes
  <2>4. shared' = [job |-> shared.job, lines |-> shared.lines, names |-> shared.names,
                   states |-> shared.states, held |-> shared.held \ {"variables"}]
    BY <1>3, <2>3
  <2>5. /\ shared'.lines = shared.lines /\ shared'.states = shared.states
        /\ shared'.held = shared.held \ {"variables"}
    BY <2>4
  <2>6. JobTypes'
    BY <1>1, <1>3, <2>2, <2>3, <2>4 DEF JobTypes
  <2>7. JobLines'
    BY <2>2, <2>3, <2>5 DEF JobLines
  <2>8. Jobs!Serial' = Jobs!Serial
    BY DEF Jobs!Serial
  <2>9. (shared.held \subseteq HeldAt(main.at))'
    BY <1>1, <2>2, <2>5, <2>8 DEF HeldAt
  <2>10. JobStates'
    BY <1>1, <1>3, <2>2, <2>5, JobStatesStay DEF Reading
  <2>11. JobOutput'
    BY <1>1, <1>3, <2>2, <2>5, JobOutputStays DEF Reading
  <2> QED BY <2>6, <2>7, <2>9, <2>10, <2>11 DEF JobsInv
<1> QED BY <1>2, <1>3 DEF Jobs!Free, Jobs!Releases, Jobs!Field

LEMMA JobsInitially ==
  Jobs!Init => JobsInv
<1> SUFFICES ASSUME Jobs!Init PROVE JobsInv
  OBVIOUS
<1>1. PICK job \in JobFiles :
        shared = [job |-> job, lines |-> 0, names |-> <<>>, states |-> <<>>, held |-> {}]
  BY DEF Jobs!Init, Jobs!Starts
<1>2. /\ main = [at |-> "start", next |-> 0, count |-> 0, error |-> FALSE]
      /\ output = <<>> /\ program \in Jobs!Programs
  BY DEF Jobs!Init, Jobs!Starts
<1>3. JobTypes
  BY <1>1, <1>2 DEF JobTypes, JobPlaces
<1>4. JobLines
  BY <1>1, <1>2 DEF JobLines
<1>5. shared.held \subseteq HeldAt(main.at)
  BY <1>1
<1>6. JobStates
  BY <1>1, <1>2 DEF JobStates, Reading
<1>7. JobOutput
  BY <1>1, <1>2 DEF JobOutput, Jobs!ReportIsWhole
<1> QED BY <1>2, <1>3, <1>4, <1>5, <1>6, <1>7 DEF JobsInv

LEMMA JobsKeep ==
  ASSUME JobsInv, Jobs!Step(Jobs!MainStep)
  PROVE  JobsInv'
<1>1. Jobs!MainStep /\ program' = program
  BY DEF Jobs!Step
<1>2. CASE Jobs!Begin \/ Jobs!Refuse
  <2>1. CASE Jobs!Begin
    BY <1>1, <2>1, JobsQuiet DEF Jobs!Begin, Jobs!Passes, JobsGo
  <2>2. CASE Jobs!Refuse
    BY <1>1, <2>2, JobsQuiet DEF Jobs!Refuse, JobsGo
  <2> QED BY <1>2, <2>1, <2>2
<1>3. CASE Jobs!read_job_txt
  BY <1>1, <1>3, JobsRead
<1>4. CASE Jobs!Free
  BY <1>1, <1>4, JobsFree
<1>5. CASE Jobs!AllocateStates
  BY <1>1, <1>5, JobsAllocate
<1>6. CASE Jobs!NameMissing
  BY <1>1, <1>6, JobsQuiet DEF Jobs!NameMissing, Jobs!Undefined, JobsGo
<1>7. CASE Jobs!Simulate \/ Jobs!generate_bin_file \/ Jobs!generate_report_file
  BY <1>1, <1>7, JobsSimulate, JobsWrite, JobsReport
<1>8. CASE Jobs!SerialReadBinPlate /\ Jobs!Serial
  <2>1. CASE Jobs!NoStates("plate")
    BY <1>1, <1>8, <2>1, JobsQuiet DEF Jobs!NoStates, JobsGo
  <2>2. CASE Jobs!MainGoes("plate", "free") /\ UNCHANGED <<shared, output>>
    BY <1>1, <1>8, <2>2, JobsQuiet DEF JobsGo
  <2>3. CASE Jobs!PlateIs({"whole", "short"}) /\ Jobs!Holding({"matrix", "plate file"})
    <3>1. {"matrix", "plate file"} \subseteq {"matrix", "plate file"} /\ Jobs!LinesLeft
      BY <2>3 DEF Jobs!PlateIs
    <3> QED BY <1>1, <2>3, <3>1, JobsHold
  <2> QED BY <1>5, <1>6, <1>7, <1>8, <2>1, <2>2, <2>3 DEF Jobs!SerialReadBinPlate
<1>9. CASE Jobs!OmpReadBinPlate /\ ~Jobs!Serial
  <2>1. CASE Jobs!NoStates("free")
    BY <1>1, <1>9, <2>1, JobsQuiet DEF Jobs!NoStates, JobsGo
  <2>2. CASE /\ Jobs!LinesLeft /\ main' = [main EXCEPT !.next = @ + 1]
             /\ UNCHANGED <<shared, output>>
    BY <1>1, <1>9, <2>2, JobsSkip
  <2>3. CASE Jobs!PlateIs({"whole"}) /\ Jobs!Holding({"matrix"})
    <3>1. {"matrix"} \subseteq {"matrix", "plate file"} /\ Jobs!LinesLeft
      BY <2>3 DEF Jobs!PlateIs
    <3> QED BY <1>1, <2>3, <3>1, JobsHold
  <2>4. CASE Jobs!Undefined("plate")
    BY <1>1, <2>4, JobsQuiet DEF Jobs!Undefined, JobsGo
  <2> QED BY <1>5, <1>6, <1>7, <1>9, <2>1, <2>2, <2>3, <2>4 DEF Jobs!OmpReadBinPlate
<1>10. Jobs!Serial <=> program = "heatsim_serial"
  BY DEF Jobs!Serial
<1> QED BY <1>1, <1>2, <1>3, <1>4, <1>8, <1>9, <1>10
        DEF Jobs!MainStep, Jobs!SerialMain, Jobs!OmpMain, Jobs!PthreadsMain,
            Jobs!PthreadReadBinPlate

LEMMA JobsPromise ==
  ASSUME JobsInv
  PROVE  Jobs!TypeOK /\ Jobs!ReportIsWhole /\ Jobs!MemoryReleased
<1>1. JobTypes /\ JobLines /\ shared.held \subseteq HeldAt(main.at) /\ JobStates /\ JobOutput
  BY DEF JobsInv
<1>2. Jobs!ReportIsWhole
  BY <1>1 DEF JobOutput
<1>3. Jobs!TypeOK
  <2>1. main.at \in JobPlaces /\ main.next \in 0..shared.lines
    BY <1>1 DEF JobTypes, JobLines
  <2>2. \A i \in DOMAIN output : output[i].by \in 0..shared.lines
    <3> SUFFICES ASSUME NEW i \in DOMAIN output PROVE output[i].by \in 0..shared.lines
      OBVIOUS
    <3> DEFINE Said == [by : Nat, says : Int \cup Seq(Int)]
    <3>1. output \in Seq(Said) /\ shared.lines \in Nat /\ output[i].by <= shared.lines
      BY <1>1 DEF JobTypes, JobOutput
    <3> HIDE DEF Said
    <3>2. output[i] \in Said
      BY <3>1
    <3>3. output[i].by \in Nat
      BY <3>2 DEF Said
    <3> QED BY <3>1, <3>3
  <2> QED BY <2>1, <2>2 DEF JobsInv, JobPlaces, Jobs!TypeOK
<1>4. Jobs!MemoryReleased
  <2>1. main.at \notin {"simulate", "write", "undefined"} =>
          shared.held \cap {"matrix", "plate file"} = {}
    <3>1. main.at \in JobPlaces
      BY <1>1 DEF JobTypes
    <3> QED BY <1>1, <3>1 DEF HeldAt, JobPlaces
  <2>2. main.at = "ended" => shared.held \subseteq (IF Jobs!Serial THEN {"states"} ELSE {})
    BY <1>1 DEF HeldAt
  <2>3. \A i \in DOMAIN output : output[i].by = 0 => "states" \notin shared.held
    BY <1>1 DEF JobOutput
  <2> QED BY <2>1, <2>2, <2>3 DEF Jobs!MemoryReleased
<1> QED BY <1>2, <1>3, <1>4

-----------------------------------------------------------------------------
(* The web server: whose the descriptors are at every place of main, and   *)
(* of stop(), and what the clients were answered.  The listening socket is *)
(* the lowest descriptor, so that a client gets it only after stop().      *)
Serving == {"request", "header", "body", "respond", "not found", "close", "destroy"}
Responding == {"respond", "not found"}
WebPlaces == {"start", "fetch", "open", "bind", "listen", "accept", "accepting", "stop",
              "free", "ended"} \cup Serving
WebFields == {"socket", "checked", "addresses", "owner", "clients", "client", "request", "file",
              "input", "parsed", "handled", "cut", "servedAtStop"}
Word == {"home", "fact", "other", "not found"}
WebWords == Seq(Word)
WebSent == [by : Nat, says : WebWords]

WebMain ==
  /\ main \in [at : WebPlaces, next : {0}, count : {1}, error : BOOLEAN]
  /\ at \in [{0} -> {"unborn", "stopping", "done"}]
  /\ DOMAIN shared = WebFields

WebTypes ==
  /\ shared.clients \in 0..MostClients /\ shared.client \in 0..shared.clients
  /\ shared.addresses \in 0..MostAddresses /\ shared.servedAtStop \in Int
  /\ main.at = "bind" => shared.addresses > 0

WebOwners ==
  /\ shared.owner \in [3..5 -> {"free", "listener", "client"}]
  /\ shared.socket \in {-1, 3} /\ shared.checked \in {-1, 3} /\ shared.file \in {-1, 3, 4}
  /\ main.at = "ended" => \A f \in 3..5 : shared.owner[f] = "free"
  /\ main.at # "ended" =>
       /\ shared.owner[5] = "free"
       /\ shared.owner[4] = IF shared.file = 4 THEN "client" ELSE "free"
       /\ shared.owner[3] = "client" <=> shared.file = 3
       /\ shared.owner[3] = "listener" => shared.socket = 3
  /\ main.at \in {"start", "fetch", "open"} => shared.owner[3] = "free"
  /\ main.at \in {"bind", "listen", "accept", "accepting"} \cup Serving =>
       /\ shared.socket = 3
       /\ shared.owner[3] # "listener" => at[0] = "done"
  /\ main.at \notin Serving \cup {"ended"} => shared.file = -1

WebStops ==
  shared.servedAtStop >= 0 =>
    /\ at[0] = "done" /\ shared.owner[3] # "listener"
    /\ main.at \notin {"start", "fetch", "open", "bind"}
    /\ shared.client <= shared.servedAtStop + 1
    /\ main.at = "accepting" => shared.client = shared.servedAtStop

WebAnswers ==
  /\ output \in Seq(WebSent)
  /\ \A i \in DOMAIN output : output[i].by <= shared.client
  /\ main.at \in Serving \ {"close", "destroy"} =>
       \A i \in DOMAIN output : output[i].by < shared.client
  /\ main.at \in Serving =>
       /\ DOMAIN shared.request = {"asks", "keepAlive", "announces", "segments", "hangsUp"}
       /\ shared.request.asks \in {"home", "fact", "other"}
  /\ main.at = "not found" => shared.cut
  /\ Web!ResponsesInOrder

WebInv ==
  /\ program \in Web!Programs /\ WebMain /\ WebTypes /\ WebOwners /\ WebStops /\ WebAnswers

LEMMA WebDoes ==
  ASSUME WebMain, NEW from, NEW to \in WebPlaces, NEW fields, Web!Does(from, to, fields)
  PROVE  /\ main.at = from /\ main'.at = to /\ at' = at /\ WebMain'
         /\ \A name \in WebFields :
              shared'[name] = IF name \in DOMAIN fields THEN fields[name] ELSE shared[name]
<1>1. /\ main.at = from /\ main' = [main EXCEPT !.at = to, !.next = 0] /\ at' = at
      /\ shared' = [name \in DOMAIN shared |->
                      IF name \in DOMAIN fields THEN fields[name] ELSE shared[name]]
  BY DEF Web!Does, Web!MainGoes
<1>2. main \in [at : WebPlaces, next : {0}, count : {1}, error : BOOLEAN]
  BY DEF WebMain
<1>3. main' = [at |-> to, next |-> 0, count |-> 1, error |-> main.error]
  BY <1>1, <1>2
<1>4. main' \in [at : WebPlaces, next : {0}, count : {1}, error : BOOLEAN] /\ main'.at = to
  BY <1>2, <1>3
<1>5. DOMAIN shared' = WebFields
  BY <1>1 DEF WebMain
<1> QED BY <1>1, <1>4, <1>5 DEF WebMain

LEMMA WebPasses ==
  ASSUME WebMain, NEW from, NEW to \in WebPlaces,
         \/ Web!MainGoes(from, to) /\ UNCHANGED <<at, shared>>
         \/ Web!MainFails(from, to) /\ UNCHANGED at /\ DOMAIN shared' = DOMAIN shared
  PROVE  main.at = from /\ main'.at = to /\ at' = at /\ WebMain'
<1>1. /\ main.at = from /\ at' = at /\ DOMAIN shared' = DOMAIN shared
      /\ \E error \in BOOLEAN : main' = [main EXCEPT !.at = to, !.next = 0, !.error = error]
  <2>1. CASE Web!MainGoes(from, to) /\ UNCHANGED <<at, shared>>
    <3>1. main' = [main EXCEPT !.at = to, !.next = 0, !.error = main.error] /\ main.error \in BOOLEAN
      BY <2>1 DEF WebMain, Web!MainGoes
    <3> QED BY <2>1, <3>1 DEF Web!MainGoes
  <2>2. CASE Web!MainFails(from, to) /\ UNCHANGED at /\ DOMAIN shared' = DOMAIN shared
    BY <2>2 DEF Web!MainFails
  <2> QED BY <2>1, <2>2
<1>2. main \in [at : WebPlaces, next : {0}, count : {1}, error : BOOLEAN]
  BY DEF WebMain
<1>3. \E error \in BOOLEAN : main' = [at |-> to, next |-> 0, count |-> 1, error |-> error]
  BY <1>1, <1>2
<1>4. main' \in [at : WebPlaces, next : {0}, count : {1}, error : BOOLEAN] /\ main'.at = to
  BY <1>3
<1> QED BY <1>1, <1>4 DEF WebMain

(* Steps that leave the descriptors and the clients alone.                 *)
WebKept ==
  /\ UNCHANGED at
  /\ shared'.owner = shared.owner /\ shared'.file = shared.file
  /\ shared'.socket = shared.socket /\ shared'.checked = shared.checked
  /\ shared'.client = shared.client /\ shared'.clients = shared.clients
  /\ shared'.servedAtStop = shared.servedAtStop /\ shared'.addresses \in 0..MostAddresses

WebPath(from, to) ==
  \/ from \in Serving /\ to \in Serving
  \/ from = "start" /\ to \in {"fetch", "free"}
  \/ from = "fetch" /\ to = "open"
  \/ from \in {"fetch", "open", "bind", "listen", "accept"} /\ to = "stop"
  \/ from = "stop" /\ to = "free"
  \/ from = "bind" /\ to = "listen" /\ Web!Listening
  \/ from = "listen" /\ to = "accept" /\ Web!Listening
  \/ from = "accept" /\ to = "accepting" /\ Web!Listening

LEMMA WebStateKept ==
  ASSUME WebTypes, WebOwners, WebStops, WebKept, WebPath(main.at, main'.at)
  PROVE  WebTypes' /\ WebOwners' /\ WebStops'
<1>1. WebTypes'
  <2>1. main'.at # "bind"
    BY DEF WebPath, Serving
  <2> QED BY <2>1 DEF WebTypes, WebKept
<1>2. WebOwners'
  BY DEF WebOwners, WebKept, WebPath, Serving
<1>3. WebStops'
  BY DEF WebOwners, WebStops, WebKept, WebPath, Web!Listening, Serving
<1> QED BY <1>1, <1>2, <1>3

(* What the clients were answered stays as it is.  Where it comes to the   *)
(* end of a connection, the request was not read as it was sent, or the    *)
(* client hung up, or it was answered, or the response was cut.            *)
LEMMA WebAnswersStay ==
  ASSUME WebAnswers, output' = output, shared'.client = shared.client,
         DOMAIN shared'.request = DOMAIN shared.request,
         shared'.request.asks = shared.request.asks,
         shared.cut => shared'.cut,
         main'.at \in Serving => main.at \in Serving,
         main'.at \in Serving \ {"close", "destroy"} => main.at \in Serving \ {"close", "destroy"},
         main'.at = "not found" => shared'.cut,
         main'.at \in {"close", "destroy"} =>
           \/ /\ main.at \in {"close", "destroy"} /\ shared'.request = shared.request
              /\ shared'.parsed = shared.parsed /\ shared'.cut = shared.cut
           \/ ~shared'.parsed
           \/ shared'.cut
           \/ shared'.request.segments = <<>> /\ shared'.request.hangsUp
  PROVE  WebAnswers'
<1>1. Web!ResponsesInOrder'
  <2>1. \A i \in DOMAIN output : \A j \in 1..i - 1 : output[j].by < output[i].by
    BY DEF WebAnswers, Web!ResponsesInOrder
  <2>2. \A i \in DOMAIN output :
          output[i].by = shared'.client =>
            /\ Head(output[i].says) \in {shared'.request.asks, "not found"}
            /\ Head(output[i].says) = "not found" => shared'.request.asks = "other"
            /\ Len(output[i].says) > 1 => shared'.cut
    BY DEF WebAnswers, Web!ResponsesInOrder
  <2>3. main'.at \in {"close", "destroy"} /\ shared'.parsed
         /\ ~(shared'.request.segments = <<>> /\ shared'.request.hangsUp) =>
          Web!Answered(shared'.client) \/ shared'.cut
    BY DEF WebAnswers, Web!ResponsesInOrder, Web!Segments, Web!Answered
  <2> QED BY <2>1, <2>2, <2>3 DEF Web!ResponsesInOrder, Web!Segments, Web!Answered
<1>2. main'.at \in Serving =>
        /\ DOMAIN shared'.request = {"asks", "keepAlive", "announces", "segments", "hangsUp"}
        /\ shared'.request.asks \in {"home", "fact", "other"}
  BY DEF WebAnswers
<1>3. main'.at \in Serving \ {"close", "destroy"} =>
        \A i \in DOMAIN output : output[i].by < shared'.client
  BY DEF WebAnswers
<1> QED BY <1>1, <1>2, <1>3 DEF WebAnswers

(* A step of main that changes neither.                                    *)
LEMMA WebQuietly ==
  ASSUME WebInv, UNCHANGED <<program, output>>, WebMain', WebKept, WebPath(main.at,
         main'.at),
         main'.at \notin Serving, shared'.request = shared.request, shared'.cut = shared.cut
  PROVE  WebInv'
<1>1. WebMain /\ WebTypes /\ WebOwners /\ WebStops /\ WebAnswers
  BY DEF WebInv
<1>2. WebTypes' /\ WebOwners' /\ WebStops'
  BY <1>1, WebStateKept
<1>3. shared'.client = shared.client /\ output' = output
  BY DEF WebKept
<1>4. main'.at # "not found" /\ main'.at \notin {"close", "destroy"}
  BY DEF Serving
<1>5. WebAnswers'
  BY <1>1, <1>3, <1>4, WebAnswersStay
<1> QED BY <1>2, <1>5 DEF WebInv

(* fetchAvailableAddresses, listenForConnections, and the ways out.        *)
LEMMA WebThrows ==
  ASSUME WebInv, UNCHANGED program,
         NEW from \in {"fetch", "open", "bind", "listen", "accept"}, Web!Throws(from)
  PROVE  WebInv'
<1>1. WebMain /\ WebTypes
  BY DEF WebInv
<1>2. Web!Does(from, "stop", [handled |-> FALSE]) /\ output' = output
  BY DEF Web!Throws, Web!Quietly
<1>3. "stop" \in WebPlaces /\ "stop" \notin Serving
  BY DEF WebPlaces, Serving
<1>4. /\ main.at = from /\ main'.at = "stop" /\ at' = at /\ WebMain'
      /\ \A name \in WebFields :
           shared'[name] = IF name \in DOMAIN [handled |-> FALSE]
                           THEN [handled |-> FALSE][name] ELSE shared[name]
  BY <1>1, <1>2, <1>3, WebDoes
<1>5. /\ WebKept /\ shared'.request = shared.request /\ shared'.cut = shared.cut
  BY <1>1, <1>4 DEF WebKept, WebFields, WebTypes
<1> QED BY <1>2, <1>3, <1>4, <1>5, WebQuietly DEF WebPath

LEMMA WebPassesOn ==
  ASSUME WebInv, UNCHANGED program, NEW from, NEW to \in WebPlaces \ Serving,
         Web!Passes(from, to), WebPath(from, to)
  PROVE  WebInv'
<1>1. WebMain /\ WebTypes
  BY DEF WebInv
<1>2. Web!MainGoes(from, to) /\ UNCHANGED <<at, shared, output>>
  BY DEF Web!Passes
<1>3. main.at = from /\ main'.at = to /\ WebMain'
  BY <1>1, <1>2, WebPasses
<1>4. WebKept
  BY <1>1, <1>2 DEF WebKept, WebTypes
<1> QED BY <1>2, <1>3, <1>4, WebQuietly

LEMMA WebFetches ==
  ASSUME WebInv, UNCHANGED program, Web!fetchAvailableAddresses
  PROVE  WebInv'
<1>1. WebMain /\ WebTypes
  BY DEF WebInv
<1>2. ASSUME NEW n \in 1..MostAddresses, Web!Does("fetch", "open", [addresses |-> n]), Web!Quietly
      PROVE  WebInv'
  <2>1. "open" \in WebPlaces /\ "open" \notin Serving
    BY DEF WebPlaces, Serving
  <2> DEFINE fields == [addresses |-> n]
  <2>2. /\ main.at = "fetch" /\ main'.at = "open" /\ at' = at /\ WebMain'
        /\ \A name \in WebFields :
             shared'[name] = IF name \in DOMAIN fields THEN fields[name] ELSE shared[name]
    BY <1>1, <1>2, <2>1, WebDoes
  <2>3. n \in 0..MostAddresses
    OBVIOUS
  <2>4. /\ WebKept /\ shared'.request = shared.request /\ shared'.cut = shared.cut
    BY <2>2, <2>3 DEF WebKept, WebFields
  <2> QED BY <1>2, <2>1, <2>2, <2>4, WebQuietly DEF WebPath, Web!Quietly
<1> QED BY <1>2, WebThrows DEF Web!fetchAvailableAddresses

LEMMA WebLowest ==
  ASSUME WebOwners, main.at # "ended"
  PROVE  /\ shared.owner[3] = "free" => Web!Lowest = 3
         /\ shared.owner[3] # "free" /\ shared.owner[4] = "free" => Web!Lowest = 4
<1> DEFINE S == {f \in Web!Descriptors : shared.owner[f] = "free"}
<1>1. S \subseteq {3, 4, 5} /\ (3 \in S <=> shared.owner[3] = "free")
      /\ (4 \in S <=> shared.owner[4] = "free")
  BY DEF Web!Descriptors
<1> HIDE DEF S
<1>2. ASSUME 3 \in S PROVE (CHOOSE x \in S : \A y \in S : x <= y) = 3
  <2>1. /\ \A y \in S : 3 <= y
        /\ \A x \in S : (\A y \in S : x <= y) => x = 3
    BY <1>1, <1>2
  <2> QED BY <1>2, <2>1, Zenon
<1>3. ASSUME 3 \notin S, 4 \in S PROVE (CHOOSE x \in S : \A y \in S : x <= y) = 4
  <2>1. /\ \A y \in S : 4 <= y
        /\ \A x \in S : (\A y \in S : x <= y) => x = 4
    BY <1>1, <1>3
  <2> QED BY <1>3, <2>1, Zenon
<1> QED BY <1>1, <1>2, <1>3 DEF Web!Lowest, Web!Min, S

(* A number of a step that changes the owners, outside of the service.     *)
LEMMA WebOutside ==
  ASSUME WebInv, UNCHANGED <<program, output>>, WebMain', main'.at \notin Serving,
         shared'.client = shared.client, shared'.clients = shared.clients,
         shared'.request = shared.request, shared'.cut = shared.cut,
         shared'.servedAtStop = shared.servedAtStop, shared'.addresses \in 0..MostAddresses,
         main'.at = "bind" => shared'.addresses > 0, WebOwners', WebStops'
  PROVE  WebInv'
<1>1. WebMain /\ WebTypes /\ WebAnswers
  BY DEF WebInv
<1>2. WebTypes'
  BY <1>1 DEF WebTypes
<1>3. main'.at # "not found" /\ main'.at \notin {"close", "destroy"}
  BY DEF Serving
<1>4. WebAnswers'
  BY <1>1, <1>3, WebAnswersStay
<1> QED BY <1>2, <1>4 DEF WebInv

(* openConnectionRequestSocket.                                            *)
LEMMA WebOpens ==
  ASSUME WebInv, UNCHANGED program, Web!openConnectionRequestSocket
  PROVE  WebInv'
<1>1. WebMain /\ WebTypes /\ WebOwners /\ WebStops
  BY DEF WebInv
<1>2. /\ "open" \in WebPlaces /\ "open" \notin Serving
      /\ "bind" \in WebPlaces /\ "bind" \notin Serving
  BY DEF WebPlaces, Serving
<1>3. CASE /\ shared.addresses > 0 /\ Web!Quietly
           /\ Web!Does("open", "bind", [socket |-> Web!Lowest,
                                        owner |-> Web!Owning(Web!Lowest, "listener")])
  <2> DEFINE fields == [socket |-> Web!Lowest, owner |-> Web!Owning(Web!Lowest, "listener")]
  <2>1. /\ main.at = "open" /\ main'.at = "bind" /\ at' = at /\ WebMain'
        /\ \A name \in WebFields :
             shared'[name] = IF name \in DOMAIN fields THEN fields[name] ELSE shared[name]
    BY <1>1, <1>2, <1>3, WebDoes
  <2>2. shared.owner[3] = "free"
    BY <1>1, <2>1 DEF WebOwners
  <2>3. Web!Lowest = 3
    BY <1>1, <2>1, <2>2, WebLowest
  <2>4. /\ shared'.socket = 3 /\ shared'.owner = [shared.owner EXCEPT ![3] = "listener"]
        /\ shared'.file = shared.file /\ shared'.checked = shared.checked
        /\ shared'.client = shared.client /\ shared'.clients = shared.clients
        /\ shared'.request = shared.request /\ shared'.cut = shared.cut
        /\ shared'.servedAtStop = shared.servedAtStop /\ shared'.addresses = shared.addresses
    BY <2>1, <2>3 DEF WebFields, Web!Owning
  <2>5. WebOwners'
    BY <1>1, <2>1, <2>4 DEF WebOwners, Serving
  <2>6. WebStops'
    BY <1>1, <2>1, <2>4 DEF WebStops
  <2>7. /\ shared'.addresses \in 0..MostAddresses /\ shared'.addresses > 0
        /\ output' = output
    BY <1>1, <1>3, <2>4 DEF WebTypes, Web!Quietly
  <2> QED BY <1>2, <2>1, <2>4, <2>5, <2>6, <2>7, WebOutside
<1>4. CASE /\ shared.addresses > 0 /\ Web!Quietly
           /\ Web!Does("open", "open", [socket |-> -1, addresses |-> shared.addresses - 1])
  <2> DEFINE fields == [socket |-> -1, addresses |-> shared.addresses - 1]
  <2>1. /\ main.at = "open" /\ main'.at = "open" /\ at' = at /\ WebMain'
        /\ \A name \in WebFields :
             shared'[name] = IF name \in DOMAIN fields THEN fields[name] ELSE shared[name]
    BY <1>1, <1>2, <1>4, WebDoes
  <2>2. /\ shared'.socket = -1 /\ shared'.owner = shared.owner
        /\ shared'.file = shared.file /\ shared'.checked = shared.checked
        /\ shared'.client = shared.client /\ shared'.clients = shared.clients
        /\ shared'.request = shared.request /\ shared'.cut = shared.cut
        /\ shared'.servedAtStop = shared.servedAtStop /\ shared'.addresses = shared.addresses - 1
    BY <2>1 DEF WebFields
  <2>3. WebOwners'
    BY <1>1, <2>1, <2>2 DEF WebOwners, Serving
  <2>4. WebStops'
    BY <1>1, <2>1, <2>2 DEF WebStops
  <2>5. shared'.addresses \in 0..MostAddresses
    <3>1. /\ shared.addresses \in 0..MostAddresses /\ shared.addresses > 0
          /\ shared'.addresses = shared.addresses - 1 /\ MostAddresses \in Nat
      BY <1>1, <1>4, <2>2, NumbersAssumption DEF WebTypes
    <3> QED BY ONLY <3>1
  <2> QED BY <1>2, <1>4, <2>1, <2>2, <2>3, <2>4, <2>5, WebOutside DEF Web!Quietly
<1>5. CASE /\ Web!Quietly
           /\ Web!Does("bind", "open", [owner |-> Web!Closed(shared.socket),
                                        addresses |-> shared.addresses - 1])
  <2> DEFINE fields == [owner |-> Web!Closed(shared.socket), addresses |-> shared.addresses - 1]
  <2>1. /\ main.at = "bind" /\ main'.at = "open" /\ at' = at /\ WebMain'
        /\ \A name \in WebFields :
             shared'[name] = IF name \in DOMAIN fields THEN fields[name] ELSE shared[name]
    BY <1>1, <1>2, <1>5, WebDoes
  <2>2. shared.socket = 3
    BY <1>1, <2>1 DEF WebOwners
  <2>3. /\ shared'.socket = 3 /\ shared'.owner = [shared.owner EXCEPT ![3] = "free"]
        /\ shared'.file = shared.file /\ shared'.checked = shared.checked
        /\ shared'.client = shared.client /\ shared'.clients = shared.clients
        /\ shared'.request = shared.request /\ shared'.cut = shared.cut
        /\ shared'.servedAtStop = shared.servedAtStop /\ shared'.addresses = shared.addresses - 1
    BY <2>1, <2>2 DEF WebFields, Web!Closed, Web!Owning
  <2>4. WebOwners'
    BY <1>1, <2>1, <2>3 DEF WebOwners, Serving
  <2>5. WebStops'
    BY <1>1, <2>1, <2>3 DEF WebStops
  <2>6. shared'.addresses \in 0..MostAddresses
    <3>1. /\ shared.addresses \in 0..MostAddresses /\ shared.addresses > 0
          /\ shared'.addresses = shared.addresses - 1 /\ MostAddresses \in Nat
      BY <1>1, <2>1, <2>3, NumbersAssumption DEF WebTypes
    <3> QED BY ONLY <3>1
  <2> QED BY <1>2, <1>5, <2>1, <2>3, <2>4, <2>5, <2>6, WebOutside DEF Web!Quietly
<1>6. CASE Web!Listening /\ Web!Passes("bind", "listen")
  <2>1. "listen" \in WebPlaces \ Serving /\ WebPath("bind", "listen")
    BY <1>6 DEF WebPlaces, Serving, WebPath
  <2> QED BY <1>6, <2>1, WebPassesOn
<1> QED BY <1>3, <1>4, <1>5, <1>6, WebThrows DEF Web!openConnectionRequestSocket

(* A client is given the lowest descriptor: after stop(), that of the      *)
(* listening socket, and only if accept() was waiting.                     *)
LEMMA WebAccepts ==
  ASSUME WebInv, UNCHANGED program, Web!acceptConnectionRequest
  PROVE  WebInv'
<1>1. WebMain /\ WebTypes /\ WebOwners /\ WebStops /\ WebAnswers /\ Web!ResponsesInOrder
  BY DEF WebInv, WebAnswers
<1>2. CASE Web!Throws("accept")
  BY <1>2, WebThrows
<1>3. CASE Web!Listening /\ Web!Passes("accept", "accepting")
  <2>1. "accepting" \in WebPlaces \ Serving /\ WebPath("accept", "accepting")
    BY <1>3 DEF WebPlaces, Serving, WebPath
  <2> QED BY <1>3, <2>1, WebPassesOn
<1>4. ASSUME shared.client < shared.clients, Web!Quietly, NEW request \in Requests,
             Web!Does("accepting", "request",
                      [client |-> shared.client + 1, request |-> request, input |-> <<>>,
                       parsed |-> TRUE, handled |-> FALSE, cut |-> FALSE,
                       file |-> Web!Lowest, owner |-> Web!Owning(Web!Lowest, "client")])
      PROVE  WebInv'
  <2> DEFINE fields == [client |-> shared.client + 1, request |-> request, input |-> <<>>,
                        parsed |-> TRUE, handled |-> FALSE, cut |-> FALSE,
                        file |-> Web!Lowest, owner |-> Web!Owning(Web!Lowest, "client")]
             f == Web!Lowest
  <2>1. "request" \in WebPlaces /\ "request" \in Serving
    BY DEF WebPlaces, Serving
  <2>2. /\ main.at = "accepting" /\ main'.at = "request" /\ at' = at /\ WebMain'
        /\ \A name \in WebFields :
             shared'[name] = IF name \in DOMAIN fields THEN fields[name] ELSE shared[name]
    BY <1>1, <1>4, <2>1, WebDoes
  <2>3. /\ shared.socket = 3 /\ shared.file = -1 /\ shared.owner[4] = "free"
        /\ shared.owner[3] \in {"free", "listener"}
        /\ shared.owner[3] = "free" => at[0] = "done"
        /\ shared.owner \in [3..5 -> {"free", "listener", "client"}]
        /\ shared.owner[5] = "free"
    BY <1>1, <2>2 DEF WebOwners, Serving
  <2>4. /\ shared.owner[3] = "free" => f = 3
        /\ shared.owner[3] = "listener" => f = 4
    BY <1>1, <2>2, <2>3, WebLowest
  <2>5. /\ shared'.owner = [shared.owner EXCEPT ![f] = "client"] /\ shared'.file = f
        /\ shared'.socket = 3 /\ shared'.checked = shared.checked
        /\ shared'.client = shared.client + 1 /\ shared'.clients = shared.clients
        /\ shared'.request = request /\ shared'.cut = FALSE
        /\ shared'.servedAtStop = shared.servedAtStop /\ shared'.addresses = shared.addresses
    BY <2>2, <2>3 DEF WebFields, Web!Owning
  <2>6. /\ shared'.owner[3] = (IF f = 3 THEN "client" ELSE shared.owner[3])
        /\ shared'.owner[4] = (IF f = 4 THEN "client" ELSE "free")
        /\ shared'.owner[5] = "free"
        /\ shared'.owner \in [3..5 -> {"free", "listener", "client"}]
    BY <2>3, <2>4, <2>5
  <2> HIDE DEF f, fields
  <2>7. WebOwners'
    BY <1>1, <2>1, <2>2, <2>3, <2>4, <2>5, <2>6 DEF WebOwners
  <2>8. WebStops'
    BY <1>1, <1>4, <2>2, <2>3, <2>4, <2>5, <2>6 DEF WebStops, WebTypes
  <2>9. WebTypes'
    BY <1>1, <1>4, <2>2, <2>5 DEF WebTypes
  <2>10. /\ DOMAIN request = {"asks", "keepAlive", "announces", "segments", "hangsUp"}
         /\ request.asks \in {"home", "fact", "other"}
    BY RequestsAssumption
  <2>11. /\ output' = output
         /\ \A i \in DOMAIN output : output[i].by < shared.client + 1 /\ output[i].by # shared.client + 1
                                     /\ output[i].by <= shared.client + 1
    <3> DEFINE Sent == WebSent
    <3>1. output \in Seq(Sent) /\ \A i \in DOMAIN output : output[i].by <= shared.client
      BY <1>1 DEF WebAnswers
    <3>2. \A i \in DOMAIN output : output[i].by \in Nat
      <4>1. \A i \in DOMAIN output : output[i] \in Sent
        BY <3>1
      <4> QED BY <4>1 DEF WebSent
    <3>3. shared.client \in Nat
      BY <1>1 DEF WebTypes
    <3> QED BY <1>4, <3>1, <3>2, <3>3 DEF Web!Quietly
  <2>12. Web!ResponsesInOrder'
    BY <1>1, <2>2, <2>5, <2>11 DEF Web!ResponsesInOrder
  <2>13. WebAnswers'
    BY <1>1, <2>2, <2>5, <2>10, <2>11, <2>12 DEF WebAnswers
  <2> QED BY <2>2, <2>7, <2>8, <2>9, <2>13 DEF WebInv
<1> QED BY <1>2, <1>3, <1>4 DEF Web!acceptConnectionRequest

(* The service: reading the request.                                       *)
WebService ==
  Web!parseRequestLine \/ Web!parseHeader \/ Web!parseBody

LEMMA WebReads ==
  ASSUME WebInv, UNCHANGED program, WebService
  PROVE  WebInv'
<1>1. WebMain /\ WebTypes /\ WebOwners /\ WebStops /\ WebAnswers
  BY DEF WebInv
(* The stream of the client moves on, or its segments; a line that was not *)
(* whole is all that may lead to the end of the connection, or a client    *)
(* that hung up.                                                           *)
<1>2. ASSUME NEW from \in {"request", "header", "body"},
             NEW to \in {"request", "header", "body", "respond", "destroy"},
             NEW fields, DOMAIN fields \subseteq {"input", "request", "parsed"},
             Web!Does(from, to, fields), output' = output,
             "request" \in DOMAIN fields =>
               fields.request = [shared.request EXCEPT !.segments = Tail(@)],
             to = "destroy" => \/ "parsed" \in DOMAIN fields /\ fields.parsed = FALSE
                               \/ /\ shared.request.segments = <<>> /\ shared.request.hangsUp
                                  /\ "request" \notin DOMAIN fields
      PROVE  WebInv'
  <2>1. to \in WebPlaces /\ from \in Serving \ {"close", "destroy"} /\ to \in Serving
        /\ to # "not found" /\ to # "close"
    BY <1>2 DEF WebPlaces, Serving
  <2>2. /\ main.at = from /\ main'.at = to /\ at' = at /\ WebMain'
        /\ \A name \in WebFields :
             shared'[name] = IF name \in DOMAIN fields THEN fields[name] ELSE shared[name]
    BY <1>1, <1>2, <2>1, WebDoes
  <2>3. /\ WebKept /\ shared'.cut = shared.cut
    BY <1>1, <1>2, <2>2 DEF WebKept, WebFields, WebTypes
  <2>4. WebTypes' /\ WebOwners' /\ WebStops'
    BY <1>1, <2>1, <2>2, <2>3, WebStateKept DEF WebPath
  <2>5. /\ DOMAIN shared.request = {"asks", "keepAlive", "announces", "segments", "hangsUp"}
    BY <1>1, <2>1, <2>2 DEF WebAnswers
  <2>6. shared'.request = IF "request" \in DOMAIN fields
                          THEN [shared.request EXCEPT !.segments = Tail(@)] ELSE shared.request
    BY <1>2, <2>2 DEF WebFields
  <2>7. DOMAIN shared'.request = DOMAIN shared.request /\ shared'.request.asks = shared.request.asks
    BY <2>5, <2>6
  <2>8. shared'.parsed = IF "parsed" \in DOMAIN fields THEN fields.parsed ELSE shared.parsed
    BY <2>2 DEF WebFields
  <2>9. to = "destroy" => \/ ~shared'.parsed
                          \/ shared'.request.segments = <<>> /\ shared'.request.hangsUp
    <3>1. CASE "parsed" \in DOMAIN fields /\ fields.parsed = FALSE
      <4>1. shared'.parsed = FALSE
        BY <2>8, <3>1
      <4> QED BY <4>1
    <3>2. CASE /\ shared.request.segments = <<>> /\ shared.request.hangsUp
               /\ "request" \notin DOMAIN fields
      BY <2>6, <3>2, Zenon
    <3> QED BY <1>2, <3>1, <3>2, Zenon
  <2>10. shared'.client = shared.client
    BY <2>3 DEF WebKept
  <2>11. WebAnswers'
    BY <1>1, <1>2, <2>1, <2>2, <2>3, <2>7, <2>9, <2>10, WebAnswersStay
  <2> QED BY <2>2, <2>4, <2>11 DEF WebInv
(* The same with no field at all.                                          *)
<1>3. ASSUME NEW from \in {"request", "header", "body"}, NEW to \in {"respond", "destroy"},
             Web!Passes(from, to),
             to = "destroy" => shared.request.segments = <<>> /\ shared.request.hangsUp
      PROVE  WebInv'
  <2>1. to \in WebPlaces /\ from \in Serving \ {"close", "destroy"} /\ to \in Serving
        /\ to # "not found" /\ to # "close"
    BY <1>3 DEF WebPlaces, Serving
  <2>2. Web!MainGoes(from, to) /\ UNCHANGED <<at, shared, output>>
    BY <1>3 DEF Web!Passes
  <2>3. main.at = from /\ main'.at = to /\ WebMain'
    BY <1>1, <2>1, <2>2, WebPasses
  <2>4. WebKept
    BY <1>1, <2>2 DEF WebKept, WebTypes
  <2>5. WebTypes' /\ WebOwners' /\ WebStops'
    BY <1>1, <2>1, <2>3, <2>4, WebStateKept DEF WebPath
  <2>6. WebAnswers'
    BY <1>1, <1>3, <2>1, <2>2, <2>3, WebAnswersStay
  <2> QED BY <2>3, <2>5, <2>6 DEF WebInv
<1>4. ASSUME NEW from \in {"request", "header"}, Web!receive(from)
      PROVE  WebInv'
  <2> DEFINE fields == [input |-> Head(Web!Segments),
                        request |-> [shared.request EXCEPT !.segments = Tail(@)]]
  <2>1. Web!Does(from, from, fields) /\ output' = output
    BY <1>4 DEF Web!receive, Web!Quietly
  <2>2. DOMAIN fields \subseteq {"input", "request", "parsed"}
        /\ fields.request = [shared.request EXCEPT !.segments = Tail(@)]
    OBVIOUS
  <2> HIDE DEF fields
  <2>3. from \in {"request", "header", "body"} /\ from # "destroy"
        /\ from \in {"request", "header", "body", "respond", "destroy"}
    OBVIOUS
  <2> QED BY <1>2, <2>1, <2>2, <2>3
<1>5. ASSUME NEW from \in {"request", "header"}, NEW lines,
             NEW to \in {"header", "body", "destroy"}, NEW whole \in BOOLEAN,
             Web!readLine(from, lines, to, whole), to = "destroy" => ~whole
      PROVE  WebInv'
  <2> DEFINE fields == [input |-> Tail(shared.input), parsed |-> shared.parsed /\ whole]
  <2>1. Web!Does(from, to, fields) /\ output' = output
    BY <1>5 DEF Web!readLine, Web!Quietly
  <2>2. /\ DOMAIN fields = {"input", "parsed"} /\ fields.parsed = (shared.parsed /\ whole)
    OBVIOUS
  <2> HIDE DEF fields
  <2>3. /\ from \in {"request", "header", "body"}
        /\ to \in {"request", "header", "body", "respond", "destroy"}
        /\ DOMAIN fields \subseteq {"input", "request", "parsed"} /\ "request" \notin DOMAIN fields
        /\ to = "destroy" => "parsed" \in DOMAIN fields /\ fields.parsed = FALSE
    BY <1>5, <2>2
  <2> QED BY <1>2, <2>1, <2>3
<1>6. ASSUME NEW from \in {"request", "header", "body"}, Web!HungUp, Web!Drops(from)
      PROVE  WebInv'
  BY <1>3, <1>6 DEF Web!HungUp, Web!Drops, Web!Segments
<1>7. CASE Web!parseRequestLine
  BY <1>4, <1>5, <1>6, <1>7 DEF Web!parseRequestLine
<1>8. CASE Web!parseHeader
  BY <1>4, <1>5, <1>6, <1>8 DEF Web!parseHeader
<1>9. CASE Web!parseBody
  <2>1. CASE /\ Web!Quietly
             /\ Web!Does("body", "respond",
                         [request |-> [shared.request EXCEPT !.segments = Tail(@)]])
    <3> DEFINE fields == [request |-> [shared.request EXCEPT !.segments = Tail(@)]]
    <3>1. /\ DOMAIN fields \subseteq {"input", "request", "parsed"}
          /\ fields.request = [shared.request EXCEPT !.segments = Tail(@)]
          /\ Web!Does("body", "respond", fields) /\ output' = output
      BY <2>1 DEF Web!Quietly
    <3> HIDE DEF fields
    <3> QED BY <1>2, <3>1
  <2>2. CASE Web!Passes("body", "respond")
    BY <1>3, <2>2
  <2> QED BY <1>6, <1>9, <2>1, <2>2 DEF Web!parseBody
<1> QED BY <1>7, <1>8, <1>9 DEF WebService

(* The process ends, and with it its descriptors.                          *)
LEMMA WebDies ==
  ASSUME WebInv, UNCHANGED program, NEW from \in Responding, Web!Dies(from)
  PROVE  WebInv'
<1>1. WebMain /\ WebTypes /\ WebOwners /\ WebStops /\ WebAnswers
  BY DEF WebInv
<1>2. /\ Web!MainFails(from, "ended") /\ UNCHANGED <<at, output>>
      /\ shared' = [shared EXCEPT !["owner"] = [f \in 3..5 |-> "free"]]
  BY DEF Web!Dies, Web!Field, Web!Descriptors
<1>3. "ended" \in WebPlaces /\ "ended" \notin Serving /\ "ended" \notin {"bind"}
  BY DEF WebPlaces, Serving
<1>4. main.at = from /\ main'.at = "ended" /\ WebMain'
  BY <1>1, <1>2, <1>3, WebPasses
<1>5. \A name \in WebFields :
        shared'[name] = IF name = "owner" THEN [f \in 3..5 |-> "free"] ELSE shared[name]
  BY <1>1, <1>2 DEF WebMain
<1>6. /\ shared'.owner = [f \in 3..5 |-> "free"] /\ shared'.file = shared.file
      /\ shared'.socket = shared.socket /\ shared'.checked = shared.checked
      /\ shared'.client = shared.client /\ shared'.clients = shared.clients
      /\ shared'.request = shared.request /\ shared'.cut = shared.cut
      /\ shared'.servedAtStop = shared.servedAtStop /\ shared'.addresses = shared.addresses
  BY <1>5 DEF WebFields
<1>7. WebOwners'
  <2>1. \A f \in 3..5 : shared'.owner[f] = "free"
    BY <1>6
  <2>2. shared'.owner \in [3..5 -> {"free", "listener", "client"}]
    BY <1>6
  <2> QED BY <1>1, <1>4, <1>6, <2>1, <2>2 DEF WebOwners, Serving
<1>8. WebStops'
  <2>1. 3 \in 3..5 /\ shared'.owner = [f \in 3..5 |-> "free"]
    BY <1>6
  <2>2. shared'.owner[3] = "free"
    BY ONLY <2>1
  <2> QED BY <1>1, <1>2, <1>4, <1>6, <2>2 DEF WebStops
<1>9. shared'.addresses \in 0..MostAddresses
  BY <1>1, <1>6 DEF WebTypes
<1> QED BY <1>2, <1>3, <1>4, <1>6, <1>7, <1>8, <1>9, WebOutside

(* A response is sent, to a client that had none.                          *)
Fits(what, request, cut) ==
  /\ Head(what) \in {request.asks, "not found"}
  /\ Head(what) = "not found" => request.asks = "other"
  /\ Len(what) > 1 => cut

LEMMA Words ==
  ASSUME NEW S, NEW x \in S, NEW y \in S
  PROVE  /\ <<x>> \in Seq(S) /\ Head(<<x>>) = x /\ ~(Len(<<x>>) > 1)
         /\ <<x, y>> \in Seq(S) /\ Head(<<x, y>>) = x
OBVIOUS

LEMMA WebSays ==
  ASSUME NEW word \in Word
  PROVE  /\ <<word>> \in WebWords /\ Head(<<word>>) = word /\ ~(Len(<<word>>) > 1)
         /\ <<word, "not found">> \in WebWords /\ Head(<<word, "not found">>) = word
<1>1. "not found" \in Word
  BY DEF Word
<1> QED BY <1>1, Words, Zenon DEF WebWords

LEMMA WebSends ==
  ASSUME WebInv, UNCHANGED program, NEW from \in Responding,
         NEW what \in WebWords, Web!Sends(from, what),
         Fits(what, shared.request, shared.cut)
  PROVE  WebInv'
<1> DEFINE fields == [handled |-> TRUE]
           report == [by |-> shared.client, says |-> what]
           k == Len(output)
<1>1. WebMain /\ WebTypes /\ WebOwners /\ WebStops /\ WebAnswers /\ Web!ResponsesInOrder
  BY DEF WebInv, WebAnswers
<1>2. Web!Does(from, "close", fields) /\ output' = Append(output, report)
  BY DEF Web!Sends, Web!Report
<1>3. "close" \in WebPlaces /\ "close" \in Serving /\ from \in Serving \ {"close", "destroy"}
  BY DEF WebPlaces, Serving, Responding
<1>4. /\ main.at = from /\ main'.at = "close" /\ at' = at /\ WebMain'
      /\ \A name \in WebFields :
           shared'[name] = IF name \in DOMAIN fields THEN fields[name] ELSE shared[name]
  BY <1>1, <1>2, <1>3, WebDoes
<1>5. WebKept /\ shared'.request = shared.request /\ shared'.cut = shared.cut
  BY <1>1, <1>4 DEF WebKept, WebFields, WebTypes
<1>6. WebTypes' /\ WebOwners' /\ WebStops'
  BY <1>1, <1>3, <1>4, <1>5, WebStateKept DEF WebPath
<1>7. shared'.client = shared.client /\ shared.client \in Nat
  BY <1>1, <1>5 DEF WebKept, WebTypes
<1>8. /\ output \in Seq(WebSent) /\ report \in WebSent /\ report.by = shared.client
      /\ report.says = what /\ \A i \in DOMAIN output : output[i].by < shared.client
  BY <1>1, <1>3, <1>4, <1>7 DEF WebAnswers, WebSent
<1> HIDE DEF fields, report
<1>9. /\ output' \in Seq(WebSent) /\ k \in Nat
      /\ DOMAIN output' = 1..k + 1 /\ DOMAIN output = 1..k
      /\ output'[k + 1] = report /\ \A i \in 1..k : output'[i] = output[i]
  BY <1>2, <1>8, Appended
<1> HIDE DEF k
<1>10. /\ \A i \in 1..k + 1 : i \in 1..k \/ i = k + 1
       /\ \A i \in 1..k + 1 : \A j \in 1..i - 1 : j \in 1..k
       /\ k + 1 \in 1..k + 1
  BY <1>9
<1>11. \A i \in 1..k + 1 : \A j \in 1..i - 1 : output'[j].by < output'[i].by
  <2> SUFFICES ASSUME NEW i \in 1..k + 1, NEW j \in 1..i - 1 PROVE output'[j].by < output'[i].by
    OBVIOUS
  <2>1. output'[j] = output[j] /\ j \in DOMAIN output
    BY <1>9, <1>10
  <2>2. CASE i \in 1..k
    <3>1. output[j].by < output[i].by
      BY <1>1, <1>9, <2>2 DEF Web!ResponsesInOrder
    <3> QED BY <1>9, <2>1, <2>2, <3>1
  <2>3. CASE i = k + 1
    BY <1>8, <1>9, <2>1, <2>3
  <2> QED BY <1>10, <2>2, <2>3
<1>12. \A i \in 1..k + 1 :
         output'[i].by = shared.client => Fits(output'[i].says, shared.request, shared.cut)
  <2> SUFFICES ASSUME NEW i \in 1..k + 1, output'[i].by = shared.client
               PROVE  output'[i].says = what
    OBVIOUS
  <2>1. i \notin 1..k
    <3> SUFFICES ASSUME i \in 1..k PROVE FALSE
      OBVIOUS
    <3>1. output[i].by < shared.client /\ output[i].by = shared.client
      BY <1>8, <1>9
    <3> QED BY <1>7, <3>1
  <2> QED BY <1>8, <1>9, <1>10, <2>1
<1>13. Web!Answered(shared.client)'
  BY <1>7, <1>8, <1>9, <1>10 DEF Web!Answered
<1>14. Web!ResponsesInOrder'
  BY <1>5, <1>7, <1>9, <1>11, <1>12, <1>13 DEF Web!ResponsesInOrder, Web!Answered, Fits
<1>15. \A i \in DOMAIN output' : output'[i].by <= shared.client
  <2>1. \A i \in 1..k : output[i].by <= shared.client
    BY <1>1, <1>9 DEF WebAnswers
  <2> QED BY <1>7, <1>8, <1>9, <1>10, <2>1
<1>16. /\ DOMAIN shared.request = {"asks", "keepAlive", "announces", "segments", "hangsUp"}
       /\ shared.request.asks \in {"home", "fact", "other"}
  BY <1>1, <1>3, <1>4 DEF WebAnswers
<1>17. WebAnswers'
  BY <1>4, <1>5, <1>7, <1>9, <1>14, <1>15, <1>16 DEF WebAnswers
<1> QED BY <1>4, <1>6, <1>17 DEF WebInv

(* FactWebApp and serveNotFound.                                           *)
LEMMA WebResponds ==
  ASSUME WebInv, UNCHANGED program, Web!FactWebApp \/ Web!serveNotFound
  PROVE  WebInv'
<1>1. WebMain /\ WebTypes /\ WebOwners /\ WebStops /\ WebAnswers
  BY DEF WebInv
<1>2. ASSUME NEW from \in Responding, NEW to \in {"not found", "close"},
             Web!Does(from, to, [cut |-> TRUE]), output' = output
      PROVE  WebInv'
  <2> DEFINE fields == [cut |-> TRUE]
  <2>1. to \in WebPlaces /\ from \in Serving \ {"close", "destroy"} /\ to \in Serving
        /\ to # "destroy"
    BY DEF WebPlaces, Serving, Responding
  <2>2. /\ main.at = from /\ main'.at = to /\ at' = at /\ WebMain'
        /\ \A name \in WebFields :
             shared'[name] = IF name \in DOMAIN fields THEN fields[name] ELSE shared[name]
    BY <1>1, <1>2, <2>1, WebDoes
  <2>3. WebKept /\ shared'.request = shared.request /\ shared'.cut = TRUE
    BY <1>1, <2>2 DEF WebKept, WebFields, WebTypes
  <2>4. WebTypes' /\ WebOwners' /\ WebStops'
    BY <1>1, <2>1, <2>2, <2>3, WebStateKept DEF WebPath
  <2>5. shared'.client = shared.client /\ shared'.cut
    BY <2>3 DEF WebKept
  <2>6. WebAnswers'
    BY <1>1, <1>2, <2>1, <2>2, <2>3, <2>5, WebAnswersStay
  <2> QED BY <2>2, <2>4, <2>6 DEF WebInv
<1>3. ASSUME NEW from \in Responding, NEW to \in {"not found", "close"},
             Web!CannotSend(from, to)
      PROVE  WebInv'
  BY <1>2, <1>3, WebDies DEF Web!CannotSend, Web!Quietly
<1>r. "respond" \in Responding /\ "not found" \in Responding
  BY DEF Responding
<1>4. ASSUME NEW from \in Responding, NEW what, Web!Sends(from, what)
      PROVE  /\ main.at = from /\ shared.request.asks \in {"home", "fact", "other"}
             /\ from = "not found" => shared.cut
  BY <1>1, <1>4 DEF Web!Sends, Web!Does, Web!MainGoes, WebAnswers, Serving, Responding
<1>5. CASE shared.request.asks \in {"home", "fact"} /\ Web!Sends("respond", <<shared.request.asks>>)
  <2>1. shared.request.asks \in Word /\ shared.request.asks # "not found"
    BY <1>5 DEF Word
  <2>2. /\ <<shared.request.asks>> \in WebWords /\ ~(Len(<<shared.request.asks>>) > 1)
        /\ Head(<<shared.request.asks>>) = shared.request.asks
    BY <2>1, WebSays
  <2>3. Fits(<<shared.request.asks>>, shared.request, shared.cut)
    BY <2>1, <2>2, Zenon DEF Fits
  <2> QED BY <1>5, <1>r, <2>2, <2>3, WebSends
<1>6. CASE shared.request.asks = "other" /\ Web!Sends("respond", <<"not found">>)
  <2>1. "not found" \in Word
    BY DEF Word
  <2>2. /\ <<"not found">> \in WebWords /\ ~(Len(<<"not found">>) > 1)
        /\ Head(<<"not found">>) = "not found"
    BY <2>1, WebSays
  <2>3. Fits(<<"not found">>, shared.request, shared.cut)
    BY <1>6, <2>2, Zenon DEF Fits
  <2> QED BY <1>6, <1>r, <2>2, <2>3, WebSends
<1>7. CASE Web!Sends("not found", <<shared.request.asks, "not found">>)
  <2>1. shared.request.asks \in {"home", "fact", "other"} /\ shared.cut
    BY <1>4, <1>7, <1>r
  <2>2. shared.request.asks \in Word /\ shared.request.asks # "not found"
    BY <2>1 DEF Word
  <2>3. /\ <<shared.request.asks, "not found">> \in WebWords
        /\ Head(<<shared.request.asks, "not found">>) = shared.request.asks
    BY <2>2, WebSays
  <2>4. Fits(<<shared.request.asks, "not found">>, shared.request, shared.cut)
    BY <2>1, <2>2, <2>3, Zenon DEF Fits
  <2> QED BY <1>7, <1>r, <2>3, <2>4, WebSends
<1> QED BY <1>3, <1>5, <1>6, <1>7, <1>r, WebDies DEF Web!FactWebApp, Web!serveNotFound

(* The connection is closed, or what is left of it.                        *)
LEMMA WebCloses ==
  ASSUME WebInv, UNCHANGED program, Web!CloseConnection
  PROVE  WebInv'
<1>1. WebMain /\ WebTypes /\ WebOwners /\ WebStops /\ WebAnswers
  BY DEF WebInv
<1>2. /\ "destroy" \in WebPlaces /\ "close" \in Serving /\ "destroy" \in Serving
      /\ "accept" \in WebPlaces /\ "accept" \notin Serving
  BY DEF WebPlaces, Serving
<1>3. CASE Web!Passes("close", "destroy")
  <2>1. Web!MainGoes("close", "destroy") /\ UNCHANGED <<at, shared, output>>
    BY <1>3 DEF Web!Passes
  <2>2. main.at = "close" /\ main'.at = "destroy" /\ WebMain'
    BY <1>1, <1>2, <2>1, WebPasses
  <2>3. WebKept
    BY <1>1, <2>1 DEF WebKept, WebTypes
  <2>4. WebTypes' /\ WebOwners' /\ WebStops'
    BY <1>1, <1>2, <2>2, <2>3, WebStateKept DEF WebPath
  <2>5. WebAnswers'
    BY <1>1, <1>2, <2>1, <2>2, WebAnswersStay
  <2> QED BY <2>2, <2>4, <2>5 DEF WebInv
<1>4. ASSUME NEW from \in {"close", "destroy"}, NEW to \in {"destroy", "accept"},
             Web!Does(from, to, [owner |-> Web!Closed(shared.file), file |-> -1]), Web!Quietly
      PROVE  WebInv'
  <2> DEFINE fields == [owner |-> Web!Closed(shared.file), file |-> -1]
  <2>1. /\ main.at = from /\ main'.at = to /\ at' = at /\ WebMain'
        /\ \A name \in WebFields :
             shared'[name] = IF name \in DOMAIN fields THEN fields[name] ELSE shared[name]
    BY <1>1, <1>2, <1>4, WebDoes
  <2>2. /\ shared'.owner = Web!Closed(shared.file) /\ shared'.file = -1
        /\ shared'.socket = shared.socket /\ shared'.checked = shared.checked
        /\ shared'.client = shared.client /\ shared'.clients = shared.clients
        /\ shared'.request = shared.request /\ shared'.cut = shared.cut
        /\ shared'.parsed = shared.parsed
        /\ shared'.servedAtStop = shared.servedAtStop /\ shared'.addresses = shared.addresses
    BY <2>1 DEF WebFields
  <2>3. /\ shared.owner \in [3..5 -> {"free", "listener", "client"}]
        /\ shared.file \in {-1, 3, 4} /\ shared.socket = 3
        /\ shared.owner[5] = "free"
        /\ shared.owner[4] = IF shared.file = 4 THEN "client" ELSE "free"
        /\ shared.owner[3] = "client" <=> shared.file = 3
        /\ shared.owner[3] # "listener" => at[0] = "done"
    BY <1>1, <1>2, <1>4, <2>1 DEF WebOwners, Serving
  <2>4. /\ shared'.owner \in [3..5 -> {"free", "listener", "client"}]
        /\ shared'.owner[3] = IF shared.file = 3 THEN "free" ELSE shared.owner[3]
        /\ shared'.owner[4] = "free" /\ shared'.owner[5] = "free"
    BY <2>2, <2>3 DEF Web!Closed, Web!Owning
  <2>5. WebOwners'
    <3>1. /\ main'.at # "ended" /\ main'.at \notin {"start", "fetch", "open"}
          /\ main'.at \notin {"bind", "listen", "accepting"}
      BY <1>4, <2>1
    <3>2. /\ shared'.owner \in [3..5 -> {"free", "listener", "client"}]
          /\ shared'.socket \in {-1, 3} /\ shared'.checked \in {-1, 3} /\ shared'.file \in {-1, 3, 4}
      BY <1>1, <2>2, <2>3, <2>4 DEF WebOwners
    <3>3. /\ shared'.owner[4] = IF shared'.file = 4 THEN "client" ELSE "free"
          /\ shared'.owner[3] = "client" <=> shared'.file = 3
          /\ shared'.owner[3] = "listener" => shared'.socket = 3
      BY <2>2, <2>3, <2>4
    <3>4. shared'.owner[3] # "listener" => at'[0] = "done"
      BY <2>1, <2>3, <2>4
    <3> QED BY <2>2, <2>3, <2>4, <3>1, <3>2, <3>3, <3>4 DEF WebOwners
  <2>6. WebStops'
    BY <1>1, <1>4, <2>1, <2>2, <2>3, <2>4 DEF WebStops
  <2>7. WebTypes'
    BY <1>1, <1>4, <2>1, <2>2 DEF WebTypes
  <2>8. output' = output /\ from \in Serving
    BY <1>2, <1>4 DEF Web!Quietly
  <2>9. to \notin Serving \ {"close", "destroy"} /\ to # "not found"
    BY <1>2, <1>4
  <2>10. WebAnswers'
    BY <1>1, <1>2, <1>4, <2>1, <2>2, <2>8, <2>9, WebAnswersStay
  <2> QED BY <2>1, <2>5, <2>6, <2>7, <2>10 DEF WebInv
<1> QED BY <1>3, <1>4 DEF Web!CloseConnection

(* The destructor closes the listening socket, if stop() has not.          *)
LEMMA WebDestroys ==
  ASSUME WebInv, UNCHANGED program, Web!Destructor
  PROVE  WebInv'
<1> DEFINE fields == [owner |-> Web!Closed(shared.socket)]
<1>1. WebMain /\ WebTypes /\ WebOwners /\ WebStops
  BY DEF WebInv
<1>2. Web!Does("free", "ended", fields) /\ output' = output
  BY DEF Web!Destructor, Web!Quietly
<1>3. "ended" \in WebPlaces /\ "ended" \notin Serving /\ "free" \notin Serving
  BY DEF WebPlaces, Serving
<1>4. /\ main.at = "free" /\ main'.at = "ended" /\ at' = at /\ WebMain'
      /\ \A name \in WebFields :
           shared'[name] = IF name \in DOMAIN fields THEN fields[name] ELSE shared[name]
  BY <1>1, <1>2, <1>3, WebDoes
<1>5. /\ shared'.owner = Web!Closed(shared.socket) /\ shared'.file = shared.file
      /\ shared'.socket = shared.socket /\ shared'.checked = shared.checked
      /\ shared'.client = shared.client /\ shared'.clients = shared.clients
      /\ shared'.request = shared.request /\ shared'.cut = shared.cut
      /\ shared'.servedAtStop = shared.servedAtStop /\ shared'.addresses = shared.addresses
  BY <1>4 DEF WebFields
<1>6. /\ shared.owner \in [3..5 -> {"free", "listener", "client"}]
      /\ shared.file = -1 /\ shared.socket \in {-1, 3} /\ shared.owner[5] = "free"
      /\ shared.owner[4] = "free" /\ shared.owner[3] \in {"free", "listener"}
      /\ shared.owner[3] = "listener" => shared.socket = 3
  BY <1>1, <1>3, <1>4 DEF WebOwners
<1>7. /\ shared'.owner \in [3..5 -> {"free", "listener", "client"}]
      /\ \A f \in 3..5 : shared'.owner[f] = "free"
  BY <1>5, <1>6 DEF Web!Closed, Web!Owning
<1>8. WebOwners'
  <2>1. main'.at \notin {"bind", "listen", "accept", "accepting"} \cup Serving
    BY <1>3, <1>4
  <2> QED BY <1>1, <1>4, <1>5, <1>6, <1>7, <2>1 DEF WebOwners
<1>9. WebStops'
  <2>1. shared'.owner[3] = "free"
    BY <1>7
  <2> QED BY <1>1, <1>4, <1>5, <2>1 DEF WebStops
<1>10. shared'.addresses \in 0..MostAddresses
  BY <1>1, <1>5 DEF WebTypes
<1> QED BY <1>2, <1>3, <1>4, <1>5, <1>8, <1>9, <1>10, WebOutside

(* stop() looks at the number of the socket, and closes it.  Only then can *)
(* a client get it.                                                        *)
LEMMA WebStop ==
  ASSUME WebInv, UNCHANGED program, main.at # "ended", NEW t \in Web!Threads,
         Web!ThreadStep(t)
  PROVE  WebInv'
<1>1. WebMain /\ WebTypes /\ WebOwners /\ WebStops /\ WebAnswers
  BY DEF WebInv
<1>2. t = 0 /\ at \in [{0} -> {"unborn", "stopping", "done"}] /\ DOMAIN shared = WebFields
  BY <1>1 DEF Web!Threads, WebMain
<1> DEFINE served == IF Web!Bound /\ shared.checked = shared.socket
                     THEN shared.client ELSE shared.servedAtStop
<1>3. /\ main' = main /\ output' = output /\ at'[0] \in {"stopping", "done"} /\ at[0] # "done"
      /\ at' \in [{0} -> {"unborn", "stopping", "done"}]
      /\ \/ /\ at[0] = "unborn" /\ shared' = [shared EXCEPT !["checked"] = shared.socket]
         \/ /\ at[0] = "stopping" /\ at'[0] = "done"
            /\ shared' = [shared EXCEPT !.owner = Web!Closed(shared.checked),
                                        !.servedAtStop = served]
  BY <1>2 DEF Web!ThreadStep, Web!Goes, Web!Field, Web!Quietly, WebFields
<1> HIDE DEF served
<1>4. /\ DOMAIN shared' = WebFields /\ shared'.file = shared.file /\ shared'.socket = shared.socket
      /\ shared'.client = shared.client /\ shared'.clients = shared.clients
      /\ shared'.request = shared.request /\ shared'.cut = shared.cut
      /\ shared'.parsed = shared.parsed /\ shared'.addresses = shared.addresses
      /\ \/ /\ shared'.checked = shared.socket
            /\ shared'.owner = shared.owner /\ shared'.servedAtStop = shared.servedAtStop
         \/ /\ at'[0] = "done" /\ shared'.checked = shared.checked
            /\ shared'.owner = Web!Closed(shared.checked) /\ shared'.servedAtStop = served
  BY <1>2, <1>3 DEF WebFields
<1>5. WebMain'
  BY <1>1, <1>3, <1>4 DEF WebMain
<1>6. WebAnswers'
  <2>1. main'.at = main.at
    BY <1>3
  <2>2. (shared.cut => shared'.cut) /\ (main'.at = "not found" => shared'.cut)
    BY <1>1, <1>4, <2>1 DEF WebAnswers
  <2> QED BY <1>1, <1>3, <1>4, <2>1, <2>2, WebAnswersStay
<1>7. CASE /\ shared'.checked = shared.socket
           /\ shared'.owner = shared.owner /\ shared'.servedAtStop = shared.servedAtStop
  <2>1. WebTypes'
    BY <1>1, <1>3, <1>4, <1>7 DEF WebTypes
  <2>3. WebOwners'
    BY <1>1, <1>3, <1>4, <1>7 DEF WebOwners
  <2>4. WebStops'
    BY <1>1, <1>3, <1>4, <1>7 DEF WebStops
  <2> QED BY <1>5, <1>6, <2>1, <2>3, <2>4 DEF WebInv
<1>8. CASE /\ at'[0] = "done" /\ shared'.checked = shared.checked
           /\ shared'.owner = Web!Closed(shared.checked) /\ shared'.servedAtStop = served
  <2>1. /\ shared.owner[3] \in {"free", "listener"} /\ shared.file # 3
        /\ shared.owner \in [3..5 -> {"free", "listener", "client"}]
        /\ shared.checked \in {-1, 3} /\ shared.socket \in {-1, 3}
        /\ shared.owner[4] = IF shared.file = 4 THEN "client" ELSE "free"
        /\ shared.owner[5] = "free"
    <3>1. shared.file = 3 => main.at \in Serving
      BY <1>1, <1>3 DEF WebOwners
    <3> QED BY <1>1, <1>3, <3>1 DEF WebOwners
  <2>2. /\ shared'.owner \in [3..5 -> {"free", "listener", "client"}]
        /\ shared'.owner[3] = IF shared.checked = 3 THEN "free" ELSE shared.owner[3]
        /\ shared'.owner[4] = shared.owner[4] /\ shared'.owner[5] = "free"
    BY <1>8, <2>1 DEF Web!Closed, Web!Owning
  <2>3. WebOwners'
    BY <1>1, <1>3, <1>4, <1>8, <2>1, <2>2 DEF WebOwners
  <2>4. shared.client \in Nat /\ served \in Int
    BY <1>1 DEF WebTypes, served
  <2>5. WebTypes'
    BY <1>1, <1>3, <1>4, <1>8, <2>4 DEF WebTypes
  <2>6. WebStops'
    <3> SUFFICES ASSUME served >= 0
                 PROVE  /\ shared'.owner[3] # "listener"
                        /\ main.at \notin {"start", "fetch", "open", "bind"}
                        /\ shared.client <= served + 1
                        /\ main.at = "accepting" => shared.client = served
      BY <1>3, <1>4, <1>8 DEF WebStops
    <3>1. Web!Bound /\ shared.checked = shared.socket /\ served = shared.client
      BY <1>1, <1>3 DEF WebStops, served
    <3>2. shared.socket = 3 /\ shared.owner[3] = "listener" /\ main.at \notin {"open", "bind"}
      BY <2>1, <3>1 DEF Web!Bound, Web!Listening
    <3>3. main.at \notin {"start", "fetch"}
      BY <1>1, <3>2 DEF WebOwners
    <3> QED BY <2>2, <2>4, <3>1, <3>2, <3>3
  <2> QED BY <1>5, <1>6, <2>3, <2>5, <2>6 DEF WebInv
<1> QED BY <1>4, <1>7, <1>8

LEMMA WebInitially ==
  Web!Init => WebInv
<1> SUFFICES ASSUME Web!Init PROVE WebInv
  OBVIOUS
<1>1. PICK clients \in 0..MostClients :
        Web!Starts([socket |-> -1, checked |-> -1, addresses |-> 0,
                    owner |-> [f \in Web!Descriptors |-> "free"],
                    clients |-> clients, client |-> 0, request |-> Web!Nobody, file |-> -1,
                    input |-> <<>>, parsed |-> TRUE, handled |-> FALSE, cut |-> FALSE,
                    servedAtStop |-> -1])
  BY DEF Web!Init
<1>2. /\ main = [at |-> "start", next |-> 0, count |-> 1, error |-> FALSE]
      /\ at = [t \in 0..1 - 1 |-> "unborn"] /\ output = <<>> /\ program \in Web!Programs
      /\ DOMAIN shared = WebFields /\ shared.socket = -1 /\ shared.checked = -1
      /\ shared.addresses = 0 /\ shared.owner = [f \in 3..5 |-> "free"]
      /\ shared.clients = clients /\ shared.client = 0 /\ shared.file = -1
      /\ shared.servedAtStop = -1
  BY <1>1 DEF Web!Init, Web!Starts, Web!Threads, Web!Descriptors, WebFields
<1>3. "start" \in WebPlaces /\ "start" \notin Serving
  BY DEF WebPlaces, Serving
<1>4. WebMain
  <2>1. at \in [{0} -> {"unborn", "stopping", "done"}]
    BY <1>2
  <2> QED BY <1>2, <1>3, <2>1 DEF WebMain
<1>5. WebTypes
  <2>1. MostAddresses \in Nat
    BY NumbersAssumption
  <2> QED BY <1>2, <2>1 DEF WebTypes
<1>6. WebOwners
  <2>1. \A f \in 3..5 : shared.owner[f] = "free"
    BY <1>2
  <2> QED BY <1>2, <1>3, <2>1 DEF WebOwners
<1>7. WebStops
  BY <1>2 DEF WebStops
<1>8. Web!ResponsesInOrder
  BY <1>2 DEF Web!ResponsesInOrder
<1>9. WebAnswers
  <2>1. main.at # "not found"
    BY <1>2
  <2> QED BY <1>2, <1>3, <1>8, <2>1 DEF WebAnswers
<1> QED BY <1>2, <1>4, <1>5, <1>6, <1>7, <1>9 DEF WebInv

LEMMA WebKeeps ==
  ASSUME WebInv,
         \/ Web!Step(Web!MainStep)
         \/ \E t \in Web!Threads : Web!Step(Web!ThreadStep(t))
  PROVE  WebInv'
<1>1. CASE Web!Step(Web!MainStep)
  <2>1. Web!MainStep /\ program' = program
    BY <1>1 DEF Web!Step
  <2>2. CASE Web!startApps
    <3>1. /\ "fetch" \in WebPlaces \ Serving /\ "free" \in WebPlaces \ Serving
          /\ WebPath("start", "fetch") /\ WebPath("start", "free")
      BY DEF WebPlaces, Serving, WebPath
    <3> QED BY <2>1, <2>2, <3>1, WebPassesOn DEF Web!startApps
  <2>3. CASE Web!stopApps
    <3>1. "free" \in WebPlaces \ Serving /\ WebPath("stop", "free")
      BY DEF WebPlaces, Serving, WebPath
    <3> QED BY <2>1, <2>3, <3>1, WebPassesOn DEF Web!stopApps
  <2>4. CASE Web!listenForConnections
    <3>1. CASE Web!Listening /\ Web!Passes("listen", "accept")
      <4>1. "accept" \in WebPlaces \ Serving /\ WebPath("listen", "accept")
        BY <3>1 DEF WebPlaces, Serving, WebPath
      <4> QED BY <2>1, <3>1, <4>1, WebPassesOn
    <3> QED BY <2>1, <2>4, <3>1, WebFetches, WebOpens,
           WebThrows DEF Web!listenForConnections
  <2>5. CASE Web!handleClientConnection
    BY <2>1, <2>5, WebReads, WebResponds, WebCloses DEF Web!handleClientConnection,
       WebService
  <2> QED BY <2>1, <2>2, <2>3, <2>4, <2>5, WebAccepts, WebDestroys DEF Web!MainStep
<1>2. ASSUME NEW t \in Web!Threads, Web!Step(Web!ThreadStep(t)) PROVE WebInv'
  <2>1. Web!ThreadStep(t) /\ program' = program /\ main.at # "ended"
    BY <1>2 DEF Web!Step, Web!Running
  <2> QED BY <2>1, WebStop
<1> QED BY <1>1, <1>2

LEMMA WebPromises ==
  ASSUME WebInv
  PROVE  Web!TypeOK /\ Web!StopEndsService /\ Web!ResponsesInOrder /\ Web!DescriptorsOwned
<1>1. WebMain /\ WebTypes /\ WebOwners /\ WebStops /\ WebAnswers
  BY DEF WebInv
<1>2. Web!ResponsesInOrder
  BY <1>1 DEF WebAnswers
<1>3. Web!StopEndsService
  BY <1>1 DEF WebStops, Web!StopEndsService
<1>4. Web!DescriptorsOwned
  <2>1. \A f \in 3..5 : f = 3 \/ f = 4 \/ f = 5
    OBVIOUS
  <2>2. shared.file >= 0 /\ main.at # "ended" => shared.owner[shared.file] = "client"
    BY <1>1 DEF WebOwners
  <2>3. \A f \in 3..5 : shared.owner[f] = "client" => f = shared.file
    BY <1>1, <2>1 DEF WebOwners
  <2>4. main.at \in {"accept", "accepting", "stop", "free"} => main.at \notin Serving \cup {"ended"}
    BY DEF Serving
  <2>5. main.at \in {"accept", "accepting", "stop", "free"} => shared.file = -1
    BY <1>1, <2>4 DEF WebOwners
  <2>6. main.at = "ended" => \A f \in 3..5 : shared.owner[f] = "free"
    BY <1>1 DEF WebOwners
  <2> QED BY <2>2, <2>3, <2>5, <2>6 DEF Web!DescriptorsOwned, Web!Descriptors
<1>5. Web!TypeOK
  <2>1. main.at \in WebPlaces
    BY <1>1 DEF WebMain
  <2>2. /\ shared.owner \in [Web!Descriptors -> {"free", "listener", "client"}]
        /\ shared.socket \in {-1} \cup Web!Descriptors /\ shared.file \in {-1} \cup Web!Descriptors
    BY <1>1 DEF WebOwners, Web!Descriptors
  <2>3. /\ shared.client \in 0..MostClients /\ shared.addresses \in 0..MostAddresses
    <3>1. MostClients \in Nat
      BY NumbersAssumption
    <3> QED BY <1>1, <3>1 DEF WebTypes
  <2> QED BY <2>1, <2>2, <2>3 DEF WebInv, WebPlaces, Serving, Web!TypeOK
<1> QED BY <1>2, <1>3, <1>4, <1>5

-----------------------------------------------------------------------------
(* std::merge.  What Taken computes exists, as it is built up from 0.      *)
LEMMA TakenIs ==
  ASSUME NEW a \in Seq(Int), NEW b \in Seq(Int)
  PROVE  LET taken == Sorting!Taken(a, b)
         IN  /\ taken[0] = 0
             /\ \A k \in 1..Len(a) + Len(b) :
                  taken[k] = IF Sorting!FromFirst(a, b, taken[k - 1], k - 1 - taken[k - 1])
                             THEN taken[k - 1] + 1 ELSE taken[k - 1]
<1> DEFINE n == Len(a) + Len(b)
           More(f, k) == IF Sorting!FromFirst(a, b, f[k - 1], k - 1 - f[k - 1])
                         THEN f[k - 1] + 1 ELSE f[k - 1]
           Value(f, k) == IF k = 0 THEN 0 ELSE More(f, k)
           taken == Sorting!Taken(a, b)
           S == {m \in Nat : \E f : f = [k \in 0..m |-> Value(f, k)]}
<1>1. \A f, g, k : f[k - 1] = g[k - 1] => More(f, k) = More(g, k)
  OBVIOUS
<1>2. 0 \in S
  <2> DEFINE f == [k \in 0..0 |-> 0]
  <2>1. f = [k \in 0..0 |-> Value(f, k)]
    <3> HIDE DEF More
    <3>1. \A k \in 0..0 : Value(f, k) = 0
      OBVIOUS
    <3> HIDE DEF Value
    <3> QED BY <3>1
  <2> HIDE DEF f, Value
  <2> QED BY <2>1
<1>3. ASSUME NEW m \in Nat, m \in S PROVE m + 1 \in S
  <2>1. PICK f : f = [k \in 0..m |-> Value(f, k)]
    BY <1>3
  <2> DEFINE g == [k \in 0..m + 1 |-> IF k = m + 1 THEN More(f, m + 1) ELSE f[k]]
  <2> HIDE DEF More
  <2>2. \A k \in 0..m : g[k] = f[k] /\ f[k] = Value(f, k)
    <3>1. \A k \in 0..m : g[k] = f[k]
      OBVIOUS
    <3> HIDE DEF g, Value
    <3> QED BY <2>1, <3>1
  <2>3. g[m + 1] = More(f, m + 1)
    OBVIOUS
  <2>4. DOMAIN g = 0..m + 1 /\ g = [k \in 0..m + 1 |-> g[k]]
    OBVIOUS
  <2> HIDE DEF g
  <2>5. \A k \in 0..m + 1 : g[k] = Value(g, k)
    <3> SUFFICES ASSUME NEW k \in 0..m + 1 PROVE g[k] = Value(g, k)
      OBVIOUS
    <3>1. CASE k = m + 1
      <4>1. k # 0 /\ k - 1 = m /\ m \in 0..m
        BY <3>1
      <4>2. More(g, k) = More(f, k)
        BY <1>1, <2>2, <4>1
      <4> QED BY <2>3, <3>1, <4>1, <4>2
    <3>2. CASE k # m + 1
      <4>1. k \in 0..m /\ (k # 0 => k - 1 \in 0..m)
        BY <3>2
      <4>2. k # 0 => More(g, k) = More(f, k)
        BY <1>1, <2>2, <4>1
      <4> QED BY <2>2, <4>1, <4>2
    <3> QED BY <3>1, <3>2
  <2> HIDE DEF Value
  <2>6. g = [k \in 0..m + 1 |-> Value(g, k)]
    BY <2>4, <2>5
  <2> QED BY <2>6
<1>4. n \in Nat
  BY LenProperties
<1>5. n \in S
  <2> HIDE DEF S, n
  <2> QED BY <1>2, <1>3, <1>4, Induction
<1>6. taken = CHOOSE f : f = [k \in 0..n |-> Value(f, k)]
  BY DEF Sorting!Taken
<1>7. taken = [k \in 0..n |-> Value(taken, k)]
  <2>1. \E f : f = [k \in 0..n |-> Value(f, k)]
    <3> HIDE DEF Value, n
    <3> QED BY <1>5
  <2> HIDE DEF taken, Value, n
  <2> QED BY <1>6, <2>1
<1>8. \A k \in 0..n : taken[k] = Value(taken, k)
  <2> HIDE DEF taken, Value, n
  <2> QED BY <1>7
<1>9. taken[0] = 0 /\ \A k \in 1..n : taken[k] = More(taken, k)
  <2> HIDE DEF taken, More, n
  <2> QED BY <1>4, <1>8
<1> QED BY <1>9

(* What the merging has taken of each never exceeds it; in the end it is   *)
(* all of both.                                                            *)
LEMMA TakenBounds ==
  ASSUME NEW a \in Seq(Int), NEW b \in Seq(Int)
  PROVE  LET taken == Sorting!Taken(a, b)
             n == Len(a) + Len(b)
         IN  /\ \A k \in 0..n : taken[k] \in 0..Len(a) /\ k - taken[k] \in 0..Len(b)
             /\ taken[n] = Len(a) /\ n - taken[n] = Len(b)
<1> DEFINE n == Len(a) + Len(b)
           taken == Sorting!Taken(a, b)
           InBounds(k) == taken[k] \in 0..Len(a) /\ k - taken[k] \in 0..Len(b)
           S == {k \in Nat : k \in 0..n => InBounds(k)}
<1>1. Len(a) \in Nat /\ Len(b) \in Nat /\ n \in Nat
  BY LenProperties
<1>2. /\ taken[0] = 0
      /\ \A k \in 1..n : taken[k] = IF Sorting!FromFirst(a, b, taken[k - 1], k - 1 - taken[k - 1])
                                    THEN taken[k - 1] + 1 ELSE taken[k - 1]
  BY TakenIs
<1> HIDE DEF taken, n
<1>3. 0 \in S
  BY <1>1, <1>2
<1>4. ASSUME NEW k \in Nat, k \in S PROVE k + 1 \in S
  <2> SUFFICES ASSUME k + 1 \in 0..n PROVE InBounds(k + 1)
    OBVIOUS
  <2>1. k \in 0..n /\ k + 1 \in 1..n /\ (k + 1) - 1 = k
    BY <1>1
  <2>2. InBounds(k)
    BY <1>4, <2>1
  <2>3. taken[k + 1] = IF Sorting!FromFirst(a, b, taken[k], k - taken[k])
                       THEN taken[k] + 1 ELSE taken[k]
    BY <1>2, <2>1
  <2>4. CASE Sorting!FromFirst(a, b, taken[k], k - taken[k])
    <3>1. taken[k] < Len(a)
      BY <2>4 DEF Sorting!FromFirst
    <3>2. taken[k + 1] = taken[k] + 1
      BY <2>3, <2>4
    <3>3. (k + 1) - (taken[k] + 1) = k - taken[k]
      BY <2>2
    <3> QED BY <1>1, <2>2, <3>1, <3>2, <3>3
  <2>5. CASE ~Sorting!FromFirst(a, b, taken[k], k - taken[k])
    <3>1. taken[k] = Len(a) \/ k - taken[k] < Len(b)
      BY <1>1, <2>2, <2>5 DEF Sorting!FromFirst
    <3>2. k < Len(a) + Len(b)
      BY <2>1 DEF n
    <3> QED BY <1>1, <2>2, <2>3, <2>5, <3>1, <3>2
  <2> QED BY <2>4, <2>5
<1>5. \A k \in 0..n : InBounds(k)
  <2>1. Nat \subseteq S
    <3> HIDE DEF S
    <3> QED BY <1>3, <1>4, Induction
  <2> QED BY <1>1, <2>1
<1>6. taken[n] = Len(a) /\ n - taken[n] = Len(b)
  <2>1. InBounds(n)
    BY <1>1, <1>5
  <2> QED BY <1>1, <2>1 DEF n
<1> QED BY <1>5, <1>6 DEF n, taken

(* The element k of a merge is the next of the first or of the second.     *)
LEMMA MergedTakes ==
  ASSUME NEW a \in Seq(Int), NEW b \in Seq(Int), NEW k \in 1..Len(a) + Len(b)
  PROVE  LET taken == Sorting!Taken(a, b)
             i == taken[k - 1]
             j == k - 1 - i
         IN  /\ i \in 0..Len(a) /\ j \in 0..Len(b)
             /\ \/ /\ Sorting!FromFirst(a, b, i, j) /\ taken[k] = i + 1 /\ i + 1 \in 1..Len(a)
                   /\ Sorting!Merged(a, b)[k] = a[i + 1]
                \/ /\ ~Sorting!FromFirst(a, b, i, j) /\ taken[k] = i /\ j + 1 \in 1..Len(b)
                   /\ Sorting!Merged(a, b)[k] = b[j + 1]
<1> DEFINE taken == Sorting!Taken(a, b)
           i == taken[k - 1]
           j == k - 1 - i
<1>1. Len(a) \in Nat /\ Len(b) \in Nat
  BY LenProperties
<1>2. k - 1 \in 0..Len(a) + Len(b) /\ k \in 0..Len(a) + Len(b)
  BY <1>1
<1>3. /\ i \in 0..Len(a) /\ j \in 0..Len(b) /\ taken[k] \in 0..Len(a)
      /\ k - taken[k] \in 0..Len(b)
  BY <1>2, TakenBounds
<1>4. taken[k] = IF Sorting!FromFirst(a, b, i, j) THEN i + 1 ELSE i
  BY TakenIs
<1>5. Sorting!Merged(a, b)[k] = IF taken[k] > i THEN a[taken[k]] ELSE b[k - taken[k]]
  BY DEF Sorting!Merged
<1> HIDE DEF taken
<1>6. CASE Sorting!FromFirst(a, b, i, j)
  BY <1>1, <1>3, <1>4, <1>5, <1>6 DEF taken
<1>7. CASE ~Sorting!FromFirst(a, b, i, j)
  <2>1. taken[k] = i /\ k - taken[k] = j + 1
    BY <1>3, <1>4, <1>7
  <2>2. j + 1 \in 1..Len(b)
    BY <1>1, <1>3, <2>1
  <2>3. Sorting!Merged(a, b)[k] = b[j + 1]
    BY <1>3, <1>5, <2>1
  <2> QED BY <1>3, <1>7, <2>1, <2>2, <2>3 DEF taken
<1> QED BY <1>6, <1>7

LEMMA MergedIsSeq ==
  ASSUME NEW a \in Seq(Int), NEW b \in Seq(Int)
  PROVE  /\ Sorting!Merged(a, b) \in Seq(Int)
         /\ Len(Sorting!Merged(a, b)) = Len(a) + Len(b)
<1> DEFINE n == Len(a) + Len(b)
           m == Sorting!Merged(a, b)
<1>1. n \in Nat
  BY LenProperties
<1>2. \A k \in 1..n : m[k] \in Int
  <2> SUFFICES ASSUME NEW k \in 1..n PROVE m[k] \in Int
    OBVIOUS
  <2>1. \A i \in 1..Len(a) : a[i] \in Int
    BY ElementOfSeq
  <2>2. \A j \in 1..Len(b) : b[j] \in Int
    BY ElementOfSeq
  <2>3. \/ \E i \in 1..Len(a) : m[k] = a[i]
        \/ \E j \in 1..Len(b) : m[k] = b[j]
    <3> HIDE DEF m
    <3> QED BY MergedTakes DEF m
  <2> QED BY <2>1, <2>2, <2>3
<1>3. m = [k \in 1..n |-> m[k]]
  BY DEF Sorting!Merged
<1> HIDE DEF m, n
<1>4. m \in [1..n -> Int]
  BY <1>2, <1>3
<1>5. m \in Seq(Int) /\ Len(m) = n
  BY <1>1, <1>4
<1> QED BY <1>5 DEF m, n

(* Merging what is sorted leaves it sorted: nothing that has been taken is *)
(* greater than what is still to be taken.                                 *)
LEMMA MergedIsSorted ==
  ASSUME NEW a \in Seq(Int), NEW b \in Seq(Int), Sorting!is_sorted(a), Sorting!is_sorted(b)
  PROVE  Sorting!is_sorted(Sorting!Merged(a, b))
<1> DEFINE n == Len(a) + Len(b)
           taken == Sorting!Taken(a, b)
           m == Sorting!Merged(a, b)
           Below(k) == \A x \in 1..k :
                         /\ \A i \in taken[k] + 1..Len(a) : m[x] <= a[i]
                         /\ \A j \in k - taken[k] + 1..Len(b) : m[x] <= b[j]
           S == {k \in Nat : k \in 0..n => Below(k)}
<1>1. /\ Len(a) \in Nat /\ Len(b) \in Nat /\ n \in Nat
      /\ \A i \in 1..Len(a) : a[i] \in Int
      /\ \A j \in 1..Len(b) : b[j] \in Int
  BY LenProperties, ElementOfSeq
<1>2. DOMAIN m = 1..n /\ \A k \in 1..n : m[k] \in Int
  <2>1. m \in Seq(Int) /\ Len(m) = n
    BY MergedIsSeq
  <2> HIDE DEF m, n
  <2> QED BY <2>1, ElementOfSeq, LenProperties
<1>3. /\ \A i, j \in 1..Len(a) : i < j => a[i] <= a[j]
      /\ \A i, j \in 1..Len(b) : i < j => b[i] <= b[j]
  BY LenProperties DEF Sorting!is_sorted
<1>4. ASSUME NEW k \in Nat, k + 1 \in 1..n
      PROVE  /\ taken[k] \in 0..Len(a) /\ k - taken[k] \in 0..Len(b)
             /\ \/ /\ Sorting!FromFirst(a, b, taken[k], k - taken[k])
                   /\ taken[k + 1] = taken[k] + 1 /\ taken[k] + 1 \in 1..Len(a)
                   /\ m[k + 1] = a[taken[k] + 1]
                \/ /\ ~Sorting!FromFirst(a, b, taken[k], k - taken[k])
                   /\ taken[k + 1] = taken[k] /\ k - taken[k] + 1 \in 1..Len(b)
                   /\ m[k + 1] = b[k - taken[k] + 1]
  <2>1. PICK h \in 1..Len(a) + Len(b) : h = k + 1
    BY <1>4
  <2>2. h - 1 = k
    BY <2>1
  <2> DEFINE Takes(g) == /\ taken[g] \in 0..Len(a) /\ g - taken[g] \in 0..Len(b)
                         /\ \/ /\ Sorting!FromFirst(a, b, taken[g], g - taken[g])
                               /\ taken[h] = taken[g] + 1 /\ taken[g] + 1 \in 1..Len(a)
                               /\ m[h] = a[taken[g] + 1]
                            \/ /\ ~Sorting!FromFirst(a, b, taken[g], g - taken[g])
                               /\ taken[h] = taken[g] /\ g - taken[g] + 1 \in 1..Len(b)
                               /\ m[h] = b[g - taken[g] + 1]
  <2>3. Takes(h - 1)
    BY MergedTakes
  <2> HIDE DEF taken, m, Takes
  <2>4. Takes(k)
    BY ONLY <2>2, <2>3
  <2> QED BY ONLY <2>1, <2>4 DEF Takes
<1> HIDE DEF taken, m, n
<1>5. 0 \in S
  OBVIOUS
<1>6. ASSUME NEW k \in Nat, k \in S PROVE k + 1 \in S
  <2> SUFFICES ASSUME k + 1 \in 0..n PROVE Below(k + 1)
    OBVIOUS
  <2>1. k + 1 \in 1..n /\ k \in 0..n
    BY <1>1
  <2>2. Below(k)
    BY <1>6, <2>1
  <2>3. PICK p \in 0..Len(a), q \in 0..Len(b) : p = taken[k] /\ q = k - taken[k]
    BY <1>4, <2>1
  <2>4. p \in Nat /\ q \in Nat /\ p + q = k /\ m[k + 1] \in Int
    BY <1>1, <1>2, <2>1, <2>3
  <2>5. \A x \in 1..k : /\ \A i \in p + 1..Len(a) : m[x] <= a[i]
                        /\ \A j \in q + 1..Len(b) : m[x] <= b[j]
    BY <2>2, <2>3
  <2>6. \A x \in 1..k + 1 : x \in 1..k \/ x = k + 1
    OBVIOUS
  <2>7. \/ /\ Sorting!FromFirst(a, b, p, q) /\ taken[k + 1] = p + 1
           /\ p + 1 \in 1..Len(a) /\ m[k + 1] = a[p + 1]
        \/ /\ ~Sorting!FromFirst(a, b, p, q) /\ taken[k + 1] = p
           /\ q + 1 \in 1..Len(b) /\ m[k + 1] = b[q + 1]
    BY <1>4, <2>1, <2>3
  <2>8. CASE /\ Sorting!FromFirst(a, b, p, q) /\ taken[k + 1] = p + 1
             /\ p + 1 \in 1..Len(a) /\ m[k + 1] = a[p + 1]
    <3>1. p + 2..Len(a) \subseteq p + 1..Len(a) /\ p + 2..Len(a) \subseteq 1..Len(a)
      BY <1>1, <2>4
    <3>2. \A i \in p + 2..Len(a) : p + 1 < i
      BY <1>1, <2>4
    <3>3. \A i \in p + 2..Len(a) : m[k + 1] <= a[i]
      BY ONLY <1>3, <2>8, <3>1, <3>2
    <3>4. ASSUME NEW j \in q + 1..Len(b) PROVE m[k + 1] <= b[j]
      <4>1. q < Len(b) /\ q + 1 \in 1..Len(b) /\ j \in 1..Len(b) /\ (q + 1 = j \/ q + 1 < j)
        BY <1>1, <2>4, <3>4
      <4>2. b[q + 1] \in Int /\ a[p + 1] \in Int /\ b[j] \in Int
        BY <1>1, <2>8, <4>1
      <4>3. ~(b[q + 1] < a[p + 1])
        BY <2>8, <4>1 DEF Sorting!FromFirst
      <4>4. b[q + 1] <= b[j]
        BY <1>3, <4>1, <4>2
      <4> QED BY ONLY <2>8, <4>2, <4>3, <4>4
    <3>5. ASSUME NEW x \in 1..k + 1
          PROVE  /\ \A i \in p + 2..Len(a) : m[x] <= a[i]
                 /\ \A j \in q + 1..Len(b) : m[x] <= b[j]
      BY ONLY <2>5, <2>6, <3>1, <3>3, <3>4, <3>5, Zenon
    <3>6. taken[k + 1] + 1 = p + 2 /\ (k + 1) - taken[k + 1] + 1 = q + 1
      BY ONLY <2>4, <2>8
    <3> QED BY <3>5, <3>6
  <2>9. CASE /\ ~Sorting!FromFirst(a, b, p, q) /\ taken[k + 1] = p
             /\ q + 1 \in 1..Len(b) /\ m[k + 1] = b[q + 1]
    <3>1. q + 2..Len(b) \subseteq q + 1..Len(b) /\ q + 2..Len(b) \subseteq 1..Len(b)
      BY <1>1, <2>4
    <3>2. \A j \in q + 2..Len(b) : q + 1 < j
      BY <1>1, <2>4
    <3>3. \A j \in q + 2..Len(b) : m[k + 1] <= b[j]
      BY ONLY <1>3, <2>9, <3>1, <3>2
    <3>4. ASSUME NEW i \in p + 1..Len(a) PROVE m[k + 1] <= a[i]
      <4>1. p < Len(a) /\ p + 1 \in 1..Len(a) /\ i \in 1..Len(a) /\ (p + 1 = i \/ p + 1 < i)
        BY <1>1, <2>4, <3>4
      <4>2. a[p + 1] \in Int /\ b[q + 1] \in Int /\ a[i] \in Int
        BY <1>1, <2>9, <4>1
      <4>3. b[q + 1] < a[p + 1]
        BY <2>9, <4>1 DEF Sorting!FromFirst
      <4>4. a[p + 1] <= a[i]
        BY <1>3, <4>1, <4>2
      <4> QED BY ONLY <2>9, <4>2, <4>3, <4>4
    <3>5. ASSUME NEW x \in 1..k + 1
          PROVE  /\ \A i \in p + 1..Len(a) : m[x] <= a[i]
                 /\ \A j \in q + 2..Len(b) : m[x] <= b[j]
      BY ONLY <2>5, <2>6, <3>1, <3>3, <3>4, <3>5, Zenon
    <3>6. taken[k + 1] + 1 = p + 1 /\ (k + 1) - taken[k + 1] + 1 = q + 2
      BY ONLY <2>4, <2>9
    <3> QED BY <3>5, <3>6
  <2> QED BY <2>7, <2>8, <2>9
<1>7. \A k \in 0..n : Below(k)
  <2>1. Nat \subseteq S
    <3> HIDE DEF S
    <3> QED BY <1>5, <1>6, Induction
  <2> QED BY <1>1, <2>1
<1>8. ASSUME NEW x \in 1..n, NEW y \in 1..n, x < y PROVE m[x] <= m[y]
  <2> DEFINE k == y - 1
  <2>1. k \in Nat /\ k + 1 = y /\ k \in 0..n /\ x \in 1..k
    BY <1>1, <1>8
  <2> HIDE DEF k
  <2>2. Below(k)
    BY <1>7, <2>1
  <2>3. \/ taken[k] + 1 \in taken[k] + 1..Len(a) /\ m[y] = a[taken[k] + 1]
        \/ k - taken[k] + 1 \in k - taken[k] + 1..Len(b) /\ m[y] = b[k - taken[k] + 1]
    <3>1. taken[k] \in 0..Len(a) /\ k - taken[k] \in 0..Len(b)
      BY <1>4, <2>1
    <3>2. \/ taken[k] + 1 \in 1..Len(a) /\ m[y] = a[taken[k] + 1]
          \/ k - taken[k] + 1 \in 1..Len(b) /\ m[y] = b[k - taken[k] + 1]
      BY <1>4, <2>1
    <3> QED BY <1>1, <3>1, <3>2
  <2> QED BY <2>1, <2>2, <2>3
<1> QED BY <1>2, <1>8 DEF Sorting!is_sorted, m

(* How many elements of f up to k are v.                                   *)
Count(f, k, v) == Cardinality({x \in 1..k : f[x] = v})

LEMMA CountMore ==
  ASSUME NEW f, NEW v, NEW k \in Nat
  PROVE  /\ Count(f, k, v) \in Nat
         /\ Count(f, k + 1, v) = IF f[k + 1] = v THEN Count(f, k, v) + 1 ELSE Count(f, k, v)
         /\ Count(f, 0, v) = 0
<1> DEFINE Of(n) == {x \in 1..n : f[x] = v}
<1>1. IsFiniteSet(Of(k))
  <2>1. IsFiniteSet(1..k)
    BY FS_Interval
  <2> QED BY <2>1, FS_Subset
<1>2. Of(k + 1) = IF f[k + 1] = v THEN Of(k) \cup {k + 1} ELSE Of(k)
  <2>1. \A x : x \in 1..k + 1 <=> x \in 1..k \/ x = k + 1
    OBVIOUS
  <2> QED BY <2>1
<1>3. k + 1 \notin Of(k) /\ Of(0) = {}
  OBVIOUS
<1> HIDE DEF Of
<1>4. Cardinality(Of(k)) \in Nat /\ Cardinality(Of(k) \cup {k + 1}) = Cardinality(Of(k)) + 1
  BY <1>1, <1>3, FS_CardinalityType, FS_AddElement
<1>5. Cardinality(Of(0)) = 0
  BY <1>3, FS_EmptySet
<1> QED BY <1>2, <1>4, <1>5 DEF Count, Of

(* Merging loses no element and makes none up.                             *)
LEMMA MergedCounts ==
  ASSUME NEW a \in Seq(Int), NEW b \in Seq(Int), NEW v
  PROVE  Count(Sorting!Merged(a, b), Len(a) + Len(b), v) = Count(a, Len(a), v) + Count(b, Len(b), v)
<1> DEFINE n == Len(a) + Len(b)
           taken == Sorting!Taken(a, b)
           m == Sorting!Merged(a, b)
           Even(k) == Count(m, k, v) = Count(a, taken[k], v) + Count(b, k - taken[k], v)
           S == {k \in Nat : k \in 0..n => Even(k)}
<1>1. Len(a) \in Nat /\ Len(b) \in Nat /\ n \in Nat
  BY LenProperties
<1>2. /\ taken[0] = 0 /\ taken[n] = Len(a) /\ n - taken[n] = Len(b)
  BY TakenIs, TakenBounds
<1>3. ASSUME NEW k \in Nat, k + 1 \in 1..n
      PROVE  /\ taken[k] \in 0..Len(a) /\ k - taken[k] \in 0..Len(b)
             /\ \/ taken[k + 1] = taken[k] + 1 /\ m[k + 1] = a[taken[k] + 1]
                \/ taken[k + 1] = taken[k] /\ m[k + 1] = b[k - taken[k] + 1]
  <2>1. PICK h \in 1..Len(a) + Len(b) : h = k + 1
    BY <1>3
  <2>2. h - 1 = k
    BY <2>1
  <2> DEFINE Takes(g) == /\ taken[g] \in 0..Len(a) /\ g - taken[g] \in 0..Len(b)
                         /\ \/ /\ Sorting!FromFirst(a, b, taken[g], g - taken[g])
                               /\ taken[h] = taken[g] + 1 /\ taken[g] + 1 \in 1..Len(a)
                               /\ m[h] = a[taken[g] + 1]
                            \/ /\ ~Sorting!FromFirst(a, b, taken[g], g - taken[g])
                               /\ taken[h] = taken[g] /\ g - taken[g] + 1 \in 1..Len(b)
                               /\ m[h] = b[g - taken[g] + 1]
  <2>3. Takes(h - 1)
    BY MergedTakes
  <2> HIDE DEF taken, m, Takes
  <2>4. Takes(k)
    BY ONLY <2>2, <2>3
  <2> QED BY ONLY <2>1, <2>4 DEF Takes
<1> HIDE DEF taken, m, n
<1>4. 0 \in S
  BY <1>2, CountMore
<1>5. ASSUME NEW k \in Nat, k \in S PROVE k + 1 \in S
  <2> SUFFICES ASSUME k + 1 \in 0..n PROVE Even(k + 1)
    OBVIOUS
  <2>1. k + 1 \in 1..n /\ k \in 0..n
    BY <1>1
  <2>2. Even(k)
    BY <1>5, <2>1
  <2>3. taken[k] \in Nat /\ k - taken[k] \in Nat
    BY <1>1, <1>3, <2>1
  <2> DEFINE i == taken[k]
             j == k - taken[k]
  <2>4. /\ Count(m, k, v) \in Nat /\ Count(a, i, v) \in Nat /\ Count(b, j, v) \in Nat
        /\ Count(m, k + 1, v) = IF m[k + 1] = v THEN Count(m, k, v) + 1 ELSE Count(m, k, v)
        /\ Count(a, i + 1, v) = IF a[i + 1] = v THEN Count(a, i, v) + 1 ELSE Count(a, i, v)
        /\ Count(b, j + 1, v) = IF b[j + 1] = v THEN Count(b, j, v) + 1 ELSE Count(b, j, v)
    BY <2>3, CountMore
  <2>5. CASE taken[k + 1] = i + 1 /\ m[k + 1] = a[i + 1]
    <3>1. (k + 1) - (i + 1) = j
      BY <2>3
    <3>2. Count(b, (k + 1) - taken[k + 1], v) = Count(b, j, v)
      BY <2>5, <3>1
    <3>3. Count(a, taken[k + 1], v) = Count(a, i + 1, v)
      BY <2>5
    <3>4. Count(m, k + 1, v) = Count(a, i + 1, v) + Count(b, j, v)
      BY <2>2, <2>4, <2>5
    <3> QED BY <3>2, <3>3, <3>4
  <2>6. CASE taken[k + 1] = i /\ m[k + 1] = b[j + 1]
    <3>1. (k + 1) - i = j + 1
      BY <2>3
    <3>2. Count(b, (k + 1) - taken[k + 1], v) = Count(b, j + 1, v)
      BY <2>6, <3>1
    <3>3. Count(a, taken[k + 1], v) = Count(a, i, v)
      BY <2>6
    <3>4. Count(m, k + 1, v) = Count(a, i, v) + Count(b, j + 1, v)
      BY <2>2, <2>4, <2>6
    <3> QED BY <3>2, <3>3, <3>4
  <2> QED BY <1>3, <2>1, <2>5, <2>6
<1>6. n \in S
  <2> HIDE DEF S
  <2> QED BY <1>1, <1>4, <1>5, Induction
<1> QED BY <1>1, <1>2, <1>6 DEF m, n

-----------------------------------------------------------------------------
(* The merge sort: the bounds of the tasks are those of the vector, and a  *)
(* task that has created another has more than one element.                *)
Stages == {"created", "left created", "waiting", "merged", "done"}
Dividing == {"left created", "waiting", "merged"}
SortFields == {"given", "values", "task"}

SortMain ==
  /\ main \in [at : {"start", "sort", "ended"}, next : {0}, count : {0}, error : BOOLEAN]
  /\ DOMAIN shared = SortFields
  /\ Len(shared.values) \in Nat /\ DOMAIN shared.values = 1..Len(shared.values)

IsPart(t, n) == t[1] \in 0..n /\ t[2] \in t[1] - 1..n - 1
Divides(t, stage) == stage \in Dividing => t[1] < t[2]

SortTasks ==
  \A t \in DOMAIN shared.task :
    /\ shared.task[t].stage \in Stages /\ IsPart(t, Len(shared.values))
    /\ Divides(t, shared.task[t].stage)

SortingInv == program \in Sorting!Programs /\ SortMain /\ SortTasks

LEMMA Length ==
  ASSUME NEW f, NEW n \in Nat, f = [i \in 1..n |-> f[i]]
  PROVE  Len(f) = n /\ DOMAIN f = 1..n
<1> DEFINE S == {f[i] : i \in 1..n}
<1>1. f \in [1..n -> S]
  OBVIOUS
<1> HIDE DEF S
<1>2. f \in Seq(S)
  BY <1>1
<1> QED BY <1>1, <1>2

(* The halves of a part of more than one element are parts.                *)
LEMMA Halves ==
  ASSUME NEW n \in Nat, NEW t, IsPart(t, n), t[1] < t[2]
  PROVE  IsPart(Sorting!LeftHalf(t), n) /\ IsPart(Sorting!RightHalf(t), n)
<1> DEFINE a == t[1]
           b == t[2]
           m == (a + b) \div 2
<1>1. a \in Int /\ b \in Int /\ 0 <= a /\ a < b /\ b <= n - 1
  BY DEF IsPart
<1>2. m \in Int /\ a <= m /\ m < b
  BY <1>1
<1>3. Sorting!LeftHalf(t) = <<a, m>> /\ Sorting!RightHalf(t) = <<m + 1, b>>
  BY DEF Sorting!LeftHalf, Sorting!RightHalf, Sorting!Mid
<1> HIDE DEF a, b, m
<1>4. IsPart(<<a, m>>, n) /\ IsPart(<<m + 1, b>>, n)
  BY <1>1, <1>2 DEF IsPart
<1> QED BY <1>3, <1>4

(* What the tasks do: one goes on, and may create another.                 *)
TasksGoOn ==
  \A u \in DOMAIN shared'.task :
    \/ u \in DOMAIN shared.task /\ shared'.task[u] = shared.task[u]
    \/ /\ u \in DOMAIN shared.task /\ shared'.task[u].stage \in Stages
       /\ Divides(u, shared'.task[u].stage)
    \/ IsPart(u, Len(shared.values)) /\ shared'.task[u].stage = "created"

LEMMA SortTasksKeep ==
  ASSUME SortTasks, TasksGoOn, Len(shared'.values) = Len(shared.values)
  PROVE  SortTasks'
<1>1. "created" \in Stages /\ "created" \notin Dividing
  BY DEF Stages, Dividing
<1> SUFFICES ASSUME NEW u \in DOMAIN shared'.task
             PROVE  /\ shared'.task[u].stage \in Stages /\ IsPart(u, Len(shared.values))
                    /\ Divides(u, shared'.task[u].stage)
  BY DEF SortTasks
<1> QED BY <1>1 DEF SortTasks, TasksGoOn, Divides

LEMMA SortingInitially ==
  Sorting!Init => SortingInv
<1> SUFFICES ASSUME Sorting!Init PROVE SortingInv
  OBVIOUS
<1>1. PICK vector \in Vectors :
        Sorting!Starts([given |-> vector, values |-> vector, task |-> <<>>])
  BY DEF Sorting!Init
<1>2. /\ main = [at |-> "start", next |-> 0, count |-> 0, error |-> FALSE]
      /\ shared = [given |-> vector, values |-> vector, task |-> <<>>]
      /\ program \in Sorting!Programs
  BY <1>1 DEF Sorting!Init, Sorting!Starts
<1>3. vector \in Seq(Int)
  BY VectorsAssumption
<1>4. SortMain
  BY <1>2, <1>3 DEF SortMain, SortFields
<1>5. SortTasks
  BY <1>2 DEF SortTasks
<1> QED BY <1>2, <1>4, <1>5 DEF SortingInv

(* A step that leaves the vector as it is, or of the same length.          *)
LEMMA SortFieldsKeep ==
  ASSUME SortMain, main' = main, NEW task, NEW values,
         values = shared.values \/ values = [i \in DOMAIN shared.values |-> values[i]],
         shared' = [shared EXCEPT !.values = values, !.task = task]
  PROVE  SortMain' /\ Len(shared'.values) = Len(shared.values) /\ shared'.task = task
<1>1. /\ DOMAIN shared = SortFields /\ Len(shared.values) \in Nat
      /\ DOMAIN shared.values = 1..Len(shared.values)
  BY DEF SortMain
<1>2. DOMAIN shared' = SortFields /\ shared'.values = values /\ shared'.task = task
  BY <1>1 DEF SortFields
<1>3. Len(values) = Len(shared.values) /\ DOMAIN values = 1..Len(shared.values)
  BY <1>1, Length
<1> QED BY <1>1, <1>2, <1>3 DEF SortMain

LEMMA TaskBecomes ==
  ASSUME SortMain, SortTasks, main' = main, NEW t \in DOMAIN shared.task,
         NEW stage \in Stages, Divides(t, stage), NEW temp, NEW values,
         values = shared.values \/ values = [i \in DOMAIN shared.values |-> values[i]],
         shared' = [shared EXCEPT !.values = values, !.task = Sorting!Becomes(t, stage, temp)]
  PROVE  SortMain' /\ SortTasks'
<1> DEFINE task == Sorting!Becomes(t, stage, temp)
<1>1. DOMAIN task = DOMAIN shared.task /\ task[t].stage = stage
  BY DEF Sorting!Becomes
<1>2. \A u \in DOMAIN shared.task \ {t} : task[u] = shared.task[u]
  BY DEF Sorting!Becomes
<1> HIDE DEF task
<1>3. SortMain' /\ Len(shared'.values) = Len(shared.values) /\ shared'.task = task
  BY SortFieldsKeep DEF task
<1>4. TasksGoOn
  BY <1>1, <1>2, <1>3 DEF TasksGoOn
<1> QED BY <1>3, <1>4, SortTasksKeep

LEMMA TaskCreates ==
  ASSUME SortMain, SortTasks, main' = main, NEW t \in DOMAIN shared.task,
         NEW stage \in Stages, Divides(t, stage), NEW child, IsPart(child, Len(shared.values)),
         Sorting!Creates(t, stage, child)
  PROVE  SortMain' /\ SortTasks'
<1> DEFINE old == Sorting!Becomes(t, stage, <<>>)
           task == [u \in {child} \cup DOMAIN shared.task |->
                     IF u = child THEN Sorting!Created ELSE old[u]]
<1>1. DOMAIN shared = SortFields
  BY DEF SortMain
<1>2. shared' = [shared EXCEPT !["task"] = task]
  BY DEF Sorting!Creates, Sorting!Field
<1>3. old[t].stage = stage
  BY DEF Sorting!Becomes
<1>4. \A u \in DOMAIN shared.task \ {t} : old[u] = shared.task[u]
  BY DEF Sorting!Becomes
<1>5. Sorting!Created.stage = "created"
  BY DEF Sorting!Created
<1> HIDE DEF old
<1>6. /\ DOMAIN task = {child} \cup DOMAIN shared.task /\ task[child] = Sorting!Created
      /\ \A u \in DOMAIN shared.task \ {child} : task[u] = old[u]
  OBVIOUS
<1> HIDE DEF task
<1>7. shared' = [shared EXCEPT !.values = shared.values, !.task = task]
  BY <1>1, <1>2 DEF SortFields
<1>8. SortMain' /\ Len(shared'.values) = Len(shared.values) /\ shared'.task = task
  BY <1>7, SortFieldsKeep
<1>9. TasksGoOn
  BY <1>3, <1>4, <1>5, <1>6, <1>8 DEF TasksGoOn
<1> QED BY <1>8, <1>9, SortTasksKeep

LEMMA SortingKeeps ==
  ASSUME SortingInv, Sorting!Step(Sorting!MainStep)
  PROVE  SortingInv'
<1> DEFINE n == Len(shared.values)
<1>1. SortMain /\ SortTasks /\ Sorting!MainStep /\ program' = program
  BY DEF SortingInv, Sorting!Step
<1>2. /\ DOMAIN shared = SortFields /\ n \in Nat /\ DOMAIN shared.values = 1..n
      /\ main \in [at : {"start", "sort", "ended"}, next : {0}, count : {0}, error : BOOLEAN]
  BY <1>1 DEF SortMain
<1> HIDE DEF n
<1>3. ASSUME NEW from, NEW to \in {"start", "sort", "ended"}, Sorting!MainGoes(from, to)
      PROVE  main' \in [at : {"start", "sort", "ended"}, next : {0}, count : {0}, error : BOOLEAN]
  <2>1. main' = [at |-> to, next |-> 0, count |-> 0, error |-> main.error]
    BY <1>2, <1>3 DEF Sorting!MainGoes
  <2> QED BY <1>2, <2>1
<1>4. CASE Sorting!MainGoes("start", "sort")
           /\ Sorting!Field("task", [t \in {<<0, Len(shared.values) - 1>>} |-> Sorting!Created])
  <2> DEFINE t == <<0, n - 1>>
             task == [u \in {t} |-> Sorting!Created]
  <2>1. main' \in [at : {"start", "sort", "ended"}, next : {0}, count : {0}, error : BOOLEAN]
    BY <1>3, <1>4
  <2>2. shared' = [shared EXCEPT !["task"] = task]
    BY <1>4 DEF Sorting!Field, n
  <2>3. IsPart(t, n)
    BY <1>2 DEF IsPart
  <2>4. DOMAIN task = {t} /\ task[t] = [stage |-> "created", temp |-> <<>>]
    BY DEF Sorting!Created
  <2> HIDE DEF task, t
  <2>5. DOMAIN shared' = SortFields /\ shared'.values = shared.values /\ shared'.task = task
    BY <1>2, <2>2 DEF SortFields
  <2>6. SortMain'
    BY <1>2, <2>1, <2>5 DEF SortMain, n
  <2>7. task[t].stage = "created"
    BY <2>4
  <2>8. TasksGoOn
    BY <2>3, <2>4, <2>5, <2>7 DEF TasksGoOn, n
  <2>9. SortTasks'
    BY <1>1, <2>5, <2>8, SortTasksKeep
  <2> QED BY <1>1, <2>6, <2>9 DEF SortingInv
<1>5. CASE Sorting!Passes("sort", "ended")
  <2>1. /\ main' \in [at : {"start", "sort", "ended"}, next : {0}, count : {0}, error : BOOLEAN]
        /\ shared' = shared
    BY <1>3, <1>5 DEF Sorting!Passes
  <2> QED BY <1>1, <2>1 DEF SortingInv, SortMain, SortTasks
<1>6. ASSUME NEW t \in DOMAIN shared.task, Sorting!TaskStep(t)
      PROVE  SortingInv'
  <2>1. main' = main /\ (Sorting!NothingToSort(t) \/ Sorting!CreateHalves(t)
                         \/ Sorting!MergeHalves(t) \/ Sorting!CopyBack(t))
    BY <1>6 DEF Sorting!TaskStep
  <2>2. IsPart(t, n) /\ Divides(t, shared.task[t].stage)
    BY <1>1 DEF SortTasks, n
  <2>3. t[1] \in Int /\ t[2] \in Int
    BY <1>2, <2>2 DEF IsPart
  <2>4. /\ {"done", "merged"} \subseteq Stages /\ "done" \notin Dividing
        /\ {"waiting", "merged"} \subseteq Dividing /\ Dividing \subseteq Stages
    BY Zenon DEF Stages, Dividing
  <2>5. ASSUME NEW stage \in Stages, Divides(t, stage), NEW temp,
               Sorting!Field("task", Sorting!Becomes(t, stage, temp))
        PROVE  SortMain' /\ SortTasks'
    <3>1. shared' = [shared EXCEPT !["task"] = Sorting!Becomes(t, stage, temp)]
      BY <2>5 DEF Sorting!Field
    <3>2. shared' = [shared EXCEPT !.values = shared.values,
                                   !.task = Sorting!Becomes(t, stage, temp)]
      BY <1>2, <3>1 DEF SortFields
    <3> QED BY <1>1, <2>1, <2>5, <3>2, TaskBecomes
  <2>6. CASE Sorting!NothingToSort(t)
    BY <1>1, <2>4, <2>5, <2>6 DEF Sorting!NothingToSort, Divides, SortingInv
  <2>7. CASE Sorting!CreateHalves(t)
    <3>1. PICK stage \in Dividing, child \in {Sorting!LeftHalf(t), Sorting!RightHalf(t)} :
            /\ Sorting!Creates(t, stage, child)
            /\ t[2] - t[1] > 0 \/ shared.task[t].stage \in Dividing
      BY ONLY <2>7, Zenon DEF Sorting!CreateHalves, Sorting!At, Dividing
    <3>2. t[1] < t[2]
      BY <2>2, <2>3, <3>1 DEF Divides
    <3>3. IsPart(child, n)
      BY <1>2, <2>2, <3>1, <3>2, Halves
    <3> QED BY <1>1, <2>1, <2>4, <3>1, <3>2, <3>3, TaskCreates DEF Divides, n, SortingInv
  <2>8. CASE Sorting!MergeHalves(t)
    <3>1. shared.task[t].stage = "waiting"
      BY <2>8 DEF Sorting!MergeHalves, Sorting!At
    <3>2. \E temp : Sorting!Field("task", Sorting!Becomes(t, "merged", temp))
      BY ONLY <2>8, Zenon DEF Sorting!MergeHalves
    <3>3. Divides(t, "merged")
      BY <2>2, <2>4, <3>1 DEF Divides
    <3> QED BY <1>1, <2>4, <2>5, <3>2, <3>3 DEF SortingInv
  <2>9. CASE Sorting!CopyBack(t)
    <3> DEFINE values == [i \in DOMAIN shared.values |->
                           IF i - 1 \in t[1]..t[2] THEN shared.task[t].temp[i - t[1]]
                           ELSE shared.values[i]]
    <3>1. shared' = [shared EXCEPT !.values = values, !.task = Sorting!Becomes(t, "done", <<>>)]
      BY <2>9 DEF Sorting!CopyBack
    <3>2. values = [i \in DOMAIN shared.values |-> values[i]]
      OBVIOUS
    <3> HIDE DEF values
    <3>3. Divides(t, "done")
      BY <2>4 DEF Divides
    <3> QED BY <1>1, <2>1, <2>4, <3>1, <3>2, <3>3, TaskBecomes DEF SortingInv
  <2> QED BY <2>1, <2>6, <2>7, <2>8, <2>9
<1> QED BY <1>1, <1>4, <1>5, <1>6 DEF Sorting!MainStep, Sorting!Team

LEMMA SortingPromises ==
  SortingInv => Sorting!TypeOK
<1> SUFFICES ASSUME SortingInv PROVE Sorting!TypeOK
  OBVIOUS
<1>1. program \in Sorting!Programs /\ main.at \in {"start", "sort", "ended"}
  BY DEF SortingInv, SortMain
<1>2. \A t \in DOMAIN shared.task :
        /\ t[1] \in 0..Len(shared.values) /\ t[2] \in t[1] - 1..Len(shared.values) - 1
  BY DEF SortingInv, SortTasks, IsPart
<1>3. \A t \in DOMAIN shared.task : shared.task[t].stage \in Stages
  BY DEF SortingInv, SortTasks
<1> QED BY ONLY <1>1, <1>2, <1>3, Zenon DEF Sorting!TypeOK, Stages

(* Whether the parts are sorted.  A task has only nonempty parts of its    *)
(* halves inside, and all of them are done when it merges; so the tasks    *)
(* that work at the same time work apart.  What no wider task has sorted   *)
(* has the elements that were given.                                       *)
Inside(u, t) == Sorting!Within(u, t) /\ ~Sorting!Within(t, u)
Apart(u, t) == u[2] < t[1] \/ t[2] < u[1]
Indices(t) == t[1] + 1..t[2] + 1
HowOften(f, v, t) == Cardinality({i \in Indices(t) : f[i] = v})
SameOn(t, f, g) == \A i \in Indices(t) : f[i] = g[i]
SortedOn(t, f) == \A i, j \in Indices(t) : i < j => f[i] <= f[j]

HalfWay == "left created"
Stage(t) == shared.task[t].stage

SortVectors ==
  /\ shared.given \in Seq(Int) /\ shared.values \in Seq(Int)
  /\ main.at = "start" => shared.values = shared.given /\ DOMAIN shared.task = {}

Nested ==
  \A t \in DOMAIN shared.task :
    /\ t \in Int \X Int
    /\ \A u \in DOMAIN shared.task : u = t \/ Inside(u, t) \/ Inside(t, u) \/ Apart(u, t)

InsideAtStage(u, t) ==
  \/ Stage(t) = HalfWay /\ Sorting!Within(u, Sorting!LeftHalf(t))
  \/ /\ Stage(t) = "waiting"
     /\ Sorting!Within(u, Sorting!LeftHalf(t)) \/ Sorting!Within(u, Sorting!RightHalf(t))
  \/ Stage(t) \in {"merged", "done"} /\ Stage(u) = "done"

DoneInside ==
  \A t, u \in DOMAIN shared.task : Inside(u, t) => u[1] <= u[2] /\ InsideAtStage(u, t)

MergedFrom(t, temp) ==
  /\ temp \in Seq(Int) /\ Len(temp) = t[2] - t[1] + 1 /\ Sorting!is_sorted(temp)
  /\ \A v : Count(temp, Len(temp), v) = HowOften(shared.values, v, t)

Outermost(t) == \A u \in DOMAIN shared.task : Stage(u) = "done" => ~Inside(t, u)

PartOf(t) ==
  /\ Stage(t) = "created" => SameOn(t, shared.values, shared.given)
  /\ Stage(t) = HalfWay => SameOn(Sorting!RightHalf(t), shared.values, shared.given)
  /\ Stage(t) = "merged" => MergedFrom(t, shared.task[t].temp)
  /\ Stage(t) = "done" => SortedOn(t, shared.values)
  /\ Outermost(t) => \A v : HowOften(shared.values, v, t) = HowOften(shared.given, v, t)

PartsInv == SortVectors /\ Nested /\ DoneInside /\ \A t \in DOMAIN shared.task : PartOf(t)

SortedInv == SortingInv /\ PartsInv

LEMMA HalfWayIs ==
  /\ HalfWay \notin {"created", "waiting", "merged", "done"}
  /\ HalfWay \in Dividing /\ Dividing = {HalfWay, "waiting", "merged"}
BY Zenon DEF HalfWay, Dividing

(* What is within a part is that part or inside it.                        *)
LEMMA WithinIs ==
  ASSUME NEW t \in Int \X Int, NEW u \in Int \X Int, Sorting!Within(u, t)
  PROVE  u = t \/ Inside(u, t)
<1>1. u = <<u[1], u[2]>> /\ t = <<t[1], t[2]>>
  OBVIOUS
<1>2. u[1] = t[1] /\ u[2] = t[2] => u = t
  BY <1>1
<1>3. u[1] \in Int /\ u[2] \in Int /\ t[1] \in Int /\ t[2] \in Int
  OBVIOUS
<1> QED BY <1>2, <1>3 DEF Inside, Sorting!Within

LEMMA HalvesAre ==
  ASSUME NEW t \in Int \X Int, t[1] < t[2]
  PROVE  \E m \in Int : /\ t[1] <= m /\ m < t[2] /\ Sorting!Mid(t) = m
                        /\ Sorting!LeftHalf(t) = <<t[1], m>>
                        /\ Sorting!RightHalf(t) = <<m + 1, t[2]>>
<1> DEFINE m == (t[1] + t[2]) \div 2
<1>1. t[1] \in Int /\ t[2] \in Int
  OBVIOUS
<1>2. m \in Int /\ t[1] <= m /\ m < t[2]
  BY <1>1
<1>3. /\ Sorting!Mid(t) = m /\ Sorting!LeftHalf(t) = <<t[1], m>>
      /\ Sorting!RightHalf(t) = <<m + 1, t[2]>>
  BY DEF Sorting!LeftHalf, Sorting!RightHalf, Sorting!Mid
<1> QED BY <1>2, <1>3

(* Counting over two parts that have nothing in common.                    *)
LEMMA CountsAdd ==
  ASSUME NEW S, IsFiniteSet(S), NEW U, IsFiniteSet(U), S \cap U = {}
  PROVE  Cardinality(S \cup U) = Cardinality(S) + Cardinality(U)
<1>1. Cardinality(S) \in Nat /\ Cardinality(U) \in Nat /\ Cardinality(S \cap U) = 0
  BY FS_CardinalityType, FS_EmptySet
<1>2. Cardinality(S \cup U) = Cardinality(S) + Cardinality(U) - Cardinality(S \cap U)
  BY FS_Union
<1> QED BY <1>1, <1>2

(* Counting from another index.                                            *)
LEMMA CountShifted ==
  ASSUME NEW f, NEW g, NEW v, NEW t \in Int \X Int,
         \A i \in 1..t[2] - t[1] + 1 : f[i] = g[i + t[1]]
  PROVE  Count(f, t[2] - t[1] + 1, v) = HowOften(g, v, t)
<1> DEFINE n == t[2] - t[1] + 1
           S == {x \in 1..n : f[x] = v}
           U == {i \in Indices(t) : g[i] = v}
           move == [x \in S |-> x + t[1]]
<1>1. t[1] \in Int /\ t[2] \in Int /\ n \in Int
  OBVIOUS
<1>2. IsFiniteSet(S)
  <2>1. IsFiniteSet(1..n)
    BY <1>1, FS_Interval
  <2> QED BY <2>1, FS_Subset
<1>3. \A x \in S : x + t[1] \in U
  BY <1>1 DEF Indices
<1>4. \A i \in U : i - t[1] \in S /\ i = (i - t[1]) + t[1]
  BY <1>1 DEF Indices
<1>5. \A x, y \in S : x + t[1] = y + t[1] => x = y
  BY <1>1
<1> HIDE DEF S, U
<1>6. move \in [S -> U] /\ \A x, y \in S : move[x] = move[y] => x = y
  BY <1>3, <1>5
<1>7. \A i \in U : \E x \in S : move[x] = i
  BY <1>4
<1> HIDE DEF move
<1>8. move \in Bijection(S, U)
  BY <1>6, <1>7 DEF Bijection, Injection, IsInjective, Surjection
<1>9. Cardinality(U) = Cardinality(S)
  BY <1>2, <1>8, FS_Bijection DEF ExistsBijection
<1> QED BY <1>9 DEF Count, HowOften, S, U

LEMMA SameCount ==
  ASSUME NEW f, NEW g, NEW t, SameOn(t, f, g)
  PROVE  \A v : HowOften(f, v, t) = HowOften(g, v, t)
<1> SUFFICES ASSUME NEW v PROVE HowOften(f, v, t) = HowOften(g, v, t)
  OBVIOUS
<1>1. {i \in Indices(t) : f[i] = v} = {i \in Indices(t) : g[i] = v}
  BY DEF SameOn
<1> QED BY <1>1 DEF HowOften

(* The vector stays as it is, or so do the other tasks.                    *)
SameVectors == shared'.values = shared.values /\ shared'.given = shared.given
OthersStay(t) == \A u \in DOMAIN shared.task \ {t} : shared'.task[u] = shared.task[u]

(* A task that stays as it is, and whose part does, has what it had; it is *)
(* the outermost only if it was.                                           *)
LEMMA PartStays ==
  ASSUME NEW t \in DOMAIN shared.task, PartOf(t), shared'.task[t] = shared.task[t],
         SameVectors, Outermost(t)' => Outermost(t)
  PROVE  PartOf(t)'
<1>1. Stage(t)' = Stage(t)
  BY DEF Stage
<1>2. \A f, g : SameOn(t, f, g)' = SameOn(t, f, g)
  BY DEF SameOn, Indices
<1>3. \A temp : MergedFrom(t, temp)' = MergedFrom(t, temp)
  BY DEF MergedFrom, SameVectors
<1> QED BY <1>1, <1>3 DEF PartOf, SameVectors

(* A task of no more than one element is done, or the halves of one are    *)
(* and it merges them.                                                     *)
LEMMA TaskGoesOn ==
  ASSUME PartsInv, NEW t \in DOMAIN shared.task, main' = main, DOMAIN shared'.task = DOMAIN shared.task,
         SameVectors, OthersStay(t),
         \/ Stage(t) = "created" /\ Stage(t)' = "done" /\ t[2] <= t[1]
         \/ /\ Stage(t) = "waiting" /\ Stage(t)' = "merged" /\ MergedFrom(t, shared'.task[t].temp)
            /\ \A u \in {Sorting!LeftHalf(t), Sorting!RightHalf(t)} :
                 u \in DOMAIN shared.task /\ Stage(u) = "done"
  PROVE  PartsInv'
<1> DEFINE T == DOMAIN shared.task
<1>1. /\ T \subseteq Int \X Int
      /\ \A u \in T \ {t} : Stage(u)' = Stage(u)
      /\ \A u \in T : Stage(u) = "done" => Stage(u)' = "done"
  <2>1. \A u \in T \ {t} : Stage(u)' = Stage(u)
    BY DEF OthersStay, Stage
  <2>2. Stage(t) # "done"
    OBVIOUS
  <2> QED BY <2>1, <2>2 DEF PartsInv, Nested
<1>2. SortVectors' /\ Nested'
  BY DEF PartsInv, SortVectors, Nested, SameVectors
<1>3. ASSUME NEW u \in T, NEW w \in T, Inside(u, w)
      PROVE  u[1] <= u[2] /\ InsideAtStage(u, w)'
  <2>1. u[1] <= u[2] /\ InsideAtStage(u, w)
    BY <1>3 DEF PartsInv, DoneInside
  <2>2. CASE w # t
    BY <1>1, <2>1, <2>2 DEF InsideAtStage
  <2>3. CASE w = t
    <3>1. /\ Stage(t) = "waiting" /\ Stage(t)' = "merged"
          /\ Sorting!Within(u, Sorting!LeftHalf(t)) \/ Sorting!Within(u, Sorting!RightHalf(t))
      BY <2>1, <2>3, HalfWayIs DEF InsideAtStage
    <3>2. PICK half \in T : Sorting!Within(u, half) /\ Stage(half) = "done"
      BY <3>1
    <3>3. u = half \/ Inside(u, half)
      BY <1>1, <3>2, WithinIs
    <3>4. Inside(u, half) => InsideAtStage(u, half)
      BY DEF PartsInv, DoneInside
    <3>5. Stage(u) = "done"
      BY <3>2, <3>3, <3>4, HalfWayIs DEF InsideAtStage
    <3> QED BY <1>1, <2>1, <2>3, <3>1, <3>5 DEF InsideAtStage
  <2> QED BY <2>2, <2>3
<1>4. ASSUME NEW w \in T
      PROVE  PartOf(w)'
  <2>1. Outermost(w)' => Outermost(w)
    BY <1>1 DEF Outermost
  <2>2. PartOf(w)
    BY DEF PartsInv
  <2>3. CASE w # t
    BY <2>1, <2>2, <2>3, PartStays DEF OthersStay
  <2>4. CASE w = t
    <3>1. CASE Stage(t)' = "done" /\ t[2] <= t[1]
      <4>1. SortedOn(t, shared.values)
        <5>1. t[1] \in Int /\ t[2] \in Int
          BY <1>1
        <5> QED BY <3>1, <5>1 DEF SortedOn, Indices
      <4> QED BY <2>1, <2>2, <2>4, <3>1, <4>1, HalfWayIs DEF PartOf, SameVectors, SortedOn
    <3>2. CASE Stage(t)' = "merged" /\ MergedFrom(t, shared'.task[t].temp)
      <4>1. MergedFrom(t, shared.task[t].temp)'
        BY <3>2 DEF MergedFrom, SameVectors
      <4> QED BY <2>1, <2>2, <2>4, <3>2, <4>1, HalfWayIs DEF PartOf, SameVectors
    <3> QED BY <3>1, <3>2
  <2> QED BY <2>3, <2>4
<1>5. DoneInside'
  BY <1>3 DEF DoneInside, Inside
<1> QED BY <1>2, <1>4, <1>5 DEF PartsInv

(* A task creates another for a half of its part.                          *)
LEMMA TaskDivides ==
  ASSUME PartsInv, NEW t \in DOMAIN shared.task, NEW child, main' = main, t[1] < t[2],
         DOMAIN shared'.task = {child} \cup DOMAIN shared.task, SameVectors,
         \A u \in DOMAIN shared.task \ {child, t} : shared'.task[u] = shared.task[u],
         child # t => Stage(t)' = IF child = Sorting!LeftHalf(t) THEN HalfWay ELSE "waiting",
         Stage(child)' = "created",
         \/ Stage(t) = "created" /\ child = Sorting!LeftHalf(t)
         \/ Stage(t) = HalfWay /\ child = Sorting!RightHalf(t)
  PROVE  PartsInv'
<1> DEFINE T == DOMAIN shared.task
<1>1. /\ T \subseteq Int \X Int /\ t[1] \in Int /\ t[2] \in Int
      /\ \A u \in T : u[1] \in Int /\ u[2] \in Int
      /\ \A u, w \in T : u = w \/ Inside(u, w) \/ Inside(w, u) \/ Apart(u, w)
      /\ \A u, w \in T : Inside(u, w) => u[1] <= u[2] /\ InsideAtStage(u, w)
  <2>1. /\ T \subseteq Int \X Int
        /\ \A u, w \in T : u = w \/ Inside(u, w) \/ Inside(w, u) \/ Apart(u, w)
    BY DEF PartsInv, Nested
  <2>2. \A u, w \in T : Inside(u, w) => u[1] <= u[2] /\ InsideAtStage(u, w)
    BY DEF PartsInv, DoneInside
  <2> QED BY <2>1, <2>2
<1>2. PICK m \in Int : /\ t[1] <= m /\ m < t[2]
                       /\ Sorting!LeftHalf(t) = <<t[1], m>> /\ Sorting!RightHalf(t) = <<m + 1, t[2]>>
  BY <1>1, HalvesAre
<1>3. /\ child \in Int \X Int /\ child[1] \in Int /\ child[2] \in Int /\ child[1] <= child[2]
      /\ Inside(child, t) /\ child # t
  BY <1>1, <1>2 DEF Inside, Sorting!Within
<1>4. ASSUME NEW u \in T, Inside(u, t)
      PROVE  Stage(t) = HalfWay /\ Apart(u, child) /\ u[1] <= u[2]
  <2>1. u[1] <= u[2] /\ InsideAtStage(u, t)
    BY <1>1, <1>4
  <2>2. Stage(t) = HalfWay /\ Sorting!Within(u, Sorting!LeftHalf(t))
    BY <2>1, HalfWayIs DEF InsideAtStage
  <2>3. child = <<m + 1, t[2]>> /\ u[2] <= m
    BY <1>2, <2>2, HalfWayIs DEF Sorting!Within
  <2> QED BY <1>1, <2>1, <2>2, <2>3 DEF Apart
<1>5. child \notin T
  BY <1>1, <1>3, <1>4 DEF Apart
<1>6. ASSUME NEW u \in T, Apart(u, t)
      PROVE  Apart(u, child)
  BY <1>1, <1>3, <1>6 DEF Apart, Inside, Sorting!Within
<1>7. ASSUME NEW u \in T, Inside(t, u)
      PROVE  Inside(child, u)
  BY <1>1, <1>3, <1>7 DEF Inside, Sorting!Within
<1>8. \A u \in T : Inside(child, u) \/ Apart(u, child)
  BY <1>1, <1>3, <1>4, <1>6, <1>7
<1>9. \A u \in T : ~Inside(u, child)
  BY <1>1, <1>3, <1>4 DEF Inside, Apart, Sorting!Within
<1>10. /\ \A u \in T \ {t} : Stage(u)' = Stage(u)
       /\ Stage(t)' \in {HalfWay, "waiting"}
       /\ \A u \in T : Stage(u) = "done" => Stage(u)' = "done"
  <2>1. \A u \in T \ {t} : shared'.task[u] = shared.task[u]
    BY <1>5
  <2>2. Stage(t) # "done"
    BY HalfWayIs
  <2> QED BY <1>3, <2>1, <2>2 DEF Stage
<1>11. SortVectors'
  BY DEF PartsInv, SortVectors, SameVectors
<1>12. Nested'
  <2> SUFFICES ASSUME NEW u \in {child} \cup T
               PROVE  /\ u \in Int \X Int
                      /\ \A w \in {child} \cup T :
                           w = u \/ Inside(w, u) \/ Inside(u, w) \/ Apart(w, u)
    BY DEF Nested, Inside, Apart
  <2>1. \A w \in T : Apart(w, child) => Apart(child, w)
    BY DEF Apart
  <2> QED BY <1>1, <1>3, <1>8, <2>1
<1>13. ASSUME NEW u \in T, Inside(child, u)
       PROVE  InsideAtStage(child, u)'
  <2>1. CASE u = t
    <3>1. CASE child = Sorting!LeftHalf(t)
      <4>1. Stage(t)' = HalfWay /\ Sorting!Within(child, Sorting!LeftHalf(t))
        BY <1>3, <3>1 DEF Sorting!Within
      <4> QED BY <2>1, <4>1 DEF InsideAtStage
    <3>2. CASE child # Sorting!LeftHalf(t)
      <4>1. Stage(t)' = "waiting" /\ Sorting!Within(child, Sorting!RightHalf(t))
        BY <1>3, <3>2 DEF Sorting!Within
      <4> QED BY <2>1, <4>1 DEF InsideAtStage
    <3> QED BY <3>1, <3>2
  <2>2. CASE u # t
    <3>1. Inside(t, u)
      <4>1. ~Apart(u, t)
        <5>1. ~Apart(u, child)
          BY <1>1, <1>3, <1>13 DEF Apart, Inside, Sorting!Within
        <5> QED BY <1>6, <5>1
      <4>2. ~Inside(u, t)
        <5>1. ~Apart(u, child)
          BY <1>1, <1>3, <1>13 DEF Apart, Inside, Sorting!Within
        <5> QED BY <1>4, <5>1
      <4> QED BY <1>1, <2>2, <4>1, <4>2
    <3>2. InsideAtStage(t, u) /\ Stage(t) # "done" /\ Stage(u)' = Stage(u)
      BY <1>1, <1>10, <2>2, <3>1, HalfWayIs
    <3>3. \A half : Sorting!Within(t, half) /\ half[1] \in Int /\ half[2] \in Int
                    => Sorting!Within(child, half)
      BY <1>1, <1>3 DEF Inside, Sorting!Within
    <3>4. u[1] < u[2]
      BY <1>1, <3>1 DEF Inside, Sorting!Within
    <3>5. PICK k \in Int : /\ Sorting!LeftHalf(u) = <<u[1], k>>
                           /\ Sorting!RightHalf(u) = <<k + 1, u[2]>>
      BY <1>1, <3>4, HalvesAre
    <3>6. \A half \in {Sorting!LeftHalf(u), Sorting!RightHalf(u)} :
            Sorting!Within(t, half) => Sorting!Within(child, half)
      BY <1>1, <3>3, <3>5
    <3> QED BY <3>2, <3>6 DEF InsideAtStage
  <2> QED BY <2>1, <2>2
<1>14. ASSUME NEW u \in T, NEW w \in T, Inside(u, w)
       PROVE  InsideAtStage(u, w)'
  <2>1. InsideAtStage(u, w)
    BY <1>1, <1>14
  <2>2. CASE w = t
    <3>1. Stage(t) = HalfWay /\ Sorting!Within(u, Sorting!LeftHalf(t))
      BY <1>4, <1>14, <2>1, <2>2, HalfWayIs DEF InsideAtStage
    <3> QED BY <1>10, <2>2, <3>1 DEF InsideAtStage
  <2>3. CASE w # t
    BY <1>10, <2>1, <2>3 DEF InsideAtStage
  <2> QED BY <2>2, <2>3
<1>15. DoneInside'
  <2> SUFFICES ASSUME NEW w \in {child} \cup T, NEW u \in {child} \cup T, Inside(u, w)
               PROVE  u[1] <= u[2] /\ InsideAtStage(u, w)'
    BY DEF DoneInside, Inside
  <2>1. w \in T
    <3>1. ~Inside(child, child)
      BY DEF Inside
    <3> QED BY <1>9, <3>1
  <2> QED BY <1>1, <1>3, <1>13, <1>14, <2>1
<1>16. ASSUME NEW w \in T PROVE Outermost(w)' => Outermost(w)
  BY <1>10 DEF Outermost, Inside
<1>17. ASSUME NEW w \in T PROVE PartOf(w)'
  <2>1. PartOf(w)
    BY DEF PartsInv
  <2>2. CASE w # t
    BY <1>5, <1>16, <2>1, <2>2, PartStays
  <2>3. CASE w = t
    <3>1. CASE Stage(t)' = HalfWay
      <4>1. Stage(t) = "created"
        BY <1>2, <1>3, <3>1, HalfWayIs
      <4>2. SameOn(t, shared.values, shared.given)
        BY <2>1, <2>3, <4>1 DEF PartOf
      <4>3. SameOn(Sorting!RightHalf(t), shared.values, shared.given)
        BY <1>1, <1>2, <4>2 DEF SameOn, Indices
      <4> QED BY <1>16, <2>1, <2>3, <3>1, <4>3, HalfWayIs DEF PartOf, SameVectors
    <3>2. CASE Stage(t)' = "waiting"
      BY <1>16, <2>1, <2>3, <3>2, HalfWayIs DEF PartOf, SameVectors
    <3> QED BY <1>10, <3>1, <3>2
  <2> QED BY <2>2, <2>3
<1>18. PartOf(child)'
  <2>1. PartOf(t)
    BY DEF PartsInv
  <2>2. SameOn(child, shared.values, shared.given)
    <3>1. CASE Stage(t) = "created"
      BY <1>1, <1>2, <1>3, <2>1, <3>1 DEF PartOf, SameOn, Indices, Inside, Sorting!Within
    <3>2. CASE Stage(t) = HalfWay
      BY <2>1, <3>2, HalfWayIs DEF PartOf
    <3> QED BY <3>1, <3>2
  <2>3. \A v : HowOften(shared.values, v, child) = HowOften(shared.given, v, child)
    BY <2>2, SameCount
  <2> QED BY <2>2, <2>3, HalfWayIs DEF PartOf, SameVectors
<1> QED BY <1>11, <1>12, <1>15, <1>17, <1>18 DEF PartsInv

(* The elements of a part, from the first.                                 *)
LEMMA PartIs ==
  ASSUME NEW t \in Int \X Int, shared.values \in Seq(Int), IsPart(t, Len(shared.values)), t[1] <= t[2]
  PROVE  LET part == Sorting!Part(t[1], t[2])
         IN  /\ part \in Seq(Int) /\ Len(part) = t[2] - t[1] + 1
             /\ \A i \in 1..Len(part) : part[i] = shared.values[i + t[1]]
             /\ \A v : Count(part, Len(part), v) = HowOften(shared.values, v, t)
             /\ SortedOn(t, shared.values) => Sorting!is_sorted(part)
<1> DEFINE part == Sorting!Part(t[1], t[2])
<1>1. /\ t[1] \in Int /\ t[2] \in Int /\ Len(shared.values) \in Nat
      /\ t[1] >= 0 /\ t[2] <= Len(shared.values) - 1
  BY LenProperties DEF IsPart
<1>2. \A i \in t[1] + 1..t[2] + 1 : shared.values[i] \in Int
  BY <1>1, ElementOfSeq
<1>3. part = SubSeq(shared.values, t[1] + 1, t[2] + 1)
  BY DEF Sorting!Part
<1>4. /\ part \in Seq(Int)
      /\ Len(part) = IF t[1] + 1 <= t[2] + 1 THEN (t[2] + 1) - (t[1] + 1) + 1 ELSE 0
      /\ \A i \in 1..(t[2] + 1) - (t[1] + 1) + 1 : part[i] = shared.values[(t[1] + 1) + i - 1]
  <2>1. t[1] + 1 \in Int /\ t[2] + 1 \in Int
    BY <1>1
  <2> QED BY <1>2, <1>3, <2>1, SubSeqProperties
<1> HIDE DEF part
<1>5. /\ Len(part) = t[2] - t[1] + 1
      /\ \A i \in 1..Len(part) : part[i] = shared.values[i + t[1]]
  <2>1. Len(part) = t[2] - t[1] + 1
    BY <1>1, <1>4
  <2>2. ASSUME NEW i \in 1..Len(part) PROVE part[i] = shared.values[i + t[1]]
    <3>1. i \in 1..(t[2] + 1) - (t[1] + 1) + 1 /\ (t[1] + 1) + i - 1 = i + t[1]
      BY <1>1, <2>1
    <3> QED BY <1>4, <3>1
  <2> QED BY <2>1, <2>2
<1>6. \A v : Count(part, Len(part), v) = HowOften(shared.values, v, t)
  BY <1>5, CountShifted
<1>7. ASSUME SortedOn(t, shared.values) PROVE Sorting!is_sorted(part)
  <2> SUFFICES ASSUME NEW i \in 1..Len(part), NEW j \in 1..Len(part), i < j
               PROVE  part[i] <= part[j]
    <3>1. DOMAIN part = 1..Len(part)
      BY <1>4, LenProperties
    <3> QED BY <3>1 DEF Sorting!is_sorted
  <2>1. \A k \in 1..t[2] - t[1] + 1 : k + t[1] \in Indices(t)
    BY <1>1 DEF Indices
  <2>2. i \in 1..t[2] - t[1] + 1 /\ j \in 1..t[2] - t[1] + 1
    BY <1>5
  <2>3. i + t[1] < j + t[1]
    BY <1>1, <2>2
  <2> QED BY <1>5, <1>7, <2>1, <2>2, <2>3 DEF SortedOn
<1> QED BY <1>4, <1>5, <1>6, <1>7 DEF part

(* What is merged from the sorted halves of a part is sorted, and has the  *)
(* elements of the part.                                                   *)
LEMMA HalvesMerge ==
  ASSUME NEW t \in Int \X Int, shared.values \in Seq(Int), IsPart(t, Len(shared.values)), t[1] < t[2],
         SortedOn(Sorting!LeftHalf(t), shared.values), SortedOn(Sorting!RightHalf(t), shared.values)
  PROVE  MergedFrom(t, Sorting!Merged(Sorting!Part(t[1], Sorting!Mid(t)),
                                      Sorting!Part(Sorting!Mid(t) + 1, t[2])))
<1>1. PICK m \in Int : /\ t[1] <= m /\ m < t[2] /\ Sorting!Mid(t) = m
                       /\ Sorting!LeftHalf(t) = <<t[1], m>> /\ Sorting!RightHalf(t) = <<m + 1, t[2]>>
  BY HalvesAre
<1> DEFINE l == <<t[1], m>>
           r == <<m + 1, t[2]>>
           a == Sorting!Part(t[1], m)
           b == Sorting!Part(m + 1, t[2])
<1>2. t[1] \in Int /\ t[2] \in Int /\ Len(shared.values) \in Nat
  BY LenProperties
<1>3. /\ l \in Int \X Int /\ l[1] = t[1] /\ l[2] = m /\ IsPart(l, Len(shared.values))
      /\ r \in Int \X Int /\ r[1] = m + 1 /\ r[2] = t[2] /\ IsPart(r, Len(shared.values))
  BY <1>1, <1>2 DEF IsPart
<1>4. SortedOn(l, shared.values) /\ SortedOn(r, shared.values)
  BY <1>1
<1> HIDE DEF l, r
<1>5. /\ a \in Seq(Int) /\ Len(a) = m - t[1] + 1 /\ Sorting!is_sorted(a)
      /\ \A v : Count(a, Len(a), v) = HowOften(shared.values, v, l)
  <2>1. l[1] <= l[2]
    BY <1>1, <1>3
  <2> QED BY <1>3, <1>4, <2>1, PartIs
<1>6. /\ b \in Seq(Int) /\ Len(b) = t[2] - (m + 1) + 1 /\ Sorting!is_sorted(b)
      /\ \A v : Count(b, Len(b), v) = HowOften(shared.values, v, r)
  <2>1. r[1] <= r[2]
    BY <1>1, <1>2, <1>3
  <2> QED BY <1>3, <1>4, <2>1, PartIs
<1> HIDE DEF a, b
<1>7. /\ Sorting!Merged(a, b) \in Seq(Int) /\ Len(Sorting!Merged(a, b)) = Len(a) + Len(b)
      /\ Sorting!is_sorted(Sorting!Merged(a, b))
  BY <1>5, <1>6, MergedIsSeq, MergedIsSorted
<1>8. Len(a) + Len(b) = t[2] - t[1] + 1
  BY <1>1, <1>2, <1>5, <1>6
<1>9. ASSUME NEW v
      PROVE  Count(Sorting!Merged(a, b), Len(a) + Len(b), v) = HowOften(shared.values, v, t)
  <2> DEFINE L == {i \in Indices(l) : shared.values[i] = v}
             R == {i \in Indices(r) : shared.values[i] = v}
             W == {i \in Indices(t) : shared.values[i] = v}
  <2>1. Count(Sorting!Merged(a, b), Len(a) + Len(b), v) = Count(a, Len(a), v) + Count(b, Len(b), v)
    BY <1>5, <1>6, MergedCounts
  <2>2. /\ L \in SUBSET (t[1] + 1..t[2] + 1) /\ R \in SUBSET (t[1] + 1..t[2] + 1)
        /\ L \cap R = {} /\ W = L \cup R
    BY <1>1, <1>2, <1>3 DEF Indices
  <2> HIDE DEF L, R, W
  <2>3. Cardinality(W) = Cardinality(L) + Cardinality(R)
    <3>1. IsFiniteSet(t[1] + 1..t[2] + 1)
      BY <1>2, FS_Interval
    <3>2. IsFiniteSet(L) /\ IsFiniteSet(R)
      BY <2>2, <3>1, FS_Subset
    <3>3. Cardinality(L \cup R) = Cardinality(L) + Cardinality(R)
      BY <2>2, <3>2, CountsAdd
    <3> QED BY <2>2, <3>3
  <2>4. /\ HowOften(shared.values, v, t) = Cardinality(W)
        /\ HowOften(shared.values, v, l) = Cardinality(L)
        /\ HowOften(shared.values, v, r) = Cardinality(R)
    BY DEF HowOften, L, R, W
  <2> QED BY <1>5, <1>6, <2>1, <2>3, <2>4
<1> QED BY <1>1, <1>7, <1>8, <1>9 DEF MergedFrom, a, b

(* Where a part inside another keeps its elements, and the rest of it      *)
(* stays as it is, the wider part keeps its elements.                      *)
LEMMA WiderKeeps ==
  ASSUME NEW f, NEW g, NEW t \in Int \X Int, NEW u \in Int \X Int, Inside(u, t), NEW v,
         \A i \in Indices(t) \ Indices(u) : g[i] = f[i],
         HowOften(g, v, u) = HowOften(f, v, u)
  PROVE  HowOften(g, v, t) = HowOften(f, v, t)
<1> DEFINE In(h) == {i \in Indices(u) : h[i] = v}
           Rest(h) == {i \in Indices(t) \ Indices(u) : h[i] = v}
           lo == t[1] + 1
           hi == t[2] + 1
<1>1. lo \in Int /\ hi \in Int /\ Indices(t) = lo..hi /\ Indices(u) \subseteq lo..hi
  BY DEF Indices, Inside, Sorting!Within
<1> HIDE DEF lo, hi
<1>2. ASSUME NEW h PROVE HowOften(h, v, t) = HowOften(h, v, u) + Cardinality(Rest(h))
  <2>1. /\ In(h) \in SUBSET (lo..hi) /\ Rest(h) \in SUBSET (lo..hi) /\ In(h) \cap Rest(h) = {}
        /\ {i \in Indices(t) : h[i] = v} = In(h) \cup Rest(h)
    BY <1>1
  <2>2. HowOften(h, v, t) = Cardinality(In(h) \cup Rest(h)) /\ HowOften(h, v, u) = Cardinality(In(h))
    BY <2>1 DEF HowOften
  <2> HIDE DEF In, Rest
  <2>3. Cardinality(In(h) \cup Rest(h)) = Cardinality(In(h)) + Cardinality(Rest(h))
    <3>1. IsFiniteSet(lo..hi)
      BY <1>1, FS_Interval
    <3>2. IsFiniteSet(In(h)) /\ IsFiniteSet(Rest(h))
      BY <2>1, <3>1, FS_Subset
    <3> QED BY <2>1, <3>2, CountsAdd
  <2> QED BY <2>2, <2>3
<1>3. Rest(g) = Rest(f)
  OBVIOUS
<1> HIDE DEF Rest
<1>4. /\ HowOften(f, v, t) = HowOften(f, v, u) + Cardinality(Rest(f))
      /\ HowOften(g, v, t) = HowOften(g, v, u) + Cardinality(Rest(g))
  BY <1>2
<1> QED BY <1>3, <1>4

(* A task copies what it has merged back to the vector.  No other task     *)
(* that is not done works on the same part.                                *)
LEMMA TaskCopies ==
  ASSUME PartsInv, SortTasks, NEW t \in DOMAIN shared.task, main' = main,
         DOMAIN shared'.task = DOMAIN shared.task, shared'.given = shared.given, OthersStay(t),
         Stage(t) = "merged", Stage(t)' = "done",
         shared'.values = [i \in DOMAIN shared.values |->
                            IF i - 1 \in t[1]..t[2] THEN shared.task[t].temp[i - t[1]]
                            ELSE shared.values[i]]
  PROVE  PartsInv'
<1> DEFINE T == DOMAIN shared.task
           old == shared.values
           new == shared'.values
           n == Len(old)
           temp == shared.task[t].temp
<1>1. /\ T \subseteq Int \X Int /\ t[1] \in Int /\ t[2] \in Int
      /\ \A u \in T : u[1] \in Int /\ u[2] \in Int
      /\ \A u \in T : u = t \/ Inside(u, t) \/ Inside(t, u) \/ Apart(u, t)
      /\ \A u, w \in T : Inside(u, w) => u[1] <= u[2] /\ InsideAtStage(u, w)
  <2>1. T \subseteq Int \X Int
    BY DEF PartsInv, Nested
  <2>2. \A u \in T : u = t \/ Inside(u, t) \/ Inside(t, u) \/ Apart(u, t)
    BY DEF PartsInv, Nested
  <2>3. \A u, w \in T : Inside(u, w) => u[1] <= u[2] /\ InsideAtStage(u, w)
    BY DEF PartsInv, DoneInside
  <2> QED BY <2>1, <2>2, <2>3
<1>2. MergedFrom(t, temp)
  BY DEF PartsInv, PartOf
<1>3. old \in Seq(Int) /\ shared.given \in Seq(Int) /\ n \in Nat /\ DOMAIN old = 1..n
  BY LenProperties DEF PartsInv, SortVectors
<1>4. \A u \in T : Indices(u) \subseteq 1..n
  <2> SUFFICES ASSUME NEW u \in T PROVE Indices(u) \subseteq 1..n
    OBVIOUS
  <2>1. IsPart(u, n)
    BY DEF SortTasks
  <2> QED BY <1>3, <2>1 DEF IsPart, Indices
<1>5. /\ \A i \in Indices(t) : new[i] = temp[i - t[1]]
      /\ \A i \in 1..n \ Indices(t) : new[i] = old[i]
      /\ DOMAIN new = 1..n
  <2>1. \A i \in 1..n : i \in Indices(t) <=> i - 1 \in t[1]..t[2]
    BY <1>1 DEF Indices
  <2>2. \A i \in 1..n : new[i] = IF i \in Indices(t) THEN temp[i - t[1]] ELSE old[i]
    BY <1>3, <2>1
  <2>3. DOMAIN new = 1..n
    BY <1>3
  <2> QED BY <1>4, <2>2, <2>3
<1>6. /\ temp \in Seq(Int) /\ Len(temp) = t[2] - t[1] + 1
      /\ \A i \in Indices(t) : i - t[1] \in 1..Len(temp) /\ temp[i - t[1]] \in Int
  <2>1. temp \in Seq(Int) /\ Len(temp) = t[2] - t[1] + 1
    BY <1>2 DEF MergedFrom
  <2>2. \A i \in Indices(t) : i - t[1] \in 1..Len(temp)
    BY <1>1, <2>1 DEF Indices
  <2> HIDE DEF temp
  <2> QED BY <2>1, <2>2, ElementOfSeq
<1> HIDE DEF n
<1>7. new \in Seq(Int)
  <2>1. \A i \in 1..n : new[i] \in Int
    <3> SUFFICES ASSUME NEW i \in 1..n PROVE new[i] \in Int
      OBVIOUS
    <3>1. old[i] \in Int
      BY <1>3, ElementOfSeq DEF n
    <3> QED BY <1>5, <1>6, <3>1
  <2>2. new = [i \in 1..n |-> new[i]]
    BY <1>3
  <2> HIDE DEF new
  <2>3. new \in [1..n -> Int]
    BY <2>1, <2>2
  <2> QED BY <1>3, <2>3
<1>8. SortedOn(t, new)
  <2> SUFFICES ASSUME NEW i \in Indices(t), NEW j \in Indices(t), i < j
               PROVE  new[i] <= new[j]
    BY DEF SortedOn
  <2>1. DOMAIN temp = 1..Len(temp) /\ Sorting!is_sorted(temp)
    BY <1>2, <1>6, LenProperties DEF MergedFrom
  <2>2. i - t[1] < j - t[1]
    BY <1>1 DEF Indices
  <2>3. temp[i - t[1]] <= temp[j - t[1]]
    BY <1>6, <2>1, <2>2 DEF Sorting!is_sorted
  <2> QED BY <1>5, <2>3
<1>9. \A v : HowOften(new, v, t) = HowOften(old, v, t)
  <2> SUFFICES ASSUME NEW v PROVE HowOften(new, v, t) = HowOften(old, v, t)
    OBVIOUS
  <2>1. \A i \in 1..t[2] - t[1] + 1 : i + t[1] \in Indices(t) /\ (i + t[1]) - t[1] = i
    BY <1>1 DEF Indices
  <2>2. \A i \in 1..t[2] - t[1] + 1 : temp[i] = new[i + t[1]]
    BY <1>5, <2>1
  <2> HIDE DEF temp, new
  <2>3. Count(temp, t[2] - t[1] + 1, v) = HowOften(new, v, t)
    BY <1>1, <2>2, CountShifted
  <2>4. Count(temp, Len(temp), v) = HowOften(old, v, t)
    BY <1>2 DEF MergedFrom
  <2> QED BY <1>6, <2>3, <2>4
<1> HIDE DEF new
<1>10. /\ \A u \in T \ {t} : Stage(u)' = Stage(u) /\ shared'.task[u] = shared.task[u]
       /\ \A u \in T : Stage(u) = "done" => Stage(u)' = "done"
  BY DEF OthersStay, Stage
<1>11. ASSUME NEW u \in T, Apart(u, t)
       PROVE  SameOn(u, new, old)
  <2>1. Indices(u) \cap Indices(t) = {}
    BY <1>1, <1>11 DEF Apart, Indices
  <2> QED BY <1>4, <1>5, <2>1 DEF SameOn
<1>12. ASSUME NEW u \in T, Inside(u, t)
       PROVE  Stage(u) = "done"
  BY <1>1, <1>12, HalfWayIs DEF InsideAtStage
<1>13. ASSUME NEW u \in T, Inside(t, u)
       PROVE  /\ Stage(u) \in {HalfWay, "waiting"}
              /\ Stage(u) = HalfWay => SameOn(Sorting!RightHalf(u), new, old)
  <2>1. InsideAtStage(t, u) /\ t[1] <= t[2]
    BY <1>1, <1>13
  <2>2. Stage(u) \in {HalfWay, "waiting"}
    BY <2>1, HalfWayIs DEF InsideAtStage
  <2>3. ASSUME Stage(u) = HalfWay PROVE SameOn(Sorting!RightHalf(u), new, old)
    <3>1. Sorting!Within(t, Sorting!LeftHalf(u))
      BY <2>1, <2>3, HalfWayIs DEF InsideAtStage
    <3>2. u[1] < u[2]
      BY <1>1, <1>13, <2>1 DEF Inside, Sorting!Within
    <3>3. PICK k \in Int : /\ u[1] <= k /\ Sorting!LeftHalf(u) = <<u[1], k>>
                           /\ Sorting!RightHalf(u) = <<k + 1, u[2]>>
      BY <1>1, <3>2, HalvesAre
    <3>4. /\ Indices(Sorting!RightHalf(u)) \subseteq Indices(u)
          /\ Indices(Sorting!RightHalf(u)) \cap Indices(t) = {}
      BY <1>1, <3>1, <3>3 DEF Indices, Sorting!Within
    <3> QED BY <1>4, <1>5, <3>4 DEF SameOn
  <2> QED BY <2>2, <2>3
<1>14. SortVectors' /\ Nested'
  BY <1>3, <1>7 DEF PartsInv, SortVectors, Nested, Inside, Apart, new
<1>15. ASSUME NEW u \in T, NEW w \in T, Inside(u, w)
       PROVE  u[1] <= u[2] /\ InsideAtStage(u, w)'
  <2>1. u[1] <= u[2] /\ InsideAtStage(u, w)
    BY <1>1, <1>15
  <2>2. CASE w # t
    BY <1>10, <2>1, <2>2 DEF InsideAtStage
  <2>3. CASE w = t
    BY <1>10, <1>12, <1>15, <2>1, <2>3 DEF InsideAtStage
  <2> QED BY <2>2, <2>3
<1>16. DoneInside'
  BY <1>15 DEF DoneInside, Inside
<1>17. ASSUME NEW u \in T PROVE Outermost(u)' => Outermost(u) /\ ~Inside(u, t)
  BY <1>10 DEF Outermost, Inside
<1>18. \A u \in T : PartOf(u)
  BY DEF PartsInv
<1>19. ASSUME NEW u \in T PROVE PartOf(u)'
  <2>1. Outermost(u)' => \A v : HowOften(new, v, u) = HowOften(shared.given, v, u)
    <3> SUFFICES ASSUME Outermost(u)', NEW v
                 PROVE  HowOften(new, v, u) = HowOften(shared.given, v, u)
      OBVIOUS
    <3>1. HowOften(old, v, u) = HowOften(shared.given, v, u)
      BY <1>17, <1>18 DEF PartOf
    <3>2. HowOften(new, v, u) = HowOften(old, v, u)
      <4>1. CASE u = t
        BY <1>9, <4>1
      <4>2. CASE Inside(t, u)
        <5>1. \A i \in Indices(u) \ Indices(t) : new[i] = old[i]
          BY <1>4, <1>5
        <5> QED BY <1>1, <1>9, <4>2, <5>1, WiderKeeps
      <4>3. CASE Apart(u, t)
        BY <1>11, <4>3, SameCount
      <4> QED BY <1>1, <1>17, <4>1, <4>2, <4>3
    <3> QED BY <3>1, <3>2
  <2>2. CASE u = t
    BY <1>8, <2>1, <2>2, HalfWayIs DEF PartOf, new
  <2>3. CASE u # t
    <3>1. Stage(u)' = Stage(u) /\ shared'.task[u] = shared.task[u]
      BY <1>10, <2>3
    <3>2. CASE Inside(u, t)
      <4>1. SortedOn(u, new)
        BY <1>1, <1>8, <3>2 DEF SortedOn, Indices, Inside, Sorting!Within
      <4> QED BY <1>12, <2>1, <3>1, <3>2, <4>1, HalfWayIs DEF PartOf, new
    <3>3. CASE Inside(t, u)
      <4>1. Stage(u) = HalfWay => SameOn(Sorting!RightHalf(u), new, shared.given)
        <5>1. ASSUME Stage(u) = HalfWay PROVE SameOn(Sorting!RightHalf(u), old, shared.given)
          BY <1>18, <5>1 DEF PartOf
        <5> QED BY <1>13, <3>3, <5>1 DEF SameOn
      <4> QED BY <1>13, <2>1, <3>1, <3>3, <4>1, HalfWayIs DEF PartOf, new
    <3>4. CASE Apart(u, t)
      <4>1. SameOn(u, new, old)
        BY <1>11, <3>4
      <4>2. Stage(u) = "created" => SameOn(u, new, shared.given)
        BY <1>18, <4>1 DEF PartOf, SameOn
      <4>3. Stage(u) = HalfWay => SameOn(Sorting!RightHalf(u), new, shared.given)
        <5> SUFFICES ASSUME Stage(u) = HalfWay
                     PROVE  SameOn(Sorting!RightHalf(u), new, shared.given)
          OBVIOUS
        <5>1. SameOn(Sorting!RightHalf(u), old, shared.given)
          BY <1>18 DEF PartOf
        <5>2. u[1] < u[2]
          BY HalfWayIs DEF SortTasks, Divides, Stage
        <5>3. Indices(Sorting!RightHalf(u)) \subseteq Indices(u)
          <6>1. PICK k \in Int : u[1] <= k /\ Sorting!RightHalf(u) = <<k + 1, u[2]>>
            BY <1>1, <5>2, HalvesAre
          <6> QED BY <1>1, <6>1 DEF Indices
        <5> QED BY <4>1, <5>1, <5>3 DEF SameOn
      <4>4. Stage(u) = "merged" => MergedFrom(u, shared.task[u].temp)'
        <5>1. Stage(u) = "merged" => MergedFrom(u, shared.task[u].temp)
          BY <1>18 DEF PartOf
        <5>2. \A v : HowOften(new, v, u) = HowOften(old, v, u)
          BY <4>1, SameCount
        <5> QED BY <3>1, <5>1, <5>2 DEF MergedFrom, new
      <4>5. Stage(u) = "done" => SortedOn(u, new)
        BY <1>18, <4>1 DEF PartOf, SortedOn, SameOn
      <4> QED BY <2>1, <3>1, <4>2, <4>3, <4>4, <4>5 DEF PartOf, new
    <3> QED BY <1>1, <2>3, <3>2, <3>3, <3>4
  <2> QED BY <2>2, <2>3
<1> QED BY <1>14, <1>16, <1>19 DEF PartsInv

(* What a task becomes, and what it creates.                               *)
LEMMA TaskBecame ==
  ASSUME DOMAIN shared = SortFields, NEW t \in DOMAIN shared.task, NEW stage, NEW temp, NEW values,
         shared' = [shared EXCEPT !.values = values, !.task = Sorting!Becomes(t, stage, temp)]
  PROVE  /\ shared'.values = values /\ shared'.given = shared.given
         /\ DOMAIN shared'.task = DOMAIN shared.task /\ OthersStay(t)
         /\ Stage(t)' = stage /\ shared'.task[t].temp = temp
<1> DEFINE task == Sorting!Becomes(t, stage, temp)
<1>1. /\ DOMAIN task = DOMAIN shared.task /\ task[t] = [stage |-> stage, temp |-> temp]
      /\ \A u \in DOMAIN shared.task \ {t} : task[u] = shared.task[u]
  BY DEF Sorting!Becomes
<1>2. task[t].stage = stage /\ task[t].temp = temp
  BY <1>1
<1> HIDE DEF task
<1>3. shared'.values = values /\ shared'.given = shared.given /\ shared'.task = task
  BY DEF SortFields, task
<1> QED BY <1>1, <1>2, <1>3 DEF OthersStay, Stage

LEMMA TaskCreated ==
  ASSUME DOMAIN shared = SortFields, NEW t \in DOMAIN shared.task, NEW stage, NEW child,
         Sorting!Creates(t, stage, child)
  PROVE  /\ SameVectors /\ DOMAIN shared'.task = {child} \cup DOMAIN shared.task
         /\ \A u \in DOMAIN shared.task \ {child, t} : shared'.task[u] = shared.task[u]
         /\ child # t => Stage(t)' = stage
         /\ Stage(child)' = "created"
<1> DEFINE old == Sorting!Becomes(t, stage, <<>>)
           task == [u \in {child} \cup DOMAIN shared.task |->
                     IF u = child THEN Sorting!Created ELSE old[u]]
<1>1. shared' = [shared EXCEPT !["task"] = task]
  BY DEF Sorting!Creates, Sorting!Field
<1>2. old[t].stage = stage /\ \A u \in DOMAIN shared.task \ {t} : old[u] = shared.task[u]
  BY DEF Sorting!Becomes
<1>3. Sorting!Created.stage = "created"
  BY DEF Sorting!Created
<1> HIDE DEF old
<1>4. /\ DOMAIN task = {child} \cup DOMAIN shared.task /\ task[child] = Sorting!Created
      /\ \A u \in DOMAIN shared.task \ {child} : task[u] = old[u]
  OBVIOUS
<1> HIDE DEF task
<1>5. shared'.values = shared.values /\ shared'.given = shared.given /\ shared'.task = task
  BY <1>1 DEF SortFields
<1> QED BY <1>2, <1>3, <1>4, <1>5 DEF SameVectors, Stage

LEMMA PartsKeep ==
  ASSUME SortingInv, PartsInv, Sorting!Step(Sorting!MainStep)
  PROVE  PartsInv'
<1>1. SortMain /\ SortTasks /\ Sorting!MainStep
  BY DEF SortingInv, Sorting!Step
<1>2. DOMAIN shared = SortFields
  BY <1>1 DEF SortMain
<1>3. CASE Sorting!MainGoes("start", "sort")
           /\ Sorting!Field("task", [t \in {<<0, Len(shared.values) - 1>>} |-> Sorting!Created])
  <2>1. PICK t \in Int \X Int : t = <<0, Len(shared.values) - 1>>
    <3>1. Len(shared.values) \in Nat
      BY <1>1 DEF SortMain
    <3>2. <<0, Len(shared.values) - 1>> \in Int \X Int
      BY <3>1
    <3> QED BY ONLY <3>2, Zenon
  <2> DEFINE task == [u \in {t} |-> Sorting!Created]
  <2>2. main.at = "start" /\ main'.at = "sort"
    BY <1>1, <1>3 DEF Sorting!MainGoes, SortMain
  <2>3. shared' = [shared EXCEPT !["task"] = task]
    BY <1>3, <2>1 DEF Sorting!Field
  <2>4. DOMAIN task = {t} /\ task[t].stage = "created"
    BY DEF Sorting!Created
  <2> HIDE DEF task
  <2>5. SameVectors /\ shared'.task = task
    BY <1>2, <2>3 DEF SortFields, SameVectors
  <2>6. SortVectors' /\ shared.values = shared.given
    BY <2>2, <2>5 DEF PartsInv, SortVectors, SameVectors
  <2>7. Nested' /\ DoneInside'
    BY <2>4, <2>5 DEF Nested, DoneInside, Inside
  <2>8. PartOf(t)'
    BY <2>4, <2>5, <2>6, HalfWayIs DEF PartOf, SameVectors, SameOn, Stage
  <2> QED BY <2>4, <2>5, <2>6, <2>7, <2>8 DEF PartsInv
<1>4. CASE Sorting!Passes("sort", "ended")
  <2>1. main'.at # "start" /\ shared' = shared
    BY <1>1, <1>4 DEF Sorting!Passes, Sorting!MainGoes, SortMain
  <2> QED BY <2>1 DEF PartsInv, SortVectors, Nested, DoneInside, InsideAtStage, Stage, PartOf,
                      Outermost, MergedFrom
<1>5. ASSUME NEW t \in DOMAIN shared.task, Sorting!TaskStep(t)
      PROVE  PartsInv'
  <2>1. main' = main /\ (Sorting!NothingToSort(t) \/ Sorting!CreateHalves(t)
                         \/ Sorting!MergeHalves(t) \/ Sorting!CopyBack(t))
    BY <1>5 DEF Sorting!TaskStep
  <2>2. /\ t \in Int \X Int /\ t[1] \in Int /\ t[2] \in Int
        /\ IsPart(t, Len(shared.values)) /\ Divides(t, Stage(t))
    BY <1>1 DEF PartsInv, Nested, SortTasks, Stage
  <2>3. ASSUME NEW stage, NEW temp, Sorting!Field("task", Sorting!Becomes(t, stage, temp))
        PROVE  /\ SameVectors /\ DOMAIN shared'.task = DOMAIN shared.task /\ OthersStay(t)
               /\ Stage(t)' = stage /\ shared'.task[t].temp = temp
    <3>1. shared' = [shared EXCEPT !["task"] = Sorting!Becomes(t, stage, temp)]
      BY <2>3 DEF Sorting!Field
    <3>2. shared' = [shared EXCEPT !.values = shared.values,
                                   !.task = Sorting!Becomes(t, stage, temp)]
      BY <1>2, <3>1 DEF SortFields
    <3> QED BY <1>2, <3>2, TaskBecame DEF SameVectors
  <2>4. CASE Sorting!NothingToSort(t)
    <3>1. /\ Stage(t) = "created" /\ t[2] - t[1] <= 0
          /\ Sorting!Field("task", Sorting!Becomes(t, "done", <<>>))
      BY <2>4 DEF Sorting!NothingToSort, Sorting!At, Stage
    <3>2. t[2] <= t[1]
      BY <2>2, <3>1
    <3> QED BY <2>1, <2>3, <3>1, <3>2, TaskGoesOn
  <2>5. CASE Sorting!CreateHalves(t)
    <3>1. \/ /\ Stage(t) = "created" /\ t[2] - t[1] > 0
             /\ Sorting!Creates(t, HalfWay, Sorting!LeftHalf(t))
          \/ Stage(t) = HalfWay /\ Sorting!Creates(t, "waiting", Sorting!RightHalf(t))
      BY ONLY <2>5, Zenon DEF Sorting!CreateHalves, Sorting!At, Stage, HalfWay
    <3>2. t[1] < t[2]
      BY <2>2, <3>1, HalfWayIs DEF Divides
    <3>3. Sorting!LeftHalf(t) # Sorting!RightHalf(t)
      <4>1. PICK m \in Int : /\ t[1] <= m /\ Sorting!LeftHalf(t) = <<t[1], m>>
                             /\ Sorting!RightHalf(t) = <<m + 1, t[2]>>
        BY <2>2, <3>2, HalvesAre
      <4>2. <<t[1], m>>[1] # <<m + 1, t[2]>>[1]
        BY <2>2, <4>1
      <4> QED BY <4>1, <4>2
    <3>4. CASE Stage(t) = "created" /\ Sorting!Creates(t, HalfWay, Sorting!LeftHalf(t))
      BY <1>2, <2>1, <3>2, <3>4, TaskCreated, TaskDivides
    <3>5. CASE Stage(t) = HalfWay /\ Sorting!Creates(t, "waiting", Sorting!RightHalf(t))
      BY <1>2, <2>1, <3>2, <3>3, <3>5, TaskCreated, TaskDivides
    <3> QED BY <3>1, <3>4, <3>5
  <2>6. CASE Sorting!MergeHalves(t)
    <3> DEFINE temp == Sorting!Merged(Sorting!Part(t[1], Sorting!Mid(t)),
                                      Sorting!Part(Sorting!Mid(t) + 1, t[2]))
    <3>1. /\ Stage(t) = "waiting"
          /\ \A u \in {Sorting!LeftHalf(t), Sorting!RightHalf(t)} :
               u \in DOMAIN shared.task /\ Stage(u) = "done"
          /\ Sorting!Field("task", Sorting!Becomes(t, "merged", temp))
      BY <2>6 DEF Sorting!MergeHalves, Sorting!At, Stage
    <3>2. t[1] < t[2]
      BY <2>2, <3>1, HalfWayIs DEF Divides
    <3>3. \A u \in {Sorting!LeftHalf(t), Sorting!RightHalf(t)} : SortedOn(u, shared.values)
      BY <3>1 DEF PartsInv, PartOf
    <3>4. MergedFrom(t, temp)
      <4>1. shared.values \in Seq(Int)
        BY DEF PartsInv, SortVectors
      <4> QED BY <2>2, <3>2, <3>3, <4>1, HalvesMerge
    <3> HIDE DEF temp
    <3> QED BY <2>1, <2>3, <3>1, <3>4, TaskGoesOn
  <2>7. CASE Sorting!CopyBack(t)
    <3> DEFINE values == [i \in DOMAIN shared.values |->
                           IF i - 1 \in t[1]..t[2] THEN shared.task[t].temp[i - t[1]]
                           ELSE shared.values[i]]
    <3>1. /\ Stage(t) = "merged"
          /\ shared' = [shared EXCEPT !.values = values, !.task = Sorting!Becomes(t, "done", <<>>)]
      BY <2>7 DEF Sorting!CopyBack, Sorting!At, Stage
    <3>2. /\ shared'.values = values /\ shared'.given = shared.given
          /\ DOMAIN shared'.task = DOMAIN shared.task /\ OthersStay(t) /\ Stage(t)' = "done"
      <4> HIDE DEF values
      <4> QED BY <1>2, <3>1, TaskBecame
    <3> QED BY <1>1, <2>1, <3>1, <3>2, TaskCopies
  <2> QED BY <2>1, <2>4, <2>5, <2>6, <2>7
<1> QED BY <1>1, <1>3, <1>4, <1>5 DEF Sorting!MainStep, Sorting!Team

LEMMA SortedInitially ==
  Sorting!Init => SortedInv
<1> SUFFICES ASSUME Sorting!Init PROVE PartsInv
  BY SortingInitially DEF SortedInv
<1>1. PICK vector \in Vectors :
        Sorting!Starts([given |-> vector, values |-> vector, task |-> <<>>])
  BY DEF Sorting!Init
<1>2. shared = [given |-> vector, values |-> vector, task |-> <<>>]
  BY <1>1 DEF Sorting!Starts
<1>3. vector \in Seq(Int) /\ DOMAIN shared.task = {}
  BY <1>2, VectorsAssumption
<1>4. SortVectors
  BY <1>2, <1>3 DEF SortVectors
<1> QED BY <1>3, <1>4 DEF PartsInv, Nested, DoneInside

LEMMA SortedKeeps ==
  ASSUME SortedInv, Sorting!Step(Sorting!MainStep)
  PROVE  SortedInv'
BY SortingKeeps, PartsKeep DEF SortedInv

(* What is promised of the parts that are done.                            *)
LEMMA PartsPromise ==
  ASSUME SortedInv
  PROVE  Sorting!PartsSorted
<1> DEFINE T == DOMAIN shared.task
<1>1. /\ T \subseteq Int \X Int
      /\ \A t, u \in T : Inside(u, t) => InsideAtStage(u, t)
      /\ \A t \in T : PartOf(t)
      /\ shared.values \in Seq(Int)
  BY DEF SortedInv, PartsInv, Nested, DoneInside, SortVectors
<1>2. \A t \in T : IsPart(t, Len(shared.values))
  BY DEF SortedInv, SortingInv, SortTasks
<1>3. ASSUME NEW t \in Sorting!At("done") PROVE Sorting!is_sorted(Sorting!Part(t[1], t[2]))
  <2>1. t \in T /\ t \in Int \X Int /\ t[1] \in Int /\ t[2] \in Int /\ SortedOn(t, shared.values)
    BY <1>1, HalfWayIs DEF Sorting!At, PartOf, Stage
  <2>2. CASE t[1] <= t[2]
    BY <1>1, <1>2, <2>1, <2>2, PartIs
  <2>3. CASE t[2] < t[1]
    <3>1. Sorting!Part(t[1], t[2]) = <<>>
      <4>1. t[1] + 1 \in Int /\ t[2] + 1 \in Int /\ t[2] + 1 < t[1] + 1
        BY <2>1, <2>3
      <4> QED BY <4>1, SubSeqEmpty DEF Sorting!Part
    <3> QED BY <3>1 DEF Sorting!is_sorted
  <2> QED BY <2>1, <2>2, <2>3
<1>4. ASSUME NEW t \in Sorting!Widest, NEW v
      PROVE  Sorting!HowMany(shared.values, v, t) = Sorting!HowMany(shared.given, v, t)
  <2>1. /\ t \in T
        /\ \A u \in T : Stage(u) = "done" => u = t \/ ~Sorting!Within(t, u)
    BY DEF Sorting!Widest, Sorting!At, Stage
  <2>2. Outermost(t)
    BY <2>1 DEF Outermost, Inside
  <2>3. HowOften(shared.values, v, t) = HowOften(shared.given, v, t)
    BY <1>1, <2>1, <2>2 DEF PartOf
  <2> QED BY <2>3 DEF HowOften, Indices, Sorting!HowMany, Cardinality, Sorting!Cardinality
<1>5. ASSUME NEW t \in Sorting!At("merged"), NEW u \in T \ {t}, Sorting!Within(u, t)
      PROVE  u \in Sorting!At("done")
  <2>1. t \in T /\ Stage(t) = "merged"
    BY DEF Sorting!At, Stage
  <2>2. Inside(u, t)
    BY <1>1, <1>5, <2>1, WithinIs
  <2>3. Stage(u) = "done"
    BY <1>1, <2>1, <2>2, HalfWayIs DEF InsideAtStage
  <2> QED BY <2>3 DEF Sorting!At, Stage
<1> QED BY <1>3, <1>4, <1>5 DEF Sorting!PartsSorted

-----------------------------------------------------------------------------
(* All programs: the one that runs keeps its invariant.                    *)
ProgramsInv ==
  \/ TeamsWholeInv \/ WaterInv \/ DanceInv \/ BuildingInv \/ BoundInv
  \/ JobsInv \/ WebInv \/ SortedInv

LEMMA TeamsStutter ==
  ASSUME TeamsWholeInv, UNCHANGED programVars
  PROVE  TeamsWholeInv'
<1>u. /\ program' = program /\ main' = main /\ at' = at /\ shared' = shared
      /\ output' = output
  BY DEF programVars
<1>1. Lives(TeamSize, TeamPoints, TRUE)'
  BY <1>u DEF TeamsWholeInv, TeamsHeardInv, TeamsInv, Lives, AtRest, Phases
<1>2. Heard'
  BY <1>u DEF TeamsWholeInv, TeamsHeardInv, TeamsInv, Heard
<1>3. Started' = Started /\ BusywaitTurns' = BusywaitTurns
  BY <1>u DEF Started, BusywaitTurns
<1>4. \A t : SemaphorTurn(t)' = SemaphorTurn(t)
  BY <1>u DEF SemaphorTurn
<1>5. SemaphorTurns => SemaphorTurns'
  BY <1>u, <1>4 DEF SemaphorTurns
<1>6. CondSafeTurns => CondSafeTurns'
  BY <1>u DEF CondSafeTurns
<1>7. RaceTurns => RaceTurns'
  BY <1>u DEF RaceTurns
<1>8. Turns'
  BY <1>u, <1>3, <1>5, <1>6, <1>7 DEF TeamsWholeInv, TeamsHeardInv, TeamsInv, Turns
<1>9. Everyone' /\ HeardOnce'
  BY <1>u DEF TeamsWholeInv, TeamsHeardInv, Everyone, HeardOnce, Once, HasSpoken
<1>10. HasPinata' => HasPinata
  BY <1>u DEF HasPinata
<1>11. HitsInv'
  BY <1>u, <1>10, HitsStay DEF TeamsWholeInv, PinataTypes
<1> QED BY <1>u, <1>1, <1>2, <1>8, <1>9, <1>11 DEF TeamsWholeInv, TeamsHeardInv, TeamsInv

LEMMA WaterStutter ==
  ASSUME WaterInv, UNCHANGED programVars
  PROVE  WaterInv'
<1>u. /\ program' = program /\ main' = main /\ at' = at /\ shared' = shared
      /\ output' = output
  BY DEF programVars
<1>1. Lives(Atoms, WaterPoints, TRUE)'
  BY <1>u DEF WaterInv, Lives, AtRest, Phases
<1>2. \A kind, places : AtomsAt(kind, places)' = AtomsAt(kind, places)
  BY <1>u DEF AtomsAt
<1>3. \A m : Molecules(m) => Molecules(m)'
  BY <1>u, <1>2 DEF Molecules, HydrogensCounted, OxygensCounted, HydrogensBonded,
     OxygensBonded
<1> QED BY <1>u, <1>1, <1>2, <1>3 DEF WaterInv, WaterTypes

LEMMA DanceStutter ==
  ASSUME DanceInv, UNCHANGED programVars
  PROVE  DanceInv'
<1>u. /\ program' = program /\ main' = main /\ at' = at /\ shared' = shared
      /\ output' = output
  BY DEF programVars
<1>1. Lives(Dancers, DancePoints, TRUE)'
  BY <1>u DEF DanceInv, Lives, AtRest, Phases
<1>2. OnTheFloor' = OnTheFloor /\ MenEntered' = MenEntered /\ WomenEntered' = WomenEntered
  BY <1>u DEF OnTheFloor, MenEntered, WomenEntered, EnteredAs
<1>3. \A d : Couples(d) => Couples(d)'
  BY <1>u, <1>2 DEF Couples
<1> QED BY <1>u, <1>1, <1>2, <1>3 DEF DanceInv, DanceTypes

LEMMA BuildingStutter ==
  BuildingInv /\ UNCHANGED programVars => BuildingInv'
BY DEF programVars, BuildingInv, Units, Posted, Taken, BuildingTypes, Lives, AtRest,
       Phases

LEMMA BoundStutter ==
  BoundInv /\ UNCHANGED programVars => BoundInv'
BY DEF programVars, BoundInv, BoundPlaces, Consuming, SeenAt, Lives, AtRest, Phases,
       BoundTypes

LEMMA JobsStutter ==
  ASSUME JobsInv, UNCHANGED programVars
  PROVE  JobsInv'
<1>u. /\ program' = program /\ main' = main /\ at' = at /\ shared' = shared
      /\ output' = output
  BY DEF programVars
<1>1. HeldAt(main.at)' = HeldAt(main.at)
  BY <1>u, Zenon DEF HeldAt, Jobs!Serial
<1>2. Reading' = Reading /\ Jobs!Serial' = Jobs!Serial
  BY <1>u DEF Reading, Jobs!Serial
<1>3. JobStates'
  BY <1>u, <1>2 DEF JobsInv, JobStates
<1>4. \A l : Jobs!Written(l)' = Jobs!Written(l)
  BY <1>u DEF Jobs!Written
<1>5. Jobs!ReportIsWhole'
  BY <1>u, <1>2, <1>4 DEF JobsInv, JobOutput, Jobs!ReportIsWhole
<1>6. JobOutput'
  BY <1>u, <1>2, <1>5 DEF JobsInv, JobOutput
<1> QED BY <1>u, <1>1, <1>2, <1>3, <1>4, <1>5, <1>6 DEF JobsInv, JobTypes, JobLines

LEMMA WebStutter ==
  ASSUME WebInv, UNCHANGED programVars
  PROVE  WebInv'
<1>u. /\ program' = program /\ main' = main /\ at' = at /\ shared' = shared
      /\ output' = output
  BY DEF programVars
<1>1. WebMain' /\ WebTypes'
  BY <1>u DEF WebInv, WebMain, WebTypes
<1>2. WebOwners' /\ WebStops'
  BY <1>u DEF WebInv, WebOwners, WebStops
<1>3. Web!ResponsesInOrder'
  BY <1>u DEF WebInv, WebAnswers, Web!ResponsesInOrder, Web!Answered, Web!Segments
<1>4. WebAnswers'
  BY <1>u, <1>3, Zenon DEF WebInv, WebAnswers
<1> QED BY <1>u, <1>1, <1>2, <1>3, <1>4 DEF WebInv

LEMMA SortingStutter ==
  SortedInv /\ UNCHANGED programVars => SortedInv'
BY DEF programVars, SortedInv, SortingInv, SortMain, SortTasks, PartsInv, SortVectors, Nested,
       DoneInside, InsideAtStage, Stage, PartOf, Outermost, MergedFrom

LEMMA ProgramsInitially ==
  ProgramsInit => ProgramsInv
BY TeamsWholeInitially, WaterInitially, DanceInitially, BuildingInitially, BoundInitially,
   JobsInitially, WebInitially, SortedInitially DEF ProgramsInit, ProgramsInv

LEMMA ProgramsStutter ==
  ProgramsInv /\ UNCHANGED programVars => ProgramsInv'
BY TeamsStutter, WaterStutter, DanceStutter, BuildingStutter, BoundStutter,
   JobsStutter, WebStutter, SortingStutter DEF ProgramsInv

(* No program is another one: only the one that runs takes steps.          *)
LEMMA ProgramNames ==
  /\ Teams!Programs = {"hello_order_busywait", "hello_order_semaphor", "sem_vs_condsafe",
                       "hello_order_cond_safe", "hello_iw_pri", "hello_iw_shr", "hello_w",
                       "create_thread_team", "position_race", "birthday_pinata"}
  /\ Water!Programs = {"build_h2o"} /\ Dance!Programs = {"dancing_pairs_6"}
  /\ Building!Programs = {"building_tasks"} /\ Bound!Programs = {"pro_cons_bound"}
  /\ Jobs!Programs = {"heatsim_serial", "heatsim_omp", "heatsim_pthread"}
  /\ Web!Programs = {"webserver"} /\ Sorting!Programs = {"omp_mergesort"}
BY DEF Teams!Programs, Teams!Ordered, Teams!Greeting, Water!Programs, Dance!Programs,
       Building!Programs, Bound!Programs, Jobs!Programs, Web!Programs, Sorting!Programs

LEMMA ProgramsKeep ==
  ASSUME ProgramsInv, ProgramsNext
  PROVE  ProgramsInv'
<1>1. PICK t : MainSteps \/ ThreadSteps(t) \/ SpuriousWakeup(t)
  BY DEF ProgramsNext
<1>2. CASE TeamsWholeInv
  <2>1. \/ Teams!Step(Teams!MainStep)
        \/ \E u \in Teams!Threads : Teams!Step(Teams!ThreadStep(u))
    BY <1>1, <1>2, ProgramNames
       DEF TeamsWholeInv, TeamsHeardInv, TeamsInv, MainSteps, ThreadSteps, SpuriousWakeup
  <2> QED BY <1>2, <2>1, TeamsStayWhole DEF ProgramsInv
<1>3. CASE WaterInv
  <2>1. \/ Water!Step(Water!MainStep)
        \/ \E u \in Water!Threads : \/ Water!Step(Water!ThreadStep(u))
                                    \/ Water!Step(Water!WakeSpuriously(u))
    BY <1>1, <1>3, ProgramNames DEF WaterInv, MainSteps, ThreadSteps, SpuriousWakeup
  <2> QED BY <1>3, <2>1, WaterKeeps DEF ProgramsInv
<1>4. CASE DanceInv
  <2>1. \/ Dance!Step(Dance!MainStep)
        \/ \E u \in Dance!Threads : \/ Dance!Step(Dance!ThreadStep(u))
                                    \/ Dance!Step(Dance!WakeSpuriously(u))
    BY <1>1, <1>4, ProgramNames DEF DanceInv, MainSteps, ThreadSteps, SpuriousWakeup
  <2> QED BY <1>4, <2>1, DanceKeeps DEF ProgramsInv
<1>5. CASE BuildingInv
  <2>1. \/ Building!Step(Building!MainStep)
        \/ \E u \in Building!Threads : Building!Step(Building!ThreadStep(u))
    BY <1>1, <1>5, ProgramNames DEF BuildingInv, MainSteps, ThreadSteps, SpuriousWakeup
  <2> QED BY <1>5, <2>1, BuildingKeeps DEF ProgramsInv
<1>6. CASE BoundInv
  <2>1. \/ Bound!Step(Bound!MainStep)
        \/ \E u \in Bound!Threads : Bound!Step(Bound!ThreadStep(u))
    BY <1>1, <1>6, ProgramNames DEF BoundInv, MainSteps, ThreadSteps, SpuriousWakeup
  <2> QED BY <1>6, <2>1, BoundKeeps DEF ProgramsInv
<1>7. CASE JobsInv
  <2>1. Jobs!Step(Jobs!MainStep)
    BY <1>1, <1>7, ProgramNames DEF JobsInv, MainSteps, ThreadSteps, SpuriousWakeup
  <2> QED BY <1>7, <2>1, JobsKeep DEF ProgramsInv
<1>8. CASE WebInv
  <2>1. \/ Web!Step(Web!MainStep)
        \/ \E u \in Web!Threads : Web!Step(Web!ThreadStep(u))
    BY <1>1, <1>8, ProgramNames DEF WebInv, MainSteps, ThreadSteps, SpuriousWakeup
  <2> QED BY <1>8, <2>1, WebKeeps DEF ProgramsInv
<1>9. CASE SortedInv
  <2>1. Sorting!Step(Sorting!MainStep)
    BY <1>1, <1>9, ProgramNames DEF SortedInv, SortingInv, MainSteps, ThreadSteps, SpuriousWakeup
  <2> QED BY <1>9, <2>1, SortedKeeps DEF ProgramsInv
<1> QED BY <1>2, <1>3, <1>4, <1>5, <1>6, <1>7, <1>8, <1>9 DEF ProgramsInv

(* The invariant of the program that runs holds in every state.            *)
THEOREM ProgramsAreInvariant ==
  ProgramsSpec => []ProgramsInv
<1>1. ProgramsInit => ProgramsInv
  BY ProgramsInitially
<1>2. ProgramsInv /\ [ProgramsNext]_programVars => ProgramsInv'
  BY ProgramsKeep, ProgramsStutter
<1> QED BY <1>1, <1>2, PTL DEF ProgramsSpec

(* The variables of every program keep their types.                        *)
THEOREM TypesKept ==
  ProgramsSpec => []TypesOK
<1>1. ProgramsInv => TypesOK
  BY TeamsPromise, WaterPromises, DancePromises, BuildingPromises, BoundPromises,
     JobsPromise, WebPromises, SortingPromises
     DEF ProgramsInv, TeamsWholeInv, TeamsHeardInv, SortedInv, TypesOK
<1> QED BY <1>1, ProgramsAreInvariant, PTL

(* Threads that are to take turns do so, in every team, however many there *)
(* are: greetings are printed in the order of the threads' numbers, places *)
(* of a race in that of arrival, tasks of the building after the tasks     *)
(* they depend on; a place of the bounded buffer never goes back to an     *)
(* older product, and the web server serves nobody new once it is stopped. *)
THEOREM TurnsAreRespected ==
  ProgramsSpec => []TurnsRespected
<1>1. ProgramsInv => TurnsRespected
  BY TeamsPromise, BuildingPromises, BoundPromises, WebPromises, ProgramNames
     DEF ProgramsInv, TurnsRespected, TeamsWholeInv, TeamsHeardInv, TeamsInv, WaterInv, DanceInv,
         BuildingInv, BoundInv, JobsInv, WebInv, SortedInv, SortingInv
<1> QED BY <1>1, ProgramsAreInvariant, PTL

(* However many threads, atoms and dancers there are, main succeeds only   *)
(* when it has heard of each thread once, the hits of the piñata add up, a *)
(* molecule has two hydrogens and an oxygen, and a team two men and two    *)
(* women; whatever a job file holds, the report has the result of each     *)
(* plate that was simulated; whatever clients send, and however it is cut, *)
(* responses go out in order and to whom they are for; and in whatever     *)
(* order the tasks of the merge sort run, a vector of any length is sorted *)
(* part by part, and no element is lost.                                   *)
THEOREM GroupsAreComplete ==
  ProgramsSpec => []GroupsAreWhole
<1>1. ProgramsInv => GroupsAreWhole
  BY EveryoneIsHeard, PinataIsWhole, WaterPromises, DancePromises, JobsPromise, WebPromises,
     PartsPromise, ProgramNames
     DEF ProgramsInv, GroupsAreWhole, TeamsWholeInv, TeamsHeardInv, TeamsInv, WaterInv, DanceInv,
         BuildingInv, BoundInv, JobsInv, WebInv, SortedInv, SortingInv
<1> QED BY <1>1, ProgramsAreInvariant, PTL

(* main frees what the threads share after the last has ended, on every    *)
(* path after a failure too; a job releases the plate it held; and the web *)
(* server closes no descriptor that has become another's.                  *)
THEOREM MemoryOutlives ==
  ProgramsSpec => []MemoryOutlivesThreads
<1>1. ProgramsInv => MemoryOutlivesThreads
  BY TeamsPromise, WaterPromises, DancePromises, BuildingPromises, BoundPromises,
     JobsPromise, WebPromises, ProgramNames
     DEF ProgramsInv, MemoryOutlivesThreads, TeamsWholeInv, TeamsHeardInv, TeamsInv, WaterInv, DanceInv,
         BuildingInv, BoundInv, JobsInv, WebInv, SortedInv, SortingInv
<1> QED BY <1>1, ProgramsAreInvariant, PTL

-----------------------------------------------------------------------------
(* The linked queue: the list stays one chain from head to tail, and       *)
(* behaves as a queue, for any threads, any heap and any elements.         *)
(* ListIsWhole follows the pointers by a recursive function, which no step *)
(* can be reasoned about directly.  The proof carries a witness instead: a *)
(* sequence s that lists the nodes.  NodesOfList says once what following  *)
(* the pointers gives when there is such a sequence; each operation then   *)
(* only has to say what becomes of s.                                      *)

(* The nodes of s, the chain from head to tail that s lists, and its data. *)
In(s) == {s[i] : i \in 1..Len(s)}
IsChain(s) ==
  /\ In(s) \subseteq Allocated
  /\ \A i, j \in 1..Len(s) : s[i] = s[j] => i = j
  /\ \A i \in 1..Len(s) : heap[s[i]].next = IF i = Len(s) THEN NULL ELSE s[i + 1]
  /\ head = IF s = <<>> THEN NULL ELSE s[1]
  /\ tail = IF s = <<>> THEN NULL ELSE s[Len(s)]
DataOf(s) == [i \in 1..Len(s) |-> heap[s[i]].data]

Private == {newNode[t] : t \in Callers} \ {NULL}

(* s lists the nodes that are in nobody's hands.                           *)
IsList(s) == IsChain(s) /\ In(s) \cap Private = {} /\ In(s) \cup Private = Allocated

(* A node on its way into the list is in the hands of one thread, and has  *)
(* no successor.                                                           *)
PrivateInv ==
  \A t \in Callers : newNode[t] # NULL =>
    /\ newNode[t] \in Allocated
    /\ heap[newNode[t]].next = NULL
    /\ \A u \in Callers : newNode[u] = newNode[t] => u = t

IInv == TypeOK /\ PrivateInv /\ \E s \in Seq(Address) : IsList(s)

-----------------------------------------------------------------------------
(* Following the pointers from head lists a chain, and then NULL for ever. *)
LEMMA NodesOfChain ==
  ASSUME TypeOK, NEW s \in Seq(Address), IsChain(s)
  PROVE  \A n \in Nat : NodeAt[n] = IF n < Len(s) THEN s[n + 1] ELSE NULL
<1> DEFINE Node(n) == IF n < Len(s) THEN s[n + 1] ELSE NULL
           g == [n \in Nat |-> Node(n)]
           S == {n \in Nat : NodeAt[n] = Node(n)}
<1>1. Len(s) \in Nat
  BY LenProperties
<1>2. NextOf(NULL) = NULL
  BY HeapAssumption DEF NextOf, TypeOK, Pointer
<1>3. head = Node(0)
  <2>1. CASE s = <<>>
    <3>1. Len(s) = 0 /\ head = NULL
      BY <2>1, EmptySeq DEF IsChain
    <3> QED
      BY <3>1
  <2>2. CASE s # <<>>
    <3>1. head = s[1] /\ Len(s) \in Nat \ {0}
      BY <2>2, EmptySeq DEF IsChain
    <3>2. Node(0) = s[0 + 1]
      BY <3>1
    <3>3. 0 + 1 = 1
      OBVIOUS
    <3> QED
      BY <3>1, <3>2, <3>3
  <2> QED
    BY <2>1, <2>2
<1>4. \A n \in Nat : NextOf(Node(n)) = Node(n + 1)
  <2> SUFFICES ASSUME NEW n \in Nat PROVE NextOf(Node(n)) = Node(n + 1)
    OBVIOUS
  <2>1. CASE n < Len(s)
    <3>1. n + 1 \in 1..Len(s) /\ Node(n) = s[n + 1]
      BY <2>1, <1>1
    <3>2. s[n + 1] \in Allocated
      BY <3>1 DEF IsChain, In
    <3>3. NextOf(Node(n)) = heap[s[n + 1]].next
      BY <3>1, <3>2 DEF NextOf
    <3>4. heap[s[n + 1]].next = IF n + 1 = Len(s) THEN NULL ELSE s[n + 1 + 1]
      BY <3>1 DEF IsChain
    <3>5. n + 1 \in Nat /\ (n + 1 = Len(s) <=> ~(n + 1 < Len(s)))
      BY <2>1, <1>1
    <3>6. Node(n + 1) = IF n + 1 = Len(s) THEN NULL ELSE s[n + 1 + 1]
      BY <3>5
    <3> HIDE DEF Node
    <3> QED
      BY <3>3, <3>4, <3>6
  <2>2. CASE ~(n < Len(s))
    BY <2>2, <1>1, <1>2
  <2> QED
    BY <2>1, <2>2
<1>5. \A n \in Nat \ {0} : NextOf(Node(n - 1)) = Node(n)
  BY <1>4
<1>6. g = [n \in Nat |-> IF n = 0 THEN head ELSE NextOf(g[n - 1])]
  <2> DEFINE h == [n \in Nat |-> IF n = 0 THEN head ELSE NextOf(g[n - 1])]
  <2>1. \A n \in Nat : g[n] = h[n]
    <3> SUFFICES ASSUME NEW n \in Nat PROVE g[n] = h[n]
      OBVIOUS
    <3>1. CASE n = 0
      BY <3>1, <1>3
    <3>2. CASE n # 0
      <4>1. n - 1 \in Nat /\ n \in Nat \ {0}
        BY <3>2
      <4>2. g[n - 1] = Node(n - 1) /\ g[n] = Node(n)
        BY <4>1
      <4>3. h[n] = NextOf(g[n - 1])
        BY <3>2
      <4> QED
        BY <4>1, <4>2, <4>3, <1>5
    <3> QED
      BY <3>1, <3>2
  <2> QED
    BY <2>1
<1>7. NodeAt = [n \in Nat |-> IF n = 0 THEN head ELSE NextOf(NodeAt[n - 1])]
  <2> HIDE DEF g
  <2>1. \E f : f = [n \in Nat |-> IF n = 0 THEN head ELSE NextOf(f[n - 1])]
    BY <1>6
  <2> QED
    BY <2>1 DEF NodeAt
<1>8. 0 \in S
  <2>1. NodeAt[0] = head
    BY <1>7
  <2> QED
    BY <2>1, <1>3
<1>9. \A n \in Nat : n \in S => n + 1 \in S
  <2> SUFFICES ASSUME NEW n \in Nat, NodeAt[n] = Node(n) PROVE NodeAt[n + 1] = Node(n + 1)
    OBVIOUS
  <2>1. NodeAt[n + 1] = NextOf(NodeAt[n])
    <3>1. n + 1 \in Nat /\ n + 1 # 0 /\ n + 1 - 1 = n
      OBVIOUS
    <3> QED
      BY <1>7, <3>1
  <2> QED
    BY <2>1, <1>4
<1> HIDE DEF S
<1>10. Nat \subseteq S
  BY <1>8, <1>9, Induction
<1> QED
  BY <1>10 DEF S

(* A sequence of nodes is no longer than the heap, so that Steps is enough *)
(* to come to the end of a chain.                                          *)
LEMMA ChainFits ==
  ASSUME TypeOK, NEW s \in Seq(Address), IsChain(s)
  PROVE  /\ Len(s) \in Nat /\ Cardinality(Address) \in Nat
         /\ Len(s) <= Cardinality(Address)
         /\ IsFiniteSet(In(s)) /\ Cardinality(In(s)) = Len(s)
<1> DEFINE D == 1..Len(s)
<1>1. Len(s) \in Nat /\ s \in [D -> Address]
  BY LenProperties
<1>2. IsFiniteSet(D) /\ Cardinality(D) = Len(s)
  <2>1. Len(s) \in Int /\ (~(1 > Len(s)) => Len(s) - 1 + 1 = Len(s)) /\ (1 > Len(s) => Len(s) = 0)
    BY <1>1
  <2> QED
    BY <2>1, FS_Interval
<1>3. s \in Injection(D, Address)
  BY <1>1 DEF IsChain, Injection, IsInjective
<1>4. s \in Bijection(D, In(s))
  BY <1>1 DEF IsChain, In, Bijection, Injection, IsInjective, Surjection
<1>5. ExistsBijection(D, In(s))
  BY <1>4 DEF ExistsBijection
<1>6. Cardinality(Address) \in Nat
  BY HeapAssumption, FS_CardinalityType
<1>7. Cardinality(D) <= Cardinality(Address)
  BY <1>3, HeapAssumption, FS_Injection
<1>8. IsFiniteSet(In(s)) /\ Cardinality(In(s)) = Cardinality(D)
  BY <1>2, <1>5, FS_Bijection
<1> QED
  BY <1>1, <1>2, <1>6, <1>7, <1>8

(* What the recursive definitions say of a list with the nodes s.          *)
ChainsAreContents ==
  \A s \in Seq(Address) : IsChain(s) =>
    /\ Reached = In(s)
    /\ Contents = DataOf(s)
    /\ \E n \in Steps : NodeAt[n] = NULL

LEMMA ContentsOfChain == TypeOK => ChainsAreContents
<1> SUFFICES ASSUME TypeOK, NEW s \in Seq(Address), IsChain(s)
             PROVE  /\ Reached = In(s)
                    /\ Contents = DataOf(s)
                    /\ \E n \in Steps : NodeAt[n] = NULL
  BY DEF ChainsAreContents
<1>1. \A n \in Nat : NodeAt[n] = IF n < Len(s) THEN s[n + 1] ELSE NULL
  BY NodesOfChain
<1>2. /\ Len(s) \in Nat /\ Cardinality(Address) \in Nat
      /\ Len(s) <= Cardinality(Address)
  BY ChainFits
<1>3. \A n \in Steps : n \in Nat
  BY <1>2 DEF Steps
<1>4. Reached \subseteq In(s)
  <2> SUFFICES ASSUME NEW n \in Steps, NodeAt[n] # NULL PROVE NodeAt[n] \in In(s)
    BY DEF Reached
  <2>1. n \in Nat /\ n < Len(s) /\ NodeAt[n] = s[n + 1]
    BY <1>1, <1>3
  <2>2. n + 1 \in 1..Len(s)
    BY <2>1, <1>2
  <2> QED
    BY <2>1, <2>2 DEF In
<1>5. ASSUME NEW i \in 1..Len(s) PROVE NodeAt[i - 1] = s[i] /\ i - 1 \in Steps /\ s[i] # NULL
  <2>1. i - 1 \in Nat /\ i - 1 < Len(s) /\ i - 1 + 1 = i
    BY <1>2
  <2>2. NodeAt[i - 1] = s[i]
    BY <1>1, <2>1
  <2>3. i - 1 \in Steps
    BY <1>2, <2>1 DEF Steps
  <2>4. s[i] \in Address
    BY ElementOfSeq
  <2> QED
    BY <2>2, <2>3, <2>4, HeapAssumption
<1>6. In(s) \subseteq Reached
  BY <1>5 DEF In, Reached
<1>7. Reached = In(s)
  BY <1>4, <1>6
<1>8. Contents = DataOf(s)
  <2>1. Cardinality(Reached) = Len(s)
    BY <1>7, ChainFits
  <2>2. \A i \in 1..Len(s) : heap[NodeAt[i - 1]].data = heap[s[i]].data
    BY <1>5
  <2> QED
    BY <2>1, <2>2 DEF Contents, DataOf
<1>9. Len(s) \in Steps /\ NodeAt[Len(s)] = NULL
  BY <1>1, <1>2 DEF Steps
<1> QED
  BY <1>7, <1>8, <1>9

-----------------------------------------------------------------------------
(* The queue is whole whenever some sequence lists its nodes.              *)
LEMMA ListedIsWhole == IInv => ListIsWhole
<1> SUFFICES ASSUME TypeOK, NEW s \in Seq(Address), IsList(s) PROVE ListIsWhole
  BY DEF IInv
<1>1. Reached = In(s) /\ \E n \in Steps : NodeAt[n] = NULL
  BY ContentsOfChain DEF ChainsAreContents, IsList
<1>2. EveryNodeAccounted
  BY <1>1 DEF EveryNodeAccounted, IsList, Private
<1>3. head = NULL => tail = NULL
  <2> SUFFICES ASSUME s # <<>> PROVE head # NULL
    BY DEF IsList, IsChain
  <2>1. 1 \in 1..Len(s) /\ head = s[1]
    BY EmptySeq DEF IsList, IsChain
  <2> QED
    BY <2>1, ElementOfSeq, HeapAssumption
<1>4. head # NULL => tail \in Reached /\ heap[tail].next = NULL
  <2> SUFFICES ASSUME s # <<>> PROVE tail \in In(s) /\ heap[tail].next = NULL
    BY <1>1 DEF IsList, IsChain
  <2>1. Len(s) \in 1..Len(s) /\ tail = s[Len(s)]
    BY EmptySeq DEF IsList, IsChain
  <2> QED
    BY <2>1 DEF In, IsList, IsChain
<1> QED
  BY <1>1, <1>2, <1>3, <1>4 DEF ListIsWhole, ListEndsAtTail, IsList, IsChain

-----------------------------------------------------------------------------
(* What each operation does to the list, and to its data.                  *)
LEMMA AllocateKeeps ==
  ASSUME TypeOK, PrivateInv, NEW s \in Seq(Address), IsList(s),
         NEW t \in Callers, Allocate(t)
  PROVE  TypeOK' /\ PrivateInv' /\ IsList(s)' /\ DataOf(s)' = DataOf(s)
<1>1. PICK a \in Address \ Allocated, d \in Data :
        /\ heap' = [b \in Allocated \cup {a} |->
                      IF b = a THEN [data |-> d, next |-> NULL] ELSE heap[b]]
        /\ newNode' = [newNode EXCEPT ![t] = a]
  BY DEF Allocate
<1>2. newNode[t] = NULL /\ UNCHANGED <<head, tail, value>>
  BY DEF Allocate, Idle
<1>3. /\ Allocated' = Allocated \cup {a}
      /\ \A b \in Allocated : heap'[b] = heap[b]
      /\ heap'[a] = [data |-> d, next |-> NULL]
  BY <1>1 DEF Allocated
<1>4. newNode'[t] = a /\ \A u \in Callers \ {t} : newNode'[u] = newNode[u]
  BY <1>1 DEF TypeOK
<1>5. TypeOK'
  BY <1>1, <1>2, <1>3 DEF TypeOK, Pointer
<1>6. PrivateInv'
  BY <1>1, <1>3, <1>4, HeapAssumption DEF PrivateInv
<1>7. Private' = Private \cup {a}
  BY <1>1, <1>2, <1>4, HeapAssumption DEF Private
<1>8. \A i \in 1..Len(s) : s[i] \in Allocated
  BY DEF IsList, IsChain, In
<1>9. IsChain(s)'
  BY <1>2, <1>3, <1>8 DEF IsList, IsChain, In
<1>10. IsList(s)'
  BY <1>1, <1>3, <1>7, <1>8, <1>9 DEF IsList, In
<1>11. DataOf(s)' = DataOf(s)
  BY <1>3, <1>8 DEF DataOf
<1> QED
  BY <1>5, <1>6, <1>10, <1>11

LEMMA LinkAppends ==
  ASSUME TypeOK, PrivateInv, NEW s \in Seq(Address), IsList(s),
         NEW t \in Callers, Link(t), NEW r, r = Append(s, newNode[t])
  PROVE  /\ TypeOK' /\ PrivateInv' /\ IsList(r)' /\ r \in Seq(Address)
         /\ newNode'[t] = NULL
         /\ DataOf(r)' = Append(DataOf(s), heap[newNode[t]].data)
<1> DEFINE a == newNode[t]
           n == Len(s)
<1>1. a # NULL /\ a \in Allocated /\ a \in Address /\ heap[a].next = NULL
  BY DEF Link, PrivateInv, TypeOK
<1>2. /\ n \in Nat /\ r \in Seq(Address) /\ Len(r) = n + 1
      /\ \A i \in 1..n : r[i] = s[i]
      /\ r[n + 1] = a /\ r # <<>>
  BY <1>1, AppendProperties, LenProperties
<1>3. /\ newNode' = [newNode EXCEPT ![t] = NULL] /\ tail' = a
      /\ value' = value
  BY DEF Link
<1>4. newNode'[t] = NULL /\ \A u \in Callers \ {t} : newNode'[u] = newNode[u]
  BY <1>3 DEF TypeOK
<1>5. a \notin In(s) /\ \A u \in Callers \ {t} : newNode[u] # a
  BY <1>1 DEF IsList, Private, PrivateInv
<1>6. \A i \in 1..n : s[i] \in Allocated /\ s[i] # a /\ s[i] # NULL
  BY <1>5, HeapAssumption DEF IsList, IsChain, In, TypeOK
<1>7. CASE s = <<>>
  <2>1. n = 0 /\ tail = NULL
    BY <1>7, EmptySeq DEF IsList, IsChain
  <2>2. heap' = heap /\ head' = a
    BY <2>1 DEF Link
  <2>3. TypeOK'
    BY <1>1, <1>3, <2>2 DEF TypeOK, Allocated, Pointer
  <2>4. PrivateInv'
    BY <1>4, <2>2 DEF PrivateInv, Allocated
  <2>5. Private' = Private \ {a}
    BY <1>1, <1>4, <1>5 DEF Private
  <2>6. r[1] = a /\ Len(r) = 1 /\ In(r) = {a} /\ In(s) = {}
    <3>1. 1..Len(r) = {1} /\ 1..Len(s) = {}
      BY <1>2, <2>1
    <3> QED
      BY <1>2, <2>1, <3>1 DEF In
  <2>7. IsChain(r)'
    BY <1>1, <1>2, <1>3, <2>2, <2>6 DEF IsChain, Allocated
  <2>8. IsList(r)'
    BY <1>1, <2>2, <2>5, <2>6, <2>7 DEF IsList, Private, Allocated
  <2>9. DataOf(r)' = Append(DataOf(s), heap[a].data)
    <3>1. DataOf(s) = <<>>
      BY <2>1 DEF DataOf
    <3>2. DataOf(r)' = <<heap[a].data>>
      BY <2>2, <2>6 DEF DataOf
    <3> QED
      BY <3>1, <3>2
  <2> QED
    BY <1>2, <1>4, <2>3, <2>4, <2>8, <2>9
<1>8. CASE s # <<>>
  <2>1. n \in 1..n /\ n # 0 /\ tail = s[n] /\ head = s[1] /\ 1 \in 1..n
    BY <1>8, EmptySeq, <1>2 DEF IsList, IsChain
  <2>2. /\ tail # NULL /\ tail \in Allocated /\ tail # a
        /\ heap[tail].next = NULL
    BY <2>1, <1>6 DEF IsList, IsChain
  <2>3. heap' = [heap EXCEPT ![tail].next = a] /\ head' = head
    BY <2>2 DEF Link
  <2>4. /\ Allocated' = Allocated
        /\ \A b \in Allocated : /\ heap'[b] \in [data : Data, next : Pointer]
                                /\ heap'[b].data = heap[b].data
                                /\ heap'[b].next = IF b = tail THEN a ELSE heap[b].next
    BY <1>1, <2>2, <2>3 DEF Allocated, TypeOK, Pointer
  <2>5. TypeOK'
    BY <1>1, <1>3, <2>3, <2>4 DEF TypeOK, Pointer
  <2>6. \A u \in Callers : newNode[u] # NULL => newNode[u] # tail
    BY <2>1 DEF IsList, In, Private
  <2>7. PrivateInv'
    BY <1>4, <2>4, <2>6 DEF PrivateInv
  <2>8. Private' = Private \ {a}
    BY <1>1, <1>4, <1>5 DEF Private
  <2>9. In(r) = In(s) \cup {a}
    BY <1>2 DEF In
  <2>10. \A i, j \in 1..n + 1 : r[i] = r[j] => i = j
    <3> SUFFICES ASSUME NEW i \in 1..n + 1, NEW j \in 1..n + 1, r[i] = r[j] PROVE i = j
      OBVIOUS
    <3>1. (i \in 1..n \/ i = n + 1) /\ (j \in 1..n \/ j = n + 1)
      BY <1>2
    <3> QED
      BY <3>1, <1>2, <1>6 DEF IsList, IsChain
  <2>11. \A i \in 1..n + 1 : heap'[r[i]].next = IF i = n + 1 THEN NULL ELSE r[i + 1]
    <3> SUFFICES ASSUME NEW i \in 1..n + 1
                 PROVE heap'[r[i]].next = IF i = n + 1 THEN NULL ELSE r[i + 1]
      OBVIOUS
    <3>1. CASE i = n + 1
      BY <3>1, <1>1, <1>2, <2>2, <2>4
    <3>2. CASE i = n
      <4>1. r[i] = tail /\ r[i + 1] = a /\ i # n + 1
        BY <3>2, <1>2, <2>1
      <4> QED
        BY <4>1, <2>2, <2>4
    <3>3. CASE i \in 1..n /\ i # n
      <4>1. /\ i \in 1..n /\ i + 1 \in 1..n /\ i # n + 1 /\ r[i] = s[i] /\ r[i + 1] = s[i + 1]
        BY <3>3, <1>2
      <4>2. s[i] # tail
        BY <4>1, <3>3, <2>1 DEF IsList, IsChain
      <4>3. heap[s[i]].next = s[i + 1]
        BY <4>1, <3>3 DEF IsList, IsChain
      <4> QED
        BY <4>1, <4>2, <4>3, <1>6, <2>4
    <3> QED
      BY <3>1, <3>2, <3>3, <1>2
  <2>12. IsChain(r)'
    <3>1. r[1] = head'
      BY <1>2, <2>1, <2>3
    <3>2. In(r) \subseteq Allocated'
      BY <1>1, <2>4, <2>9 DEF IsList, IsChain
    <3>3. r # <<>> /\ tail' = r[Len(r)]
      BY <1>2, <1>3
    <3>4. \A i, j \in 1..Len(r) : r[i] = r[j] => i = j
      BY <1>2, <2>10
    <3>5. \A i \in 1..Len(r) : heap'[r[i]].next = IF i = Len(r) THEN NULL ELSE r[i + 1]
      BY <1>2, <2>11
    <3> QED
      BY <3>1, <3>2, <3>3, <3>4, <3>5 DEF IsChain
  <2>13. IsList(r)'
    <3>1. In(r) \cap Private' = {}
      BY <1>5, <2>8, <2>9 DEF IsList
    <3>2. In(r) \cup Private' = Allocated'
      <4>1. a \in Private /\ In(s) \cup Private = Allocated
        BY <1>1 DEF Private, IsList
      <4>2. Allocated' = Allocated
        BY <2>4
      <4> QED
        BY <4>1, <4>2, <2>8, <2>9
    <3> QED
      BY <2>12, <3>1, <3>2 DEF IsList
  <2>14. DataOf(r)' = Append(DataOf(s), heap[a].data)
    <3>1. \A i \in 1..n + 1 : heap'[r[i]].data = IF i = n + 1 THEN heap[a].data ELSE heap[s[i]].data
      <4> SUFFICES ASSUME NEW i \in 1..n + 1
                   PROVE heap'[r[i]].data = IF i = n + 1 THEN heap[a].data ELSE heap[s[i]].data
        OBVIOUS
      <4>1. CASE i = n + 1
        BY <4>1, <1>1, <1>2, <2>4
      <4>2. CASE i \in 1..n
        BY <4>2, <1>2, <1>6, <2>4
      <4> QED
        BY <4>1, <4>2, <1>2
    <3>2. DataOf(s) \in Seq(Data) /\ Len(DataOf(s)) = n
      BY <1>2, <1>6 DEF DataOf, TypeOK
    <3>3. Append(DataOf(s), heap[a].data)
            = [i \in 1..n + 1 |-> IF i = n + 1 THEN heap[a].data ELSE DataOf(s)[i]]
      BY <3>2
    <3> QED
      BY <3>1, <3>3, <1>2 DEF DataOf
  <2> QED
    BY <1>2, <1>4, <2>5, <2>7, <2>13, <2>14
<1> QED
  BY <1>7, <1>8

LEMMA DequeueTakesFirst ==
  ASSUME TypeOK, PrivateInv, NEW s \in Seq(Address), IsList(s),
         NEW t \in Callers, DequeueFirst(t)
  PROVE  /\ s # <<>>
         /\ TypeOK' /\ PrivateInv' /\ IsList(Tail(s))' /\ Tail(s) \in Seq(Address)
         /\ DataOf(s) # <<>>
         /\ DataOf(Tail(s))' = Tail(DataOf(s)) /\ value'[t] = Head(DataOf(s))
<1> DEFINE r == Tail(s)
           n == Len(s)
<1>1. s # <<>> /\ head # NULL
  BY DEF DequeueFirst, IsEmpty, IsList, IsChain
<1>2. /\ n \in Nat /\ n # 0 /\ 1 \in 1..n /\ r \in Seq(Address) /\ Len(r) = n - 1
      /\ \A i \in 1..n - 1 : r[i] = s[i + 1]
  BY <1>1, EmptySeq, LenProperties, HeadTailProperties
<1>n. n \in Nat /\ n # 0
  BY <1>2
<1>3. /\ head = s[1] /\ head \in Allocated /\ head \in Address
      /\ heap[head].next = IF n = 1 THEN NULL ELSE s[2]
  <2>1. head = s[1] /\ head \in In(s)
    BY <1>1, <1>2 DEF IsList, IsChain, In
  <2>2. heap[s[1]].next = IF 1 = n THEN NULL ELSE s[1 + 1]
    BY <1>2 DEF IsList, IsChain
  <2> QED
    BY <2>1, <2>2 DEF IsList, IsChain, TypeOK
<1>4. \A i \in 1..n : s[i] \in Allocated /\ s[i] # NULL
  BY HeapAssumption DEF IsList, IsChain, In, TypeOK
<1>5. /\ heap' = [b \in Allocated \ {head} |-> heap[b]]
      /\ head' = heap[head].next
      /\ tail' = IF heap[head].next = NULL THEN NULL ELSE tail
      /\ newNode' = newNode
      /\ value' = [value EXCEPT ![t] = heap[head].data]
  BY DEF DequeueFirst, RemoveFirst, Without, Restrict
<1>6. Allocated' = Allocated \ {head} /\ \A b \in Allocated' : heap'[b] = heap[b]
  BY <1>5 DEF Allocated
<1>7. heap[head].next \in Pointer /\ heap[head].data \in Data
  BY <1>3 DEF TypeOK
<1>8. TypeOK'
  BY <1>5, <1>6, <1>7 DEF TypeOK, Pointer
<1>9. PrivateInv'
  <2>1. \A u \in Callers : newNode[u] # NULL => newNode[u] # head
    BY <1>2, <1>3 DEF IsList, In, Private
  <2> QED
    BY <2>1, <1>5, <1>6 DEF PrivateInv
<1>10. In(r) = In(s) \ {head}
  <2>1. In(r) \subseteq In(s) \ {head}
    <3> SUFFICES ASSUME NEW i \in 1..n - 1 PROVE r[i] \in In(s) \ {head}
      BY <1>2 DEF In
    <3>1. i + 1 \in 1..n /\ i + 1 # 1 /\ r[i] = s[i + 1]
      BY <1>2
    <3> QED
      BY <3>1, <1>2, <1>3 DEF In, IsList, IsChain
  <2>2. ASSUME NEW i \in 1..n, s[i] # head PROVE s[i] \in In(r)
    <3>1. i - 1 \in 1..n - 1 /\ i - 1 + 1 = i
      BY <2>2, <1>2, <1>3
    <3>2. r[i - 1] = s[i]
      BY <3>1, <1>2
    <3> QED
      BY <3>1, <3>2, <1>2 DEF In
  <2> QED
    BY <2>1, <2>2 DEF In
<1>11. r = <<>> <=> n = 1
  <2>1. r = <<>> <=> Len(r) = 0
    BY <1>2, EmptySeq
  <2> QED
    BY <2>1, <1>2
<1>12. IsChain(r)'
  <2>1. In(r) \subseteq Allocated'
    BY <1>6, <1>10 DEF IsList, IsChain
  <2>2. \A i, j \in 1..Len(r) : r[i] = r[j] => i = j
    <3> SUFFICES ASSUME NEW i \in 1..n - 1, NEW j \in 1..n - 1, s[i + 1] = s[j + 1] PROVE i = j
      BY <1>2
    <3>1. i + 1 \in 1..n /\ j + 1 \in 1..n
      BY <1>n
    <3>2. i + 1 = j + 1
      BY <3>1 DEF IsList, IsChain
    <3> QED
      BY <3>2
  <2>3. \A i \in 1..Len(r) : heap'[r[i]].next = IF i = Len(r) THEN NULL ELSE r[i + 1]
    <3> SUFFICES ASSUME NEW i \in 1..n - 1
                 PROVE heap'[r[i]].next = IF i = n - 1 THEN NULL ELSE r[i + 1]
      <4>1. Len(r) = n - 1
        BY <1>2
      <4> QED
        BY <4>1
    <3>1. i + 1 \in 1..n /\ (i = n - 1 <=> i + 1 = n) /\ (i # n - 1 => i + 1 \in 1..n - 1)
      BY <1>n
    <3>2. r[i] = s[i + 1] /\ r[i] \in In(r)
      BY <1>2 DEF In
    <3>3. heap'[r[i]] = heap[s[i + 1]]
      BY <3>2, <2>1, <1>6
    <3>4. heap[s[i + 1]].next = IF i + 1 = n THEN NULL ELSE s[i + 1 + 1]
      BY <3>1 DEF IsList, IsChain
    <3>5. i # n - 1 => r[i + 1] = s[i + 1 + 1]
      BY <3>1, <1>2
    <3> QED
      BY <3>1, <3>3, <3>4, <3>5
  <2>4. head' = IF r = <<>> THEN NULL ELSE r[1]
    <3>1. n # 1 => 1 \in 1..n - 1 /\ 1 + 1 = 2
      BY <1>2
    <3> QED
      BY <3>1, <1>2, <1>3, <1>5, <1>11
  <2>5. tail' = IF r = <<>> THEN NULL ELSE r[Len(r)]
    <3>1. CASE n = 1
      BY <3>1, <1>3, <1>5, <1>11
    <3>2. CASE n # 1
      <4>1. 2 \in 1..n /\ n - 1 \in 1..n - 1 /\ n - 1 + 1 = n
        BY <3>2, <1>2
      <4>2. heap[head].next # NULL /\ r[n - 1] = s[n] /\ tail = s[n]
        BY <4>1, <3>2, <1>1, <1>2, <1>3, <1>4 DEF IsList, IsChain
      <4> QED
        BY <4>2, <3>2, <1>2, <1>5, <1>11
    <3> QED
      BY <3>1, <3>2
  <2> QED
    BY <2>1, <2>2, <2>3, <2>4, <2>5 DEF IsChain
<1>13. IsList(r)'
  <2>1. Private' = Private /\ head \notin Private
    BY <1>2, <1>3, <1>5 DEF Private, IsList, In
  <2> QED
    BY <2>1, <1>6, <1>10, <1>12 DEF IsList
<1>14. /\ DataOf(s) \in Seq(Data) /\ Len(DataOf(s)) = n /\ DataOf(s) # <<>>
       /\ Head(DataOf(s)) = heap[head].data
  <2>1. DataOf(s) \in Seq(Data) /\ Len(DataOf(s)) = n
    BY <1>2, <1>4 DEF DataOf, TypeOK
  <2>2. DataOf(s)[1] = heap[head].data
    BY <1>2, <1>3 DEF DataOf
  <2> QED
    BY <2>1, <2>2, <1>2, EmptySeq
<1>15. value'[t] = heap[head].data
  BY <1>5 DEF TypeOK
<1>16. DataOf(r)' = Tail(DataOf(s))
  <2>1. \A i \in 1..n - 1 : heap'[r[i]].data = DataOf(s)[i + 1]
    <3> SUFFICES ASSUME NEW i \in 1..n - 1 PROVE heap'[r[i]].data = DataOf(s)[i + 1]
      OBVIOUS
    <3>1. i + 1 \in 1..n /\ r[i] = s[i + 1] /\ r[i] \in In(r)
      BY <1>2 DEF In
    <3>2. heap'[r[i]] = heap[s[i + 1]]
      BY <3>1, <1>6, <1>12 DEF IsChain
    <3> QED
      BY <3>1, <3>2 DEF DataOf
  <2>2. Tail(DataOf(s)) = [i \in 1..n - 1 |-> DataOf(s)[i + 1]]
    <3>1. /\ Tail(DataOf(s)) \in [1..n - 1 -> Data]
          /\ \A i \in 1..n - 1 : Tail(DataOf(s))[i] = DataOf(s)[i + 1]
      BY <1>14, HeadTailProperties, LenProperties
    <3> QED
      BY <3>1
  <2>3. DataOf(r)' = [i \in 1..n - 1 |-> heap'[r[i]].data]
    BY <1>2 DEF DataOf
  <2> QED
    BY <2>1, <2>2, <2>3
<1> QED
  BY <1>1, <1>2, <1>8, <1>9, <1>13, <1>14, <1>15, <1>16

LEMMA ClearEmpties ==
  ASSUME TypeOK, PrivateInv, NEW s \in Seq(Address), IsList(s),
         NEW t \in Callers, Clear(t)
  PROVE  TypeOK' /\ PrivateInv' /\ IsList(<<>>)' /\ DataOf(<<>>)' = <<>> /\ value' = value
<1>1. Reached = In(s)
  BY ContentsOfChain DEF ChainsAreContents, IsList
<1>2. /\ heap' = [b \in Allocated \ In(s) |-> heap[b]]
      /\ head' = NULL /\ tail' = NULL /\ newNode' = newNode /\ value' = value
  BY <1>1 DEF Clear, Restrict
<1>3. Allocated' = Allocated \ In(s) /\ \A b \in Allocated' : heap'[b] = heap[b]
  BY <1>2 DEF Allocated
<1>4. TypeOK'
  BY <1>2, <1>3 DEF TypeOK, Pointer
<1>5. PrivateInv'
  BY <1>2, <1>3 DEF PrivateInv, IsList, Private
<1>6. Len(<<>>) = 0 /\ 1..0 = {} /\ In(<<>>) = {}
  BY EmptySeq DEF In
<1>7. IsChain(<<>>)'
  BY <1>2, <1>6 DEF IsChain
<1>8. IsList(<<>>)'
  BY <1>2, <1>3, <1>6, <1>7 DEF IsList, Private
<1>9. DataOf(<<>>)' = <<>>
  BY <1>6 DEF DataOf
<1> QED
  BY <1>2, <1>4, <1>5, <1>8, <1>9

-----------------------------------------------------------------------------
LEMMA InitIInv == Init => IInv
<1> SUFFICES ASSUME Init PROVE IInv
  OBVIOUS
<1>1. Allocated = {} /\ head = NULL /\ tail = NULL
  BY DEF Init, Allocated
<1>2. TypeOK /\ PrivateInv
  BY <1>1 DEF Init, TypeOK, Pointer, PrivateInv
<1>3. Len(<<>>) = 0 /\ 1..0 = {} /\ In(<<>>) = {} /\ <<>> \in Seq(Address)
  BY EmptySeq DEF In
<1>4. Private = {}
  BY DEF Init, Private
<1>5. IsList(<<>>)
  BY <1>1, <1>3, <1>4 DEF IsList, IsChain
<1> QED
  BY <1>2, <1>3, <1>5 DEF IInv

(* What a step may do to the contents, and the only things it does.        *)
FifoStep ==
  \/ Contents' = Contents
  \/ \E t \in Callers :
       /\ newNode[t] # NULL /\ newNode'[t] = NULL
       /\ Contents' = Append(Contents, heap[newNode[t]].data)
  \/ \E t \in Callers :
       /\ Contents # <<>>
       /\ Contents' = Tail(Contents) /\ value'[t] = Head(Contents)
  \/ Contents' = <<>> /\ value' = value

LEMMA NextIInv == IInv /\ [Next]_vars => IInv' /\ [FifoStep]_vars
<1> SUFFICES ASSUME IInv, [Next]_vars PROVE IInv' /\ [FifoStep]_vars
  OBVIOUS
<1>1. PICK s \in Seq(Address) : IsList(s)
  BY DEF IInv
<1>2. TypeOK /\ PrivateInv
  BY DEF IInv
<1>3. Contents = DataOf(s)
  BY <1>1, <1>2, ContentsOfChain DEF ChainsAreContents, IsList
<1>4. TypeOK' => \A r \in Seq(Address) : IsList(r)' => Contents' = DataOf(r)'
  <2>1. TypeOK' => ChainsAreContents'
    BY ContentsOfChain, PTL
  <2> QED
    BY <2>1 DEF ChainsAreContents, IsList
<1>5. CASE UNCHANGED vars
  <2>1. TypeOK' /\ PrivateInv' /\ IsList(s)'
    BY <1>1, <1>2, <1>5 DEF vars, TypeOK, PrivateInv, IsList, IsChain, Private, Allocated, In
  <2> QED
    BY <1>5, <2>1 DEF IInv
<1>6. ASSUME NEW t \in Callers, Allocate(t) PROVE IInv' /\ FifoStep
  <2>1. TypeOK' /\ PrivateInv' /\ IsList(s)' /\ DataOf(s)' = DataOf(s)
    BY <1>1, <1>2, <1>6, AllocateKeeps
  <2>2. Contents' = Contents
    BY <1>3, <1>4, <2>1
  <2> QED
    BY <2>1, <2>2 DEF IInv, FifoStep
<1>7. ASSUME NEW t \in Callers, Link(t) PROVE IInv' /\ FifoStep
  <2>1. PICK r : r = Append(s, newNode[t])
    OBVIOUS
  <2>2. /\ TypeOK' /\ PrivateInv' /\ IsList(r)' /\ r \in Seq(Address)
        /\ newNode'[t] = NULL
        /\ DataOf(r)' = Append(DataOf(s), heap[newNode[t]].data)
    BY <1>1, <1>2, <1>7, <2>1, LinkAppends
  <2>3. Contents' = Append(Contents, heap[newNode[t]].data)
    BY <1>3, <1>4, <2>2
  <2> QED
    BY <1>7, <2>2, <2>3 DEF IInv, FifoStep, Link
<1>8. ASSUME NEW t \in Callers, DequeueFirst(t) PROVE IInv' /\ FifoStep
  <2>1. /\ TypeOK' /\ PrivateInv' /\ IsList(Tail(s))' /\ Tail(s) \in Seq(Address)
        /\ DataOf(s) # <<>>
        /\ DataOf(Tail(s))' = Tail(DataOf(s)) /\ value'[t] = Head(DataOf(s))
    BY <1>1, <1>2, <1>8, DequeueTakesFirst
  <2>2. Contents # <<>> /\ Contents' = Tail(Contents) /\ value'[t] = Head(Contents)
    BY <1>3, <1>4, <2>1
  <2> QED
    BY <2>1, <2>2 DEF IInv, FifoStep
<1>9. ASSUME NEW t \in Callers, DequeueNothing(t) PROVE IInv' /\ FifoStep
  <2>1. UNCHANGED <<heap, head, tail, newNode>>
    BY <1>9 DEF DequeueNothing
  <2>2. TypeOK'
    BY <1>2, <1>9, <2>1 DEF DequeueNothing, TypeOK, Allocated
  <2>3. PrivateInv' /\ IsList(s)' /\ DataOf(s)' = DataOf(s)
    <3>1. PrivateInv'
      BY <1>2, <2>1 DEF PrivateInv, Allocated
    <3>2. IsList(s)'
      <4>1. IsChain(s)'
        BY <1>1, <2>1 DEF IsList, IsChain, Allocated
      <4>2. Private' = Private /\ Allocated' = Allocated
        BY <2>1 DEF Private, Allocated
      <4> QED
        BY <1>1, <4>1, <4>2 DEF IsList
    <3>3. DataOf(s)' = DataOf(s)
      BY <2>1 DEF DataOf
    <3> QED
      BY <3>1, <3>2, <3>3
  <2>4. Contents' = Contents
    BY <1>3, <1>4, <2>2, <2>3
  <2> QED
    BY <2>2, <2>3, <2>4 DEF IInv, FifoStep
<1>10. ASSUME NEW t \in Callers, Clear(t) PROVE IInv' /\ FifoStep
  <2>1. TypeOK' /\ PrivateInv' /\ IsList(<<>>)' /\ DataOf(<<>>)' = <<>> /\ value' = value
    BY <1>1, <1>2, <1>10, ClearEmpties
  <2>2. <<>> \in Seq(Address)
    BY EmptySeq
  <2>3. Contents' = <<>>
    BY <1>4, <2>1, <2>2
  <2> QED
    BY <2>1, <2>2, <2>3 DEF IInv, FifoStep
<1> QED
  BY <1>5, <1>6, <1>7, <1>8, <1>9, <1>10 DEF Next

THEOREM InductiveInvariant == Spec => []IInv /\ [][FifoStep]_vars
<1>1. Init => IInv
  BY InitIInv
<1>2. IInv /\ [Next]_vars => IInv' /\ [FifoStep]_vars
  BY NextIInv
<1> QED
  BY <1>1, <1>2, PTL DEF Spec

(* The list keeps its types.                                               *)
THEOREM TypeCorrect == Spec => []TypeOK
<1>1. IInv => TypeOK
  BY DEF IInv
<1> QED
  BY <1>1, InductiveInvariant, PTL

(* From the head the pointers lead to the tail and end there, over all the *)
(* nodes that are not in the hands of a thread, and over no freed one,     *)
(* whatever threads enqueue, dequeue and clear in whatever order.          *)
THEOREM AlwaysWhole == Spec => []ListIsWhole
BY ListedIsWhole, InductiveInvariant, PTL

(* Elements leave the list in the order in which they were linked.         *)
THEOREM FirstOutWasFirstIn == Spec => FirstInFirstOut
BY InductiveInvariant, PTL DEF FirstInFirstOut, FifoStep
=============================================================================
