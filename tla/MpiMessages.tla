------------------------------- MODULE MpiMessages -------------------------------
(***************************************************************************)
(* The MPI programs that are made of single messages: the ring of sums,    *)
(* the relay race, the two games of ping-pong and the greetings.  input is *)
(* the same for every process: whether the arguments are as the program    *)
(* wants them, and the points that win a game.  Errors of MPI's calls end  *)
(* the program inside of MPI and are left out, and so are delays.          *)
(***************************************************************************)
EXTENDS MpiProcesses

CONSTANTS CountsOf,    \* CountsOf[program]: with how many processes it is started
          Draws,       \* Draws[p]: the random numbers process p of the ring may draw
          WinScores,   \* the points that win a game of ping_pong_realistic
          MostServices \* bound: from this service on a player misses

Programs == {"ring", "relay_race_dist", "ping_pong_perfect", "ping_pong_realistic",
             "send_recv_ord_sem", "hello_task_sep"}

Init ==
  /\ program \in Programs
  /\ input \in [proper : BOOLEAN,
                 winScore : IF program = "ping_pong_realistic" THEN WinScores ELSE {0}]
  /\ \E count \in CountsOf[program] : Starts(count)

(* Every process returns before it has sent anything.                      *)
Refuses(p) == Goes(p, "start", "failed") /\ UNCHANGED <<local, output>> /\ Computes

Previous(p) == (Count + p - 1) % Count
Following(p) == (p + 1) % Count

-----------------------------------------------------------------------------
(* ring: four rounds, in which the sums go around by one process each.     *)
RingStarts(p) ==
  /\ Goes(p, "start", "send") /\ Count = 4
  /\ \E number \in Draws[p] : Keep(p, [number |-> number, sum |-> number, i |-> 0])
  /\ Quietly /\ Computes

(* A faulty variant, used by no specification: there is a fifth round.     *)
RingSendsOnceMore(p) ==
  /\ Goes(p, "send", IF local[p].i = 4 THEN "report" ELSE "receive")
  /\ Sends(p, Following(p), local[p].sum)
  /\ Keep(p, [local[p] EXCEPT !.i = @ + 1]) /\ Quietly

RingSends(p) ==
  /\ Goes(p, "send", IF local[p].i = 3 THEN "report" ELSE "receive")
  /\ Sends(p, Following(p), local[p].sum)
  /\ Keep(p, [local[p] EXCEPT !.i = @ + 1]) /\ Quietly

RingReceives(p) ==
  /\ Goes(p, "receive", "send") /\ Quietly
  /\ \E sum \in Mail(Previous(p), p) :
       /\ Receives(p, Previous(p), sum)
       /\ Keep(p, [local[p] EXCEPT !.sum = sum + local[p].number])

RingReports(p) ==
  /\ Goes(p, "report", "ended")
  /\ UNCHANGED local /\ Quietly /\ Computes

Ring(p) == \/ RingStarts(p) \/ (Count # 4 /\ Refuses(p))
           \/ RingSends(p) \/ RingReceives(p) \/ RingReports(p)

-----------------------------------------------------------------------------
(* relay_race_dist: the referee, then the first runner of every team, then *)
(* the second ones.  They all meet at the barrier before the race.         *)
Teams == (Count - 1) \div 2
Teammate(p) == p - Teams

RaceStarts(p) ==
  /\ Goes(p, "start", "race") /\ input.proper /\ Count >= 3 /\ Count % 2 = 1
  /\ Keep(p, [position |-> 0]) /\ Quietly /\ Meets(p)

RaceRefuses(p) == (~input.proper \/ Count < 3 \/ Count % 2 = 0) /\ Refuses(p)

etapa_1(p) ==
  /\ p \in 1..Teams /\ Goes(p, "race", "ended")
  /\ Sends(p, p + Teams, "baton") /\ UNCHANGED local /\ Quietly

etapa_2(p) ==
  /\ p > Teams /\ UNCHANGED local /\ Quietly
  /\ \/ Goes(p, "race", "run") /\ Receives(p, Teammate(p), "baton")
     \/ Goes(p, "run", "ended") /\ Sends(p, 0, Teammate(p))

(* A faulty variant, used by no specification: the referee awaits a place  *)
(* more than there are teams.                                              *)
RefereeAwaitsOneMore(p) ==
  /\ p = 0 /\ Goes(p, "race", "race")
  /\ \E q \in Processes : \E team \in Mail(q, p) :
       /\ Receives(p, q, team) /\ Keep(p, [position |-> local[p].position + 1])
       /\ Says(p, [position |-> local[p].position + 1, team |-> team])

referee(p) ==
  LET place == local[p].position IN
  /\ p = 0
  /\ \/ /\ Goes(p, "race", "race") /\ place < Teams
        /\ \E q \in Processes : \E team \in Mail(q, p) :
             /\ Receives(p, q, team) /\ Keep(p, [position |-> place + 1])
             /\ Says(p, [position |-> place + 1, team |-> team])
     \/ /\ Goes(p, "race", "ended") /\ place = Teams
        /\ UNCHANGED local /\ Quietly /\ Computes

Relay(p) == \/ RaceStarts(p) \/ RaceRefuses(p)
            \/ at[p] \in {"race", "run"} /\ (etapa_1(p) \/ etapa_2(p) \/ referee(p))

-----------------------------------------------------------------------------
(* ping_pong_perfect: the ball goes to and fro with synchronous sends.     *)
PerfectStarts(p) ==
  /\ UNCHANGED local /\ Quietly /\ Computes
  /\ Goes(p, "start", IF p = 0 THEN "serve" ELSE "return")
  /\ Count = 2 /\ input.proper

PerfectGame(p) ==
  \/ PerfectStarts(p)
  \/ (Count # 2 \/ ~input.proper) /\ Refuses(p)
  \/ /\ UNCHANGED local /\ Quietly
     /\ \/ Goes(p, "serve", "return") /\ SendsSynchronously(p, 1 - p, "ball")
        \/ Goes(p, "return", "serve") /\ Receives(p, 1 - p, "ball")

-----------------------------------------------------------------------------
(* ping_pong_realistic: who serves may miss, and then the other scores.    *)
(* Process 0 decides whether the game is over and broadcasts the score.    *)
simulate_service(p) == IF local[p].services < MostServices THEN BOOLEAN ELSE {FALSE}

RealStarts(p) ==
  /\ Goes(p, "start", "play") /\ Count = 2 /\ input.proper
  /\ Keep(p, [scoreboard |-> [q \in 0..1 |-> 0], services |-> 0, rounds |-> 0,
              over |-> FALSE, winner |-> -1])
  /\ Quietly /\ Computes

(* The variables of p after a service that hit or missed.                  *)
Scored(p, by, hit) ==
  IF hit THEN [local[p] EXCEPT !.winner = -1]
  ELSE [local[p] EXCEPT !.winner = 1 - by, !.scoreboard[1 - by] = @ + 1]

Serves(p) ==
  /\ Goes(p, "play", "tally") /\ p = local[p].services % 2
  /\ \E hit \in simulate_service(p) : Sends(p, 1 - p, hit) /\ Keep(p, Scored(p, p, hit))
  /\ Quietly

Awaits(p) ==
  /\ Goes(p, "play", "tally") /\ p # local[p].services % 2
  /\ \E hit \in Mail(1 - p, p) :
       Receives(p, 1 - p, hit) /\ Keep(p, Scored(p, 1 - p, hit))
  /\ Quietly

Tallies(p) ==
  LET over == p = 0 /\ \E q \in 0..1 : local[p].scoreboard[q] >= input.winScore
      round == p = 0 /\ local[p].winner # -1 IN
  /\ Goes(p, "tally", "over") /\ Broadcasts(p, over) /\ Quietly
  /\ Keep(p, [local[p] EXCEPT !.services = @ + 1, !.over = over,
                              !.rounds = IF round THEN @ + 1 ELSE @])

LearnsOver(p) ==
  /\ Goes(p, "over", "score") /\ Keep(p, [local[p] EXCEPT !.over = FromRoot(p)])
  /\ Broadcasts(p, local[p].scoreboard) /\ Quietly

LearnsScore(p) ==
  /\ Goes(p, "score", IF local[p].over THEN "ended" ELSE "play")
  /\ Keep(p, [local[p] EXCEPT !.scoreboard = FromRoot(p), !.winner = -1])
  /\ Quietly /\ Computes

RealisticGame(p) ==
  \/ RealStarts(p) \/ ((Count # 2 \/ ~input.proper) /\ Refuses(p))
  \/ Serves(p) \/ Awaits(p) \/ Tallies(p) \/ LearnsOver(p) \/ LearnsScore(p)

-----------------------------------------------------------------------------
(* send_recv_ord_sem: every process greets when the one before has, and    *)
(* the last one lets the first one know, which does not listen.            *)
(* A faulty variant, used by no specification: nobody waits for its turn.  *)
GreetsAtOnce(p) ==
  /\ UNCHANGED local
  /\ \/ Goes(p, "start", "pass") /\ Says(p, "hello") /\ Computes
     \/ Goes(p, "pass", "ended") /\ Quietly /\ Sends(p, Following(p), "can_print")

Greets(p) ==
  /\ UNCHANGED local
  /\ \/ /\ Goes(p, "start", "pass") /\ Says(p, "hello")
        /\ IF p > 0 THEN Receives(p, Previous(p), "can_print") ELSE Computes
     \/ Goes(p, "pass", "ended") /\ Quietly /\ Sends(p, Following(p), "can_print")

(* hello_task_sep: each of two processes has its own task.                 *)
SeparateTasks(p) ==
  \/ /\ Goes(p, "start", "ended") /\ Count = 2
     /\ Says(p, IF p = 0 THEN "hello" ELSE "number") /\ UNCHANGED local /\ Computes
  \/ Count # 2 /\ Refuses(p)

-----------------------------------------------------------------------------
ProcessStep(p) ==
  \/ program = "ring" /\ Ring(p)
  \/ program = "relay_race_dist" /\ Relay(p)
  \/ program = "ping_pong_perfect" /\ PerfectGame(p)
  \/ program = "ping_pong_realistic" /\ RealisticGame(p)
  \/ program = "send_recv_ord_sem" /\ Greets(p)
  \/ program = "hello_task_sep" /\ SeparateTasks(p)

Next == \E p \in Processes : Step(ProcessStep(p))
Spec == Init /\ [][Next]_vars
             /\ \A p \in Ranks : WF_vars(p \in Processes /\ Step(ProcessStep(p)))

-----------------------------------------------------------------------------
Playing == {p \in Processes : at[p] \notin {"start", "failed"}}

(* The variables keep their types.                                         *)
TypeOK ==
  /\ program \in Programs
  /\ CommonTypes({"send", "receive", "report", "race", "run", "serve", "return",
                  "play", "tally", "over", "score", "pass"})
  /\ program = "ring" => \A p \in Playing : local[p].i \in 0..4
  /\ program = "relay_race_dist" => \A p \in Playing : local[p].position \in 0..Teams
  /\ program = "ping_pong_realistic" =>
       \A p \in Playing : /\ local[p].winner \in -1..1
                          /\ local[p].scoreboard \in [0..1 -> 0..Max({1, input.winScore})]
                          /\ local[p].services \in 0..MostServices + 2 * input.winScore

(* What is passed on arrives in turn: greetings are in the order of the    *)
(* processes, there is one ball, and no team is placed before its first    *)
(* runner has started, nor twice.                                          *)
TurnsTaken ==
  /\ program = "send_recv_ord_sem" => \A i \in DOMAIN output : output[i].by = i - 1
  /\ program = "ping_pong_perfect" /\ 0 \in Playing =>
       Cardinality({p \in Processes : at[p] = "serve"})
         + Cardinality({p \in Processes : Count = 2 /\ mail[p][1 - p] # <<>>}) = 1
  /\ program = "relay_race_dist" =>
       \A i \in DOMAIN output :
         /\ at[output[i].says.team] = "ended" /\ output[i].says.position = i
         /\ \A j \in DOMAIN output : output[i].says.team = output[j].says.team => i = j

(* What the processes work out together is right on all of them: the sums  *)
(* of the ring are the sum of the four numbers, and both players count the *)
(* same points before process 0 broadcasts the score, one for every round. *)
ResultsRight ==
  /\ program = "ring" =>
       \A p \in Playing : at[p] = "ended" =>
         local[p].sum = SumFunction([q \in Processes |-> local[q].number])
  /\ program = "ping_pong_realistic" =>
       \A p, q \in Playing :
         /\ at[p] \in {"over", "score"} /\ at[q] \in {"over", "score"}
              /\ local[p].services = local[q].services
              => local[p].scoreboard = local[q].scoreboard
         /\ at[p] = "ended" /\ at[q] = "ended" =>
              local[p] = [local[q] EXCEPT !.rounds = local[p].rounds]
         /\ at[0] = "ended" => SumFunction(local[0].scoreboard) = local[0].rounds

(* Programs whose last messages nobody receives.                           *)
Unanswered == {"ring", "send_recv_ord_sem"}
SomeSendWaits == \E p \in Processes : ~Received(p)
AllEnded == \A p \in Processes : Ended(p)
=============================================================================
