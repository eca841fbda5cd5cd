---------------------------- MODULE ProcessPrograms ----------------------------
(***************************************************************************)
(* The MPI programs, side by side: `program' says which of them runs, and  *)
(* what they promise is stated once for all.                               *)
(***************************************************************************)
EXTENDS Integers, Sequences

CONSTANTS MostProcesses, \* no communicator has more processes
          CountsOf,      \* with how many processes each program is started
          RingNumbers,   \* the random numbers of each process of the ring
          WinScores,     \* the points that win a game of ping-pong, ...
          MostServices,  \* ... which is missed after so many services (bound)
          LuckyNumbers,  \* the random numbers of a process of the lucky ones
          Ranges,        \* the ranges of work, and ...
          ThreadCount,   \* ... the threads of every process that share it
          Shapes,        \* heat: the pairs <<processes, lines of the job file>>
          PlateRows,     \* heat: the rows of a plate
          MostStates     \* heat: a plate has settled after so many (bound)

VARIABLES program, input, at, local, mail, entered, waits, output

Messages == INSTANCE MpiMessages WITH Draws <- RingNumbers
Collectives == INSTANCE MpiCollectives WITH Draws <- LuckyNumbers
Heat == INSTANCE HeatMpi

ASSUME CountsAssumption ==
  /\ MostProcesses \in Nat
  /\ \A name \in Messages!Programs \cup Collectives!Programs :
       CountsOf[name] \subseteq 1..MostProcesses
  /\ Shapes \subseteq (1..MostProcesses) \X Nat

ASSUME NumbersAssumption ==
  /\ \A p \in 0..3 : RingNumbers[p] \subseteq Int
  /\ WinScores \subseteq Nat /\ LuckyNumbers \subseteq Int
  /\ {MostServices, ThreadCount, MostStates} \subseteq Nat \ {0}
  /\ PlateRows \in Nat

(* The code takes a range that ends before it begins as well: C and TLA+   *)
(* divide it differently.                                                  *)
ASSUME RangesAssumption == \A r \in Ranges : r \in Int \X Int /\ r[1] <= r[2]

programVars == <<program, input, at, local, mail, entered, waits, output>>

ProgramsInit == Messages!Init \/ Collectives!Init \/ Heat!Init

ProcessSteps(p) ==
  /\ p \in DOMAIN at
  /\ \/ program \in Messages!Programs /\ Messages!Step(Messages!ProcessStep(p))
     \/ program \in Collectives!Programs /\ Collectives!Step(Collectives!ProcessStep(p))
     \/ program \in Heat!Programs /\ Heat!Step(Heat!ProcessStep(p))

AnyProcess == 0..MostProcesses - 1

ProgramsNext == \E p \in AnyProcess : ProcessSteps(p)

ProgramsSpec == /\ ProgramsInit /\ [][ProgramsNext]_programVars
                /\ \A p \in AnyProcess : WF_programVars(ProcessSteps(p))

-----------------------------------------------------------------------------
(* The variables keep their types in every program.                        *)
TypesOK == Messages!TypeOK \/ Collectives!TypeOK \/ Heat!TypeOK

(* What one process must wait for another to do has been done: greetings,  *)
(* batons and balls take turns, and the rows a plate is computed with are  *)
(* of the same state.                                                      *)
TurnsTaken ==
  /\ program \in Messages!Programs => Messages!TurnsTaken
  /\ program \in Heat!Programs => Heat!GhostsInStep

(* What the processes find out together is the same, and right, on all of  *)
(* them: sums, scores, statistics and the number of states of a plate.     *)
ResultsAgree ==
  /\ program \in Messages!Programs => Messages!ResultsRight
  /\ program \in Collectives!Programs => Collectives!StatisticsRight
  /\ program \in Heat!Programs => Heat!SettleTogether

(* Work that is divided among processes, and among their threads, is all   *)
(* done, and none of it twice.                                             *)
WorkDividedOnce ==
  /\ program \in Collectives!Programs => Collectives!PartsCoverRange
  /\ program \in Heat!Programs => Heat!EachLineDealt /\ Heat!EachRowOnce

(* Programs with messages that nobody receives.                            *)
Unanswered == Messages!Unanswered \cup Heat!Programs

Rally == \A p \in 0..1 : p \in DOMAIN at /\ []<>(p \in DOMAIN at /\ at[p] = "serve")

(* Every program comes to its end on all of its processes, and the endless *)
(* game of ping-pong never stops.  The exceptions are a message nobody     *)
(* receives, if its sender waits for that, and a heat simulation that      *)
(* could not read its job or has more plates for some processes.           *)
ProgramsEnd ==
  \/ <>Messages!AllEnded
  \/ program = "ping_pong_perfect" /\ Rally
  \/ program \in Unanswered /\ <>[]Messages!SomeSendWaits
  \/ program \in Heat!Programs /\ ~Heat!ComesToAnEnd

-----------------------------------------------------------------------------
(* What a document promises and a run of its own refutes.                  *)

(* "hostname1:0: range [3, 12[ size 9" for the arguments 3 and 20          *)
(* (hybrid_distr_arg/README.md:6): the parts are those of the range that   *)
(* was given.  calculate_start does not add where it begins.               *)
PartsOfTheRange == program \in Collectives!Programs => Collectives!PartsOfTheRange
=============================================================================
