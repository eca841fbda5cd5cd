----------------------------- MODULE ThreadPrograms -----------------------------
(***************************************************************************)
(* The small thread programs, the heat jobs, the web server and the merge  *)
(* sort, side by side: `program' says which of them runs, and what they    *)
(* promise is stated once for all.                                         *)
(***************************************************************************)
EXTENDS Integers, Sequences

CONSTANTS TeamSize,       \* the threads of a team
          HitsAvailable,  \* the hits of the piñata
          HitsOfThread,   \* what a thread can draw of them
          Atoms,          \* the atoms of water entered at most
          Dancers,        \* the dancers entered at most
          BufferCapacity, \* the places of the bounded buffer ...
          Rounds,         \* ... and how often it is filled
          JobFiles,       \* the jobs of heat simulations
          MostClients,    \* the clients of the web server, ...
          MostAddresses,  \* ... the addresses it can be given ...
          Requests,       \* ... and what it can be sent
          Vectors         \* the vectors that are sorted

ASSUME NumbersAssumption ==
  /\ {TeamSize, HitsAvailable, Atoms, Dancers, MostClients, MostAddresses} \subseteq Nat
  /\ HitsOfThread \subseteq Nat
  /\ {BufferCapacity, Rounds} \subseteq Nat \ {0}

ASSUME JobsAssumption ==
  JobFiles \subseteq [newlines : Nat, plates : Seq({"whole", "short", "missing"})]

ASSUME RequestsAssumption ==
  Requests \subseteq [asks : {"home", "fact", "other"}, keepAlive : BOOLEAN, announces : BOOLEAN,
                      segments : Seq(Seq({"request", "header", "end", "piece", "body"})),
                      hangsUp : BOOLEAN]

ASSUME VectorsAssumption == Vectors \subseteq Seq(Int)

VARIABLES program, main, at, shared, output

Teams == INSTANCE ThreadTeams WITH ThreadCount <- TeamSize
Water == INSTANCE WaterMolecules WITH ThreadCount <- Atoms
Dance == INSTANCE DancingPairs WITH ThreadCount <- Dancers
Building == INSTANCE BuildingTasks WITH ThreadCount <- 10
Bound == INSTANCE ProConsBound WITH ThreadCount <- 2
Jobs == INSTANCE HeatJobs WITH ThreadCount <- 0, Jobs <- JobFiles
Web == INSTANCE WebServer WITH ThreadCount <- 1
Sorting == INSTANCE MergeSort WITH ThreadCount <- 0

programVars == <<program, main, at, shared, output>>

ProgramsInit ==
  \/ Teams!Init \/ Water!Init \/ Dance!Init \/ Building!Init \/ Bound!Init
  \/ Jobs!Init \/ Web!Init \/ Sorting!Init

MainSteps ==
  \/ program \in Teams!Programs /\ Teams!Step(Teams!MainStep)
  \/ program \in Water!Programs /\ Water!Step(Water!MainStep)
  \/ program \in Dance!Programs /\ Dance!Step(Dance!MainStep)
  \/ program \in Building!Programs /\ Building!Step(Building!MainStep)
  \/ program \in Bound!Programs /\ Bound!Step(Bound!MainStep)
  \/ program \in Jobs!Programs /\ Jobs!Step(Jobs!MainStep)
  \/ program \in Web!Programs /\ Web!Step(Web!MainStep)
  \/ program \in Sorting!Programs /\ Sorting!Step(Sorting!MainStep)

ThreadSteps(t) ==
  \/ program \in Teams!Programs /\ t \in Teams!Threads /\ Teams!Step(Teams!ThreadStep(t))
  \/ program \in Water!Programs /\ t \in Water!Threads /\ Water!Step(Water!ThreadStep(t))
  \/ program \in Dance!Programs /\ t \in Dance!Threads /\ Dance!Step(Dance!ThreadStep(t))
  \/ program \in Building!Programs /\ t \in Building!Threads /\ Building!Step(Building!ThreadStep(t))
  \/ /\ program \in Bound!Programs /\ t \in Bound!Threads /\ ~Bound!MemoryIsFreed
     /\ Bound!Step(Bound!ThreadStep(t))
  \/ program \in Web!Programs /\ t \in Web!Threads /\ Web!Step(Web!ThreadStep(t))

SpuriousWakeup(t) ==
  \/ program \in Water!Programs /\ t \in Water!Threads /\ Water!Step(Water!WakeSpuriously(t))
  \/ program \in Dance!Programs /\ t \in Dance!Threads /\ Dance!Step(Dance!WakeSpuriously(t))

MostThreads == Teams!Threads \cup Water!Threads \cup Dance!Threads \cup Building!Threads

ProgramsNext == MainSteps \/ \E t \in MostThreads : ThreadSteps(t) \/ SpuriousWakeup(t)

ProgramsSpec == /\ ProgramsInit /\ [][ProgramsNext]_programVars
                /\ WF_programVars(MainSteps)
                /\ \A t \in MostThreads : WF_programVars(ThreadSteps(t))

-----------------------------------------------------------------------------
(* The variables keep their types in every program.                        *)
TypesOK == \/ Teams!TypeOK \/ Water!TypeOK \/ Dance!TypeOK \/ Building!TypeOK \/ Bound!TypeOK
           \/ Jobs!TypeOK \/ Web!TypeOK \/ Sorting!TypeOK

(* Threads that are to take turns do so: greetings in the order of the     *)
(* numbers, positions in the order of arrival, tasks of the building after *)
(* what they depend on (but for the grey work), the places of a buffer     *)
(* never go back to an older product, and no client is served after stop() *)
(* but the one that accept() was waiting for.                              *)
TurnsRespected ==
  /\ program \in Teams!Programs => Teams!TurnsRespected
  /\ program \in Building!Programs => Building!TurnsRespected
  /\ program \in Bound!Programs => Bound!PlacesNeverGoBack
  /\ program \in Web!Programs => Web!StopEndsService

(* What several threads or steps bring about together is whole: every      *)
(* member of a team is heard once, the hits of the piñata add up, molecules*)
(* have two hydrogens and an oxygen, teams of dancers two men and two      *)
(* women, the report of a job has the result of every plate that was       *)
(* simulated, a client of the web server gets its response, and a part     *)
(* that is sorted has the elements it had.                                 *)
GroupsAreWhole ==
  /\ program \in Teams!Programs => Teams!EveryoneHeard /\ Teams!HitsAddUp
  /\ program \in Water!Programs => Water!MoleculesAreWhole
  /\ program \in Dance!Programs => Dance!TeamsAreWhole
  /\ program \in Jobs!Programs => Jobs!ReportIsWhole
  /\ program \in Web!Programs => Web!ResponsesInOrder
  /\ program \in Sorting!Programs => Sorting!PartsSorted

(* main frees what the threads share after the last of them has ended (the *)
(* bounded buffer only if both of its threads could be created), a job     *)
(* holds no more than one plate at a time and nothing when it is done, and *)
(* the web server closes no descriptor that has become another's.          *)
MemoryOutlivesThreads ==
  /\ program \in Teams!Programs => Teams!MemoryOutlivesThreads
  /\ program \in Water!Programs => Water!MemoryOutlivesThreads
  /\ program \in Dance!Programs => Dance!MemoryOutlivesThreads
  /\ program \in Building!Programs => Building!MemoryOutlivesThreads
  /\ program \in Bound!Programs => Bound!MemoryOutlivesThreads
  /\ program \in Jobs!Programs => Jobs!MemoryReleased
  /\ program \in Web!Programs => Web!DescriptorsOwned

(* Whatever fails, a program comes to its end, or does what C leaves       *)
(* undefined: the units posted suffice for all the tasks of the building,  *)
(* and the exit dismisses the dancers that still wait.  The molecules of   *)
(* water all form, and that program ends but for the atoms that are left   *)
(* over.  The web server ends, or waits for a client.                      *)
ProgramsEnd ==
  /\ <>[]~Water!UnitsAreLeft
  /\ <>(~Teams!Running \/ []Water!AtomsAreLeft \/ []Web!ServerWaits)
=============================================================================
