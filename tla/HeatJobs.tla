-------------------------------- MODULE HeatJobs --------------------------------
(***************************************************************************)
(* The three heat simulations that run in one process, around the          *)
(* simulation of a plate (HeatSerial, HeatOmp, HeatPthread): main reads    *)
(* the job file, read_bin_plate reads and simulates one plate a line and   *)
(* writes it, and a report tells the states of all.  What is known of a    *)
(* result is the line it belongs to.  Any file may fail to open and any    *)
(* allocation may be refused; where the code goes on with what it did not  *)
(* get, C leaves undefined what happens and the program is not followed.   *)
(* main.next counts the lines done.                                        *)
(***************************************************************************)
EXTENDS PthreadMain

CONSTANT Jobs   \* job files: the newlines counted; the plates, whole, short or missing

Programs == {"heatsim_serial", "heatsim_omp", "heatsim_pthread"}
Serial == program = "heatsim_serial"
Unset == -1   \* whatever is in memory that nobody has written

Init ==
  /\ program \in Programs
  /\ \E job \in Jobs :
       Starts([job |-> job, lines |-> 0, names |-> <<>>, states |-> <<>>, held |-> {}])

Holds(what) == Field("held", shared.held \cup what)
Releases(what) == Field("held", shared.held \ what)
Undefined(from) == MainGoes(from, "undefined") /\ UNCHANGED <<shared, output>>

-----------------------------------------------------------------------------
(* main(): without two arguments it returns.                               *)
Begin == Passes("start", "count")
Refuse == MainFails("start", "ended") /\ UNCHANGED <<at, shared, output>>

(* read_job_txt: as many entries are allocated as there are newlines, none *)
(* being a failure, like a file that cannot be opened.                     *)
count_lines ==
  \/ /\ MainGoes("count", "read") /\ shared.job.newlines > 0
     /\ shared' = [shared EXCEPT !.lines = shared.job.newlines,
                                 !.held = {"variables", "job file"}]
     /\ UNCHANGED output
  \/ MainFails("count", "ended") /\ UNCHANGED <<shared, output>>

(* An entry is read, into memory that is not there if there are more than  *)
(* newlines.  Reading stops when there is no memory for a name.            *)
ReadEntry ==
  LET i == Len(shared.names) IN
  /\ i < Len(shared.job.plates)
  /\ IF i >= shared.lines THEN Undefined("read")
     ELSE /\ UNCHANGED output
          /\ \/ /\ MainGoes("read", "read")
                /\ Field("names", Append(shared.names, "name"))
             \/ /\ MainGoes("read", "states")
                /\ shared' = [shared EXCEPT !.names = Append(@, "NULL"),
                                            !.held = @ \ {"job file"}]

ReadEnds ==
  /\ Len(shared.names) = Len(shared.job.plates)
  /\ MainGoes("read", "states") /\ Releases({"job file"}) /\ UNCHANGED output

read_job_txt == count_lines \/ ReadEntry \/ ReadEnds

-----------------------------------------------------------------------------
(* read_bin_plate: the array of states.                                    *)
AllocateStates ==
  /\ MainGoes("states", "plate") /\ UNCHANGED output
  /\ shared' = [shared EXCEPT !.held = @ \cup {"states"},
                              !.states = [i \in 1..shared.lines |-> Unset]]

NoStates(to) == MainGoes("states", to) /\ UNCHANGED <<shared, output>>

Line == main.next + 1
Named == Line \in DOMAIN shared.names /\ shared.names[Line] = "name"
LinesLeft == main.at = "plate" /\ main.next < shared.lines
PlateIs(kinds) == LinesLeft /\ Named /\ shared.job.plates[Line] \in kinds

(* A plate goes to be simulated, with what is held for it.  For a name     *)
(* that was not read, an address that is none is taken.                    *)
Holding(what) ==
  main' = [main EXCEPT !.at = "simulate"] /\ Holds(what) /\ UNCHANGED output

NameMissing == LinesLeft /\ ~Named /\ Undefined("plate")

(* heat_transfer_simulation: it copies the plate into matrices that it has *)
(* not got if memory is refused.                                           *)
Simulate ==
  \/ Undefined("simulate")
  \/ /\ main.at = "simulate" /\ "states" \in shared.held
     /\ main' = [main EXCEPT !.at = "write"]
     /\ Field("states", [shared.states EXCEPT ![Line] = Line])
     /\ UNCHANGED output

(* generate_bin_file, or not if the file cannot be created; the matrix is  *)
(* freed.                                                                  *)
generate_bin_file ==
  /\ main.at = "write"
  /\ main' = [main EXCEPT !.at = "plate", !.next = @ + 1]
  /\ Releases({"matrix", "plate file"})
  /\ \/ Report(Line, shared.states[Line])
     \/ UNCHANGED output

(* generate_report_file, likewise.                                         *)
generate_report_file ==
  /\ main.next = shared.lines /\ MainGoes("plate", "free")
  /\ Releases({"states"})
  /\ \/ Report(0, shared.states)
     \/ UNCHANGED output

(* The serial program does not look at the array of states it was given.   *)
(* A file that cannot be opened, or memory it does not get for the plate,  *)
(* makes it give up all of the plates.  It simulates a plate it could read *)
(* a part of, and keeps its file open meanwhile.                           *)
SerialReadBinPlate ==
  \/ AllocateStates \/ NoStates("plate")
  \/ LinesLeft /\ Named /\ MainGoes("plate", "free") /\ UNCHANGED <<shared, output>>
  \/ PlateIs({"whole", "short"}) /\ Holding({"matrix", "plate file"})
  \/ NameMissing \/ Simulate \/ generate_bin_file \/ generate_report_file

(* The other two leave out only the plate whose file cannot be opened or   *)
(* whose array of rows finds no memory.  But where a row fails `continue'  *)
(* goes on with the next row of the plate just freed.                      *)
OmpReadBinPlate ==
  \/ AllocateStates \/ NoStates("free")
  \/ /\ LinesLeft /\ Named
     /\ main' = [main EXCEPT !.next = @ + 1] /\ UNCHANGED <<shared, output>>
  \/ PlateIs({"whole"}) /\ Holding({"matrix"})
  \/ PlateIs({"whole", "short"}) /\ Undefined("plate")
  \/ NameMissing \/ Simulate \/ generate_bin_file \/ generate_report_file

PthreadReadBinPlate == OmpReadBinPlate

-----------------------------------------------------------------------------
(* main() frees the names of all lines, read or not.                       *)
Free ==
  IF Len(shared.names) < shared.lines THEN Undefined("free")
  ELSE /\ MainGoes("free", "ended") /\ Releases({"variables"}) /\ UNCHANGED output

(* The mains differ in the number of threads they give to read_bin_plate.  *)
SerialMain ==
  Begin \/ Refuse \/ (UNCHANGED at /\ (read_job_txt \/ SerialReadBinPlate \/ Free))
OmpMain ==
  Begin \/ Refuse \/ (UNCHANGED at /\ (read_job_txt \/ OmpReadBinPlate \/ Free))
PthreadsMain ==
  Begin \/ Refuse \/ (UNCHANGED at /\ (read_job_txt \/ PthreadReadBinPlate \/ Free))

MainStep ==
  \/ program = "heatsim_serial" /\ SerialMain
  \/ program = "heatsim_omp" /\ OmpMain
  \/ program = "heatsim_pthread" /\ PthreadsMain

Next == Step(MainStep)
Spec == Init /\ [][Next]_vars /\ WF_vars(Next)

-----------------------------------------------------------------------------
TypeOK ==
  /\ program \in Programs
  /\ main.at \in {"start", "count", "read", "states", "plate", "simulate", "write",
                  "free", "ended", "undefined"}
  /\ main.next \in 0..shared.lines
  /\ \A i \in DOMAIN output : output[i].by \in 0..shared.lines

(* A result is that of its own line, in a plate's file and in the report.  *)
(* The report names every line, without a state those whose plate could    *)
(* not be read; the serial program reports all of them or none.            *)
Written(line) == \E i \in DOMAIN output : output[i].by = line /\ line > 0
ReportIsWhole ==
  \A i \in DOMAIN output :
    IF output[i].by > 0
    THEN output[i].says = output[i].by /\ \A j \in 1..i - 1 : output[j].by < output[i].by
    ELSE /\ DOMAIN output[i].says = 1..shared.lines
         /\ \A line \in 1..shared.lines :
              /\ output[i].says[line] \in {line, Unset}
              /\ output[i].says[line] = Unset => ~Serial /\ ~Written(line)

(* One plate at a time is in memory; a program that comes to its end holds *)
(* nothing but the states of a serial one that gave up.                    *)
MemoryReleased ==
  /\ main.at \notin {"simulate", "write", "undefined"} =>
       shared.held \cap {"matrix", "plate file"} = {}
  /\ main.at = "ended" => shared.held \subseteq (IF Serial THEN {"states"} ELSE {})
  /\ \A i \in DOMAIN output : output[i].by = 0 => "states" \notin shared.held
=============================================================================
