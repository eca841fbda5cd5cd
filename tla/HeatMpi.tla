--------------------------------- MODULE HeatMpi ---------------------------------
(***************************************************************************)
(* The distributed heat simulation.  Process 0 reads the job file and      *)
(* deals its lines, one plate each, to the processes; then every process   *)
(* simulates its own plates, and the simulation of a plate exchanges rows  *)
(* with the neighbours and asks all processes whether the plate settled.   *)
(* A row is known by where it comes from: the process, the ordinal of its  *)
(* plate, the state, and the row; temperatures are left out, so whether    *)
(* the rows of a process have settled is free (bound: MostStates).  All    *)
(* plates have the same size, PlateRows rows.  Allocation is taken to      *)
(* succeed.                                                                *)
(***************************************************************************)
EXTENDS MpiProcesses

CONSTANTS Shapes,     \* the pairs <<processes, lines of the job file>>
          PlateRows,  \* rows
          MostStates  \* bound: a plate has settled after this many states

Programs == {"heatsim_mpi"}

Init ==
  /\ program \in Programs
  /\ \E shape \in Shapes :
       /\ input \in [proper : BOOLEAN, readable : BOOLEAN, lines : {shape[2]}]
       /\ ~input.proper => input.readable
       /\ Starts(shape[1])

-----------------------------------------------------------------------------
(* The part that process p has of n lines, or of n rows.                   *)
StartOf(p, n) == p * (n \div Count) + Min({p, n % Count})
CountOf(p, n) == n \div Count + (IF p < n % Count THEN 1 ELSE 0)
RowsOf(p) == StartOf(p, PlateRows)..StartOf(p, PlateRows) + CountOf(p, PlateRows) - 1

(* main: without its two arguments every process returns.  Process 0       *)
(* returns alone when it cannot read the job file; the others are already  *)
(* waiting in the broadcast of the number of lines, or will be.            *)
Begins(p) ==
  /\ Quietly
  /\ \/ ~input.proper /\ Goes(p, "start", "failed") /\ UNCHANGED local /\ Computes
     \/ /\ input.proper /\ p = 0 /\ ~input.readable
        /\ Goes(p, "start", "failed") /\ UNCHANGED local /\ Computes
     \/ /\ input.proper /\ (p = 0 => input.readable)
        /\ Goes(p, "start", "deal") /\ Broadcasts(p, input.lines)
        /\ Keep(p, [dealt |-> 1, lines |-> <<>>, above |-> <<>>, below |-> <<>>,
                    state |-> 0, settled |-> FALSE, row |-> 0, results |-> <<>>])

(* The lines for the process, in the order of the file.                    *)
Share(p) == [i \in 1..CountOf(p, input.lines) |-> StartOf(p, input.lines) + i - 1]

Deals(p) ==
  LET q == local[p].dealt IN
  /\ p = 0 /\ Quietly
  /\ \/ Goes(p, "deal", "deal") /\ q < Count
        /\ Sends(p, q, [lines |-> Share(q)]) /\ Keep(p, [local[p] EXCEPT !.dealt = q + 1])
     \/ Goes(p, "deal", "plate") /\ q = Count /\ Computes
        /\ Keep(p, [local[p] EXCEPT !.lines = Share(0)])

IsDealt(p) ==
  /\ p # 0 /\ Goes(p, "deal", "plate") /\ Quietly
  /\ \E deal \in Mail(0, p) :
       Receives(p, 0, deal) /\ Keep(p, [local[p] EXCEPT !.lines = deal.lines])

-----------------------------------------------------------------------------
(* read_bin_plate.  The number of plates done is that of the results.      *)
Ordinal(p) == Len(local[p].results) + 1
IsLast(p) == Ordinal(p) > Len(local[p].lines)

(* The next plate is read and its rows copied, or the process aborts all   *)
(* of them: the file cannot be opened, or its name, which is an address of *)
(* process 0 also in the others, is no name.                               *)
Reads(p) ==
  /\ Goes(p, "plate", "exchange") /\ ~IsLast(p)
  /\ Quietly /\ Computes
  /\ Keep(p, [local[p] EXCEPT !.state = 0])

CannotRead(p) == at[p] = "plate" /\ Returned(p) /\ ~IsLast(p) /\ AbortAll(p)

(* Process 0 writes the report, of its own plates, and all of them end.    *)
Finishes(p) ==
  /\ Goes(p, "plate", "ended") /\ IsLast(p) /\ UNCHANGED local /\ Computes
  /\ IF p = 0 THEN Says(p, local[p].results) ELSE Quietly

-----------------------------------------------------------------------------
(* heat_transfer_simulation.  Each MPI_Sendrecv sends a border row and     *)
(* receives one, in any order.                                             *)
BorderRow(p) == [from |-> p, plate |-> Ordinal(p), state |-> local[p].state]

SendsBorder(p, q, from, to) ==
  Goes(p, from, to) /\ Sends(p, q, BorderRow(p)) /\ UNCHANGED local

(* The reception does not wait for the receipt of what was sent.           *)
ReceivesBorder(p, q, from, to, ghost) ==
  /\ at[p] = from /\ at' = [at EXCEPT ![p] = to]
  /\ \E row \in Mail(q, p) :
       Receives(p, q, row) /\ Keep(p, [local[p] EXCEPT ![ghost] = row])

Skips(p, from, to) == Goes(p, from, to) /\ UNCHANGED local /\ Computes

Exchanges(p) ==
  /\ Quietly
  /\ \/ p > 0 /\ SendsBorder(p, p - 1, "exchange", "above")
     \/ ReceivesBorder(p, p - 1, "above", "lower", "above")
     \/ p = 0 /\ Skips(p, "exchange", "lower")
     \/ p < Count - 1 /\ SendsBorder(p, p + 1, "lower", "below")
     \/ ReceivesBorder(p, p + 1, "below", "compute", "below")
     \/ p = Count - 1 /\ Skips(p, "lower", "compute")

(* Whether the rows of p have settled is combined with all the others'.    *)
ComputesRows(p) ==
  /\ Goes(p, "compute", "agree") /\ UNCHANGED local /\ Quietly
  /\ \E settled \in (IF local[p].state + 1 < MostStates THEN BOOLEAN ELSE {TRUE}) :
       ReducesToAll(p, settled)

(* A faulty variant, used by no specification: a process goes by its own   *)
(* rows.                                                                   *)
AgreesWithItself(p) ==
  LET settled == FromAll(p)[p] IN
  /\ Goes(p, "agree", IF settled THEN "gather" ELSE "exchange")
  /\ Keep(p, [local[p] EXCEPT !.state = @ + 1, !.settled = settled])
  /\ Quietly /\ Computes

Agrees(p) ==
  LET settled == \A q \in Processes : FromAll(p)[q] IN
  /\ Goes(p, "agree", IF settled THEN "gather" ELSE "exchange")
  /\ Keep(p, [local[p] EXCEPT !.state = @ + 1, !.settled = settled])
  /\ Quietly /\ Computes

(* Process 0 copies its rows to its plate; the others send theirs to it,   *)
(* one by one, and it does not receive them.  The plate is then written.   *)
Gathers(p) ==
  LET plate == local[p].lines[Ordinal(p)]  rows == Cardinality(RowsOf(p)) IN
  /\ Quietly
  /\ \/ /\ Goes(p, "gather", "gather") /\ p # 0 /\ local[p].row < rows
        /\ Sends(p, 0, BorderRow(p)) /\ Keep(p, [local[p] EXCEPT !.row = @ + 1])
     \/ /\ Goes(p, "gather", "plate") /\ (p = 0 \/ local[p].row = rows)
        /\ Computes
        /\ Keep(p, [local[p] EXCEPT !.row = 0,
              !.results = Append(@, [line |-> plate, states |-> local[p].state])])

-----------------------------------------------------------------------------
ProcessStep(p) ==
  \/ Begins(p) \/ Deals(p) \/ IsDealt(p)
  \/ Reads(p) \/ CannotRead(p) \/ Finishes(p)
  \/ Exchanges(p) \/ ComputesRows(p) \/ Agrees(p) \/ Gathers(p)

Next == \E p \in Processes : Step(ProcessStep(p))
Spec == Init /\ [][Next]_vars /\ \A p \in Ranks : WF_vars(p \in Processes /\ Step(ProcessStep(p)))

-----------------------------------------------------------------------------
Begun == {p \in Processes : at[p] # "start" /\ local[p] # <<>>}

(* The variables keep their types.                                         *)
TypeOK ==
  /\ program \in Programs
  /\ CommonTypes({"deal", "plate", "exchange", "above", "lower", "below", "compute",
                  "agree", "gather"})
  /\ \A p \in Begun : /\ local[p].state \in 0..MostStates /\ local[p].row \in 0..PlateRows
                      /\ local[p].dealt \in 1..Count /\ IsLast(p) \in BOOLEAN

(* Every line of the job is simulated by one process: what was dealt, in   *)
(* the order of the processes, is the file.                                *)
Dealt(p) == p \in Begun /\ at[p] \notin {"deal", "aborted"}
EachLineDealt ==
  (\A p \in Processes : Dealt(p)) =>
    \A i \in 0..input.lines - 1 :
      Cardinality({p \in Processes : i \in Range(local[p].lines)}) = 1

(* The rows of a plate are all somebody's: nobody's rows are another's.    *)
EachRowOnce ==
  /\ UNION {RowsOf(p) : p \in Processes} = 0..PlateRows - 1
  /\ \A p, q \in Processes : p # q => RowsOf(p) \cap RowsOf(q) = {}

(* A process computes with its neighbours' rows of the same state of their *)
(* plates of the same ordinal; but process 0 does so only for its first    *)
(* plate, after which it finds the rows that nobody has received.          *)
GhostsInStep ==
  \A p \in Begun : at[p] = "compute" =>
    /\ p > 0 => local[p].above = [BorderRow(p) EXCEPT !.from = p - 1]
    /\ p < Count - 1 /\ (p > 0 \/ Ordinal(p) = 1) =>
         local[p].below = [BorderRow(p) EXCEPT !.from = p + 1]

(* The plates of the same ordinal settle after as many states on all.      *)
SettleTogether ==
  \A p, q \in Begun :
    \A i \in DOMAIN local[p].results \cap DOMAIN local[q].results :
      local[p].results[i].states = local[q].results[i].states

(* Processes that come to their end: the job can be read, and everybody    *)
(* has the same number of plates.                                          *)
ComesToAnEnd == ~input.proper \/ (input.readable /\ input.lines % Count = 0)

SomeSendWaits == \E p \in Processes : ~Received(p)
AllEnded == \A p \in Processes : Ended(p)
=============================================================================
