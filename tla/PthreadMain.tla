------------------------------ MODULE PthreadMain ------------------------------
(***************************************************************************)
(* What the thread programs of the repository have in common: main creates *)
(* threads one by one, joins them in the order of their creation, frees    *)
(* what they share and returns.  The modules of the programs extend this   *)
(* one.  Creating and joining are those of hello_iw_shr.c.                 *)
(***************************************************************************)
EXTENDS Integers, Sequences, FiniteSets, FiniteSetsExt

CONSTANT ThreadCount   \* thread_count, the number of threads

VARIABLES program,  \* the program that runs, named like its file; it never changes
          main,     \* where main is, the index and bound of its loop, its error
          at,       \* at[t]: where thread t is
          shared,   \* what main and the threads share, with the fields of the program
          output    \* what was reported of each thread, in the order of printing

vars == <<program, main, at, shared, output>>

Threads == 0..ThreadCount - 1

(* A program starts with no thread and whatever its globals are.           *)
Starts(data) ==
  /\ main = [at |-> "start", next |-> 0, count |-> ThreadCount, error |-> FALSE]
  /\ at = [t \in Threads |-> "unborn"]
  /\ shared = data
  /\ output = <<>>

Running == main.at \notin {"ended", "undefined"}

MainGoes(from, to) ==
  main.at = from /\ main' = [main EXCEPT !.at = to, !.next = 0]

MainFails(from, to) ==
  main.at = from /\ main' = [main EXCEPT !.at = to, !.next = 0, !.error = TRUE]

Passes(from, to) == MainGoes(from, to) /\ UNCHANGED <<at, shared, output>>

CreateNext(first) ==
  /\ main.at = "create" /\ main.next < ThreadCount
  /\ main' = [main EXCEPT !.next = @ + 1]
  /\ at' = [at EXCEPT ![main.next] = first]
  /\ UNCHANGED output

(* A faulty variant, used by no specification: a thread is joined whether  *)
(* or not it has ended.                                                    *)
JoinNextWithoutWaiting ==
  /\ main.at = "join" /\ main.next < main.count
  /\ \/ at[main.next] # "unborn" /\ main' = [main EXCEPT !.next = @ + 1]
     \/ at[main.next] = "unborn" /\ MainGoes("join", "undefined")
  /\ UNCHANGED <<at, output>>

JoinNext ==
  /\ main.at = "join" /\ main.next < main.count
  /\ \/ at[main.next] = "done" /\ main' = [main EXCEPT !.next = @ + 1]
     \/ at[main.next] = "unborn" /\ MainGoes("join", "undefined")
  /\ UNCHANGED <<at, output>>

JoinEnds(to) == main.next = main.count /\ Passes("join", to)

Goes(t, from, to) ==
  at[t] = from /\ at' = [at EXCEPT ![t] = to] /\ UNCHANGED main

Report(t, what) == output' = Append(output, [by |-> t, says |-> what])

Field(name, value) == shared' = [shared EXCEPT ![name] = value]

-----------------------------------------------------------------------------
(* A step of main or of a thread of the program that runs.                 *)
Step(action) == Running /\ UNCHANGED program /\ action

(* main has not come further than its loops, nor the threads elsewhere.    *)
CommonTypes(points) ==
  /\ main.at \in {"start", "create", "join", "print", "free", "freed", "ended", "undefined"}
  /\ main.next \in 0..ThreadCount /\ main.count \in 0..ThreadCount
  /\ main.error \in BOOLEAN
  /\ at \in [Threads -> points \cup {"unborn", "done"}]
  /\ \A i \in DOMAIN output : output[i].by \in Threads
=============================================================================
