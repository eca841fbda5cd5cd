------------------------------- MODULE MCThreads -------------------------------
(***************************************************************************)
(* Small instances of the thread programs.  A team has three threads, the  *)
(* water four atoms, the dance five dancers, and the bounded buffer two    *)
(* places for three rounds.  A heat simulation has a job of two plates at  *)
(* most, with a line too few, or too many, in some.  The web server has    *)
(* two clients and two addresses to try, and the sort a vector of at most  *)
(* four elements, some of them equal.                                      *)
(*                                                                         *)
(* The linked queue is a library of its own.  Two callers use it when the  *)
(* shortest of the programs, the sort of an empty vector, has ended: one   *)
(* run asks of both, without the product of their states.                  *)
(***************************************************************************)
EXTENDS ThreadPrograms, LinkedQueue

QueueIsUsed == program \in Sorting!Programs /\ main.at = "ended" /\ shared.given = <<>>

ThreadsInit == ProgramsInit /\ Init

ThreadsNext == \/ ProgramsNext /\ UNCHANGED vars
               \/ QueueIsUsed /\ Next /\ UNCHANGED programVars

ThreadsSpec == /\ ThreadsInit /\ [][ThreadsNext]_<<programVars, vars>>
               /\ WF_programVars(MainSteps)
               /\ \A t \in MostThreads : WF_programVars(ThreadSteps(t))

MCHits == {0, 1, 3}
MCJobs == [newlines : 0..2,
           plates : UNION {[1..n -> {"whole", "short", "missing"}] : n \in 0..2}]

Asked(asks, keepAlive, announces, segments, hangsUp) ==
  [asks |-> asks, keepAlive |-> keepAlive, announces |-> announces,
   segments |-> segments, hangsUp |-> hangsUp]

(* Requests that arrive whole, in parts, cut within a line, with a body    *)
(* apart or together with the header, and not at all.                      *)
MCRequests == {
  Asked("home", TRUE, FALSE, <<<<"request", "header", "end">>>>, FALSE),
  Asked("fact", FALSE, FALSE, <<<<"request">>, <<"header", "end">>>>, TRUE),
  Asked("other", TRUE, FALSE, <<<<"request", "piece">>, <<"piece", "end">>>>, FALSE),
  Asked("home", TRUE, FALSE, <<<<"piece">>, <<"piece", "end">>>>, TRUE),
  Asked("other", FALSE, TRUE, <<<<"request", "end">>, <<"body">>>>, FALSE),
  Asked("other", TRUE, TRUE, <<<<"request", "end", "body">>>>, FALSE),
  Asked("home", TRUE, FALSE, <<>>, TRUE)}

MCVectors == UNION {[1..n -> 0..2] : n \in 0..4}
=============================================================================
