------------------------------ MODULE MpiProcesses ------------------------------
(***************************************************************************)
(* What the MPI programs of the repository have in common: processes of    *)
(* one communicator that send, receive and take part in collective calls.  *)
(* MPI is a library: this module is what the programs rely on.  Between    *)
(* two processes messages keep their order.  A standard send may wait      *)
(* until its message is received or return at once, and a process leaves   *)
(* a collective call when those it depends on have entered it, or only     *)
(* when all of them have.                                                  *)
(***************************************************************************)
EXTENDS Integers, Sequences, FiniteSets, FiniteSetsExt, Functions

CONSTANT MostProcesses  \* no communicator has more

VARIABLES program,  \* the program that runs, named like its file; it never changes
          input,    \* its arguments and the file they name; it never changes
          at,       \* at[p]: where process p is
          local,    \* local[p]: the variables of process p, fields of the program
          mail,     \* mail[p][q]: what p has sent to q and q has not received
          entered,  \* entered[p]: what p gave to its collective calls, one by one
          waits,    \* waits[p]: the receipt, or the entries, p's last call waits for
          output    \* what the processes printed, in order

vars == <<program, input, at, local, mail, entered, waits, output>>
communication == <<mail, entered, waits>>

Ranks == 0..MostProcesses - 1
Processes == DOMAIN at
Count == Cardinality(Processes)   \* process_count, size, world_size

Starts(count) ==
  LET processes == 0..count - 1 IN
  /\ at = [p \in processes |-> "start"]
  /\ local = [p \in processes |-> <<>>]
  /\ mail = [p \in processes |-> [q \in processes |-> <<>>]]
  /\ entered = [p \in processes |-> <<>>]
  /\ waits = [p \in processes |-> [receipt |-> {}, entry |-> {}]]
  /\ output = <<>>

Received(p) == \A q \in waits[p].receipt : mail[p][q] = <<>>
AllEntered(p) == \A q \in waits[p].entry : Len(entered[q]) >= Len(entered[p])

(* Its last call of MPI lets p go on.                                      *)
Returned(p) == Received(p) /\ AllEntered(p)

Goes(p, from, to) ==
  at[p] = from /\ Returned(p) /\ at' = [at EXCEPT ![p] = to]

Keep(p, data) == local' = [local EXCEPT ![p] = data]
Says(p, what) == output' = Append(output, [by |-> p, says |-> what])
Quietly == UNCHANGED output
Computes == UNCHANGED communication

PutsMail(p, q, what, receipt) ==
  /\ mail' = [mail EXCEPT ![p][q] = Append(@, what)]
  /\ waits' = [waits EXCEPT ![p] = [receipt |-> receipt, entry |-> {}]]
  /\ UNCHANGED entered

Sends(p, q, what) == \E receipt \in {{}, {q}} : PutsMail(p, q, what, receipt)
SendsSynchronously(p, q, what) == PutsMail(p, q, what, {q})

Receives(p, q, what) ==
  /\ mail[q][p] # <<>> /\ what = Head(mail[q][p])
  /\ mail' = [mail EXCEPT ![q][p] = Tail(@)]
  /\ UNCHANGED <<entered, waits>>

Mail(q, p) == IF mail[q][p] = <<>> THEN {} ELSE {Head(mail[q][p])}

(* p enters a collective call, which it may leave when the processes       *)
(* needed, or all of them, have entered it as well.                        *)
Enters(p, what, needed) ==
  /\ entered' = [entered EXCEPT ![p] = Append(@, what)]
  /\ \E others \in {needed, Processes} :
       waits' = [waits EXCEPT ![p] = [receipt |-> {}, entry |-> others]]
  /\ UNCHANGED mail

Broadcasts(p, what) == Enters(p, what, {0} \ {p})
Scatters(p, parts) == Enters(p, parts, {0} \ {p})
Reduces(p, what) == Enters(p, what, IF p = 0 THEN Processes ELSE {})
ReducesToAll(p, what) == Enters(p, what, Processes)
Meets(p) == Enters(p, "barrier", Processes)

(* What the collective call that p has left gave it.                       *)
FromRoot(p) == entered[0][Len(entered[p])]
FromAll(p) == [q \in Processes |-> entered[q][Len(entered[p])]]

AbortAll(p) ==
  /\ at' = [q \in Processes |-> "aborted"]
  /\ UNCHANGED <<local, output>> /\ Computes

-----------------------------------------------------------------------------
Ended(p) == at[p] \in {"ended", "failed", "aborted"} /\ (at[p] = "aborted" \/ Returned(p))

(* A step of a process of the program that runs.                           *)
Step(action) == UNCHANGED <<program, input>> /\ action

CommonTypes(points) ==
  /\ \A p \in Processes :
       /\ at[p] \in points \cup {"start", "ended", "failed", "aborted"}
       /\ waits[p].receipt \subseteq Processes /\ waits[p].entry \subseteq Processes
       /\ waits[p].receipt = {} \/ waits[p].entry = {}
  /\ \A i \in DOMAIN output : output[i].by \in Processes
=============================================================================
