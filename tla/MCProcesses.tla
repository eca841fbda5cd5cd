------------------------------ MODULE MCProcesses ------------------------------
(***************************************************************************)
(* Small instances of the MPI programs.  The numbers of the ring are       *)
(* powers of two, so a sum tells what was added.  Ranges are empty,        *)
(* smaller than the processes, and with a rest; a job has fewer lines than *)
(* processes, as many, and a rest.                                         *)
(***************************************************************************)
EXTENDS ProcessPrograms

MCCountsOf == [ring |-> {3, 4}, relay_race_dist |-> {4, 5},
               ping_pong_perfect |-> {1, 2}, ping_pong_realistic |-> {1, 2},
               send_recv_ord_sem |-> {1, 3}, hello_task_sep |-> {1, 2},
               lucky_number_who |-> {2, 3}, lucky_number_reduce |-> {2, 3},
               hybrid_distr_arg |-> {2, 3}, hybrid_distr_bcast |-> {2, 3}]
MCRingNumbers == [p \in 0..3 |-> {2^p}]
MCRanges == {<<0, 0>>, <<1, 2>>, <<2, 10>>}
MCShapes == {<<1, 2>>, <<2, 1>>, <<2, 2>>, <<2, 4>>, <<3, 3>>, <<3, 4>>}

(* For the run that refutes a promise: the only program it is about, with  *)
(* the example of its README.                                              *)
MCOnlyHybrid == [name \in DOMAIN MCCountsOf |-> IF name = "hybrid_distr_arg" THEN {2} ELSE {}]
MCExample == {<<3, 20>>}
=============================================================================
