------------------------------- MODULE MCShutdown -------------------------------
(* Shutdown with three tasks: two can race on the last drop while a third is   *)
(* between the two loads of enter().                                           *)
EXTENDS Shutdown

CONSTANTS t1, t2, t3

MCTasks == {t1, t2, t3}
================================================================================
