------------------------------- MODULE DrainGate -------------------------------
(***************************************************************************)
(* What src/src/shutdown.rs promises to its callers, apart from how: a     *)
(* gate through which transactions are admitted, that closes once and for  *)
(* good, and behind which the process ends only when everything it         *)
(* admitted has left.                                                      *)
(*                                                                         *)
(* Module Shutdown, which follows the atomics of the code step by step,    *)
(* implements this specification; modules that compose the gate with the   *)
(* rest of the daemon use it at this grain.                                *)
(***************************************************************************)
CONSTANT Tasks

VARIABLES
  closed,    \* a termination signal was seen
  admitted,  \* the tasks that hold an InFlight token they were granted
  exited     \* the process ended of its own accord

gateVars == <<closed, admitted, exited>>

TypeOK ==
  /\ closed \in BOOLEAN
  /\ admitted \subseteq Tasks
  /\ exited \in BOOLEAN

Init ==
  /\ closed = FALSE
  /\ admitted = {}
  /\ exited = FALSE

\* A task is admitted while the gate is open.
Admit(t) ==
  /\ ~closed
  /\ t \notin admitted
  /\ admitted' = admitted \cup {t}
  /\ UNCHANGED <<closed, exited>>

\* An admitted task leaves. Closing the gate does not hurry it.
Leave(t) ==
  /\ t \in admitted
  /\ ~exited
  /\ admitted' = admitted \ {t}
  /\ UNCHANGED <<closed, exited>>

\* The gate closes, for good.
Close ==
  /\ ~closed
  /\ closed' = TRUE
  /\ UNCHANGED <<admitted, exited>>

\* The process ends: only a closed gate with nobody behind it allows it.
Exit ==
  /\ closed
  /\ admitted = {}
  /\ ~exited
  /\ exited' = TRUE
  /\ UNCHANGED <<closed, admitted>>

Next ==
  \/ \E t \in Tasks : Admit(t) \/ Leave(t)
  \/ Close
  \/ Exit

\* Admitted work ends, and a drained process does not linger.
Fairness ==
  /\ \A t \in Tasks : WF_gateVars(Leave(t))
  /\ WF_gateVars(Exit)

SafeSpec == Init /\ [][Next]_gateVars
Spec == SafeSpec /\ Fairness
================================================================================
