-------------------------------- MODULE Shutdown --------------------------------
(***************************************************************************)
(* src/src/shutdown.rs at the grain of its atomics.                        *)
(*                                                                         *)
(* Every access to SHUTTING_DOWN and IN_FLIGHT is SeqCst, so one load, one *)
(* store or one read-modify-write is one step, and steps of different      *)
(* threads interleave in a single order. `enter` is a load, an increment   *)
(* and a second load; dropping a token is a decrement and, when it was the *)
(* last, a notification; the signal handler stores the flag, then loops    *)
(* over "subscribe, load the counter, wait".                               *)
(***************************************************************************)
EXTENDS Naturals, FiniteSets

CONSTANT Tasks   \* the D-Bus calls and listener reactions that call enter()

ASSUME TasksAssumption == IsFiniteSet(Tasks)

VARIABLES
  shuttingDown,  \* SHUTTING_DOWN
  inFlight,      \* IN_FLIGHT
  pc,            \* where each task stands in enter(), in its transaction or in drop()
  handler,       \* where the signal task stands
  woken          \* DRAINED.notify_waiters() ran since the handler's notified() call

vars == <<shuttingDown, inFlight, pc, handler, woken>>

TaskState == {"idle", "loaded", "counted", "running", "dropping", "notifying"}
HandlerState == {"listening", "subscribing", "checking", "waiting", "drained", "exited"}

TypeOK ==
  /\ shuttingDown \in BOOLEAN
  /\ inFlight \in Nat
  /\ pc \in [Tasks -> TaskState]
  /\ handler \in HandlerState
  /\ woken \in BOOLEAN

Init ==
  /\ shuttingDown = FALSE
  /\ inFlight = 0
  /\ pc = [t \in Tasks |-> "idle"]
  /\ handler = "listening"
  /\ woken = FALSE

\* process::exit has run: no thread takes another step.
Alive == handler # "exited"

Step(t, from, to) ==
  /\ Alive
  /\ pc[t] = from
  /\ pc' = [pc EXCEPT ![t] = to]

--------------------------------------------------------------------------------
(* enter() *)

\* The first load of SHUTTING_DOWN: a refusal here has counted nothing.
EnterLoad(t) ==
  /\ ~shuttingDown
  /\ Step(t, "idle", "loaded")
  /\ UNCHANGED <<shuttingDown, inFlight, handler, woken>>

\* Mutant: the token is handed out and the increment forgotten.
EnterUncounted(t) ==
  /\ Step(t, "loaded", "counted")
  /\ UNCHANGED <<shuttingDown, inFlight, handler, woken>>

\* IN_FLIGHT.fetch_add(1); the token exists from here on.
EnterCount(t) ==
  /\ Step(t, "loaded", "counted")
  /\ inFlight' = inFlight + 1
  /\ UNCHANGED <<shuttingDown, handler, woken>>

\* Mutant: no second load.
EnterUnchecked(t) ==
  /\ Step(t, "counted", "running")
  /\ UNCHANGED <<shuttingDown, inFlight, handler, woken>>

\* Mutant: the refusal forgets its token (mem::forget) instead of dropping it.
EnterLeaks(t) ==
  /\ Step(t, "counted", IF shuttingDown THEN "idle" ELSE "running")
  /\ UNCHANGED <<shuttingDown, inFlight, handler, woken>>

\* Mutant: the refusal takes its count back by hand and tells nobody.
EnterUncounts(t) ==
  /\ Step(t, "counted", IF shuttingDown THEN "idle" ELSE "running")
  /\ inFlight' = IF shuttingDown THEN inFlight - 1 ELSE inFlight
  /\ UNCHANGED <<shuttingDown, handler, woken>>

\* The second load: granted, or refused with the token dropped on the way out.
EnterRecheck(t) ==
  /\ Step(t, "counted", IF shuttingDown THEN "dropping" ELSE "running")
  /\ UNCHANGED <<shuttingDown, inFlight, handler, woken>>

(* The transaction, and Drop for InFlight *)

\* The caller's scope ends, by a return, an error or a panic.
Finish(t) ==
  /\ Step(t, "running", "dropping")
  /\ UNCHANGED <<shuttingDown, inFlight, handler, woken>>

\* Mutant: the old value is taken for the new one, and nobody notifies.
DropCountsAfter(t) ==
  /\ Step(t, "dropping", IF inFlight = 0 THEN "notifying" ELSE "idle")
  /\ inFlight' = inFlight - 1
  /\ UNCHANGED <<shuttingDown, handler, woken>>

\* IN_FLIGHT.fetch_sub(1) == 1 decides whether this drop notifies.
DropCount(t) ==
  /\ Step(t, "dropping", IF inFlight = 1 THEN "notifying" ELSE "idle")
  /\ inFlight' = inFlight - 1
  /\ UNCHANGED <<shuttingDown, handler, woken>>

\* A Notified is woken by any notify_waiters() after its creation, awaited or not.
Wake == woken' = (woken \/ handler \in {"checking", "waiting"})

\* DRAINED.notify_waiters().
DropNotify(t) ==
  /\ Step(t, "notifying", "idle")
  /\ Wake
  /\ UNCHANGED <<shuttingDown, inFlight, handler>>

--------------------------------------------------------------------------------
(* spawn_signal_handler(), begin_shutdown() and wait_drained() *)

HandlerStep(from, to) ==
  /\ handler = from
  /\ handler' = to
  /\ UNCHANGED pc

\* SIGTERM or SIGINT reaches the task, which calls begin_shutdown().
BeginShutdown ==
  /\ HandlerStep("listening", "subscribing")
  /\ shuttingDown' = TRUE
  /\ UNCHANGED <<inFlight, woken>>

\* `let notified = DRAINED.notified()`, a fresh future on each turn of the loop.
Subscribe ==
  /\ HandlerStep("subscribing", "checking")
  /\ woken' = FALSE
  /\ UNCHANGED <<shuttingDown, inFlight>>

\* Mutant: the drain is off by one.
CheckAlmostDrained ==
  /\ HandlerStep("checking", IF inFlight <= 1 THEN "drained" ELSE "waiting")
  /\ UNCHANGED <<shuttingDown, inFlight, woken>>

\* The load of IN_FLIGHT.
CheckDrained ==
  /\ HandlerStep("checking", IF inFlight = 0 THEN "drained" ELSE "waiting")
  /\ UNCHANGED <<shuttingDown, inFlight, woken>>

\* `notified.await` completes and the loop turns.
AwaitNotified ==
  /\ woken
  /\ HandlerStep("waiting", "subscribing")
  /\ UNCHANGED <<shuttingDown, inFlight, woken>>

\* std::process::exit(0), a while after the load that saw zero.
Exit ==
  /\ HandlerStep("drained", "exited")
  /\ UNCHANGED <<shuttingDown, inFlight, woken>>

--------------------------------------------------------------------------------
TaskNext(t) ==
  \/ EnterLoad(t)
  \/ EnterCount(t)
  \/ EnterRecheck(t)
  \/ Finish(t)
  \/ DropCount(t)
  \/ DropNotify(t)

HandlerNext ==
  \/ BeginShutdown
  \/ Subscribe
  \/ CheckDrained
  \/ AwaitNotified
  \/ Exit

Next == HandlerNext \/ \E t \in Tasks : TaskNext(t)

\* The runtime polls every ready task. Finish is fair because a rebuild ends:
\* the code has no deadline of its own and says so. No call has to be made and
\* no signal has to come, so EnterLoad and BeginShutdown are left unfair.
Fairness ==
  /\ \A t \in Tasks :
       /\ WF_vars(EnterCount(t))
       /\ WF_vars(EnterRecheck(t))
       /\ WF_vars(Finish(t))
       /\ WF_vars(DropCount(t))
       /\ WF_vars(DropNotify(t))
  /\ WF_vars(Subscribe)
  /\ WF_vars(CheckDrained)
  /\ WF_vars(AwaitNotified)
  /\ WF_vars(Exit)

SafeSpec == Init /\ [][Next]_vars
Spec == SafeSpec /\ Fairness

--------------------------------------------------------------------------------
(* Properties *)

Running == {t \in Tasks : pc[t] = "running"}
TokenHolders == {t \in Tasks : pc[t] \in {"counted", "running", "dropping"}}

\* Once wait_drained has returned, no transaction runs, and none has started in
\* the gap between its load of the counter and the exit: a transaction is never
\* killed by the daemon's own shutdown (shutdown.rs, module documentation).
NoTransactionPastDrain == handler \in {"drained", "exited"} => Running = {}

\* IN_FLIGHT counts the live tokens exactly, a refused caller's included, so the
\* counter never passes below zero and zero means nobody.
CounterIsExact == inFlight = Cardinality(TokenHolders)

\* A handler that waits is owed a wake-up: some token is still out, some drop is
\* about to notify, or the notification already came. wait_drained would sleep
\* for ever otherwise.
WaitIsOwedWake ==
  handler = "waiting" =>
    \/ woken
    \/ TokenHolders # {}
    \/ \E t \in Tasks : pc[t] = "notifying"

\* A termination signal ends the process, whatever was in flight and however the
\* drops interleave with wait_drained.
DrainTerminates == shuttingDown ~> ~Alive

\* The gate this module implements.
Gate == INSTANCE DrainGate WITH
  closed <- shuttingDown,
  admitted <- Running,
  exited <- ~Alive

ImplementsGate == Gate!Spec
================================================================================
