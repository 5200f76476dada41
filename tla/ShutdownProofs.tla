----------------------------- MODULE ShutdownProofs -----------------------------
(***************************************************************************)
(* The drain of src/src/shutdown.rs is safe for any finite set of tasks,   *)
(* and implements the gate of module DrainGate.                            *)
(*                                                                         *)
(* The argument: IN_FLIGHT counts the live tokens exactly (CounterIsExact) *)
(* and the flag is up whenever the handler is past its signal              *)
(* (FlagFollowsHandler). So when the handler's load sees zero nobody holds *)
(* a token, and nobody can be granted one later, because the second load   *)
(* of enter() sees the flag.                                               *)
(***************************************************************************)
EXTENDS Shutdown, FiniteSetTheorems, TLAPS

\* SHUTTING_DOWN is set exactly from begin_shutdown() on.
FlagFollowsHandler == shuttingDown <=> handler # "listening"

IInv ==
  /\ TypeOK
  /\ FlagFollowsHandler
  /\ CounterIsExact
  /\ NoTransactionPastDrain
  /\ WaitIsOwedWake

--------------------------------------------------------------------------------
(* Type correctness *)

\* At the start no token is out, the flag is down and nobody waits.
LEMMA InitInductive == Init => IInv
<1> SUFFICES ASSUME Init PROVE IInv
  OBVIOUS
<1>1. TypeOK /\ FlagFollowsHandler
  BY DEF Init, TypeOK, FlagFollowsHandler, TaskState, HandlerState
<1>2. TokenHolders = {}
  BY DEF Init, TokenHolders
<1>3. CounterIsExact
  BY <1>2, FS_EmptySet DEF Init, CounterIsExact
<1>4. NoTransactionPastDrain /\ WaitIsOwedWake
  BY DEF Init, NoTransactionPastDrain, WaitIsOwedWake
<1> QED
  BY <1>1, <1>3, <1>4 DEF IInv

\* The tasks that hold a token are finitely many, and there are none exactly
\* when the counter is zero.
LEMMA HoldersFinite ==
  ASSUME TypeOK, CounterIsExact
  PROVE  /\ IsFiniteSet(TokenHolders)
         /\ Cardinality(TokenHolders) \in Nat
         /\ inFlight = 0 <=> TokenHolders = {}
<1>1. TokenHolders \subseteq Tasks
  BY DEF TokenHolders
<1>2. IsFiniteSet(TokenHolders)
  BY <1>1, TasksAssumption, FS_Subset
<1> QED
  BY <1>2, FS_CardinalityType, FS_EmptySet DEF CounterIsExact

\* A step that moves one task between two states outside, or two states inside,
\* the token's life leaves the set of holders as it is.
LEMMA HoldersKept ==
  ASSUME TypeOK, NEW t \in Tasks, NEW s \in TaskState,
         pc' = [pc EXCEPT ![t] = s],
         pc[t] \in {"counted", "running", "dropping"} <=> s \in {"counted", "running", "dropping"}
  PROVE  TokenHolders' = TokenHolders
BY DEF TypeOK, TokenHolders

\* fetch_add counts the task that becomes a holder ...
LEMMA HolderAdded ==
  ASSUME TypeOK, NEW t \in Tasks, pc[t] = "loaded", pc' = [pc EXCEPT ![t] = "counted"]
  PROVE  t \notin TokenHolders /\ TokenHolders' = TokenHolders \cup {t}
BY DEF TypeOK, TokenHolders

\* ... and fetch_sub one that was a holder.
LEMMA HolderRemoved ==
  ASSUME TypeOK, NEW t \in Tasks, NEW s \in {"notifying", "idle"},
         pc[t] = "dropping", pc' = [pc EXCEPT ![t] = s]
  PROVE  t \in TokenHolders /\ TokenHolders' = TokenHolders \ {t}
BY DEF TypeOK, TokenHolders

--------------------------------------------------------------------------------
(* The steps of a task *)

\* The first load of enter() decides nothing yet.
LEMMA EnterLoadInductive ==
  ASSUME IInv, NEW t \in Tasks, EnterLoad(t)
  PROVE  IInv'
<1> USE DEF IInv, EnterLoad, Step
<1>1. TokenHolders' = TokenHolders
  BY HoldersKept DEF TaskState
<1>2. TypeOK' /\ FlagFollowsHandler' /\ CounterIsExact'
  BY <1>1 DEF TypeOK, TaskState, HandlerState, FlagFollowsHandler, CounterIsExact
<1>3. NoTransactionPastDrain'
  BY DEF NoTransactionPastDrain, FlagFollowsHandler
<1>4. WaitIsOwedWake'
  BY DEF WaitIsOwedWake, FlagFollowsHandler
<1> QED
  BY <1>2, <1>3, <1>4

\* The task is counted before it may be admitted.
LEMMA EnterCountInductive ==
  ASSUME IInv, NEW t \in Tasks, EnterCount(t)
  PROVE  IInv'
<1> USE DEF IInv, EnterCount, Step
<1>1. t \notin TokenHolders /\ TokenHolders' = TokenHolders \cup {t}
  BY HolderAdded
<1>2. TypeOK' /\ FlagFollowsHandler'
  BY DEF TypeOK, TaskState, HandlerState, FlagFollowsHandler
<1>3. CounterIsExact'
  BY <1>1, HoldersFinite, FS_AddElement DEF CounterIsExact
<1>4. NoTransactionPastDrain'
  BY DEF NoTransactionPastDrain, Running, TypeOK
<1>5. WaitIsOwedWake'
  BY <1>1 DEF WaitIsOwedWake
<1> QED
  BY <1>2, <1>3, <1>4, <1>5

\* The second load admits a task only while the flag is down, so the drain, which
\* raised it first, still sees the token.
LEMMA EnterRecheckInductive ==
  ASSUME IInv, NEW t \in Tasks, EnterRecheck(t)
  PROVE  IInv'
<1> USE DEF IInv, EnterRecheck, Step
<1>1. TokenHolders' = TokenHolders
  BY HoldersKept DEF TaskState
<1>2. TypeOK' /\ FlagFollowsHandler' /\ CounterIsExact'
  BY <1>1 DEF TypeOK, TaskState, HandlerState, FlagFollowsHandler, CounterIsExact
<1>3. NoTransactionPastDrain'
  \* The second load: granted only while the handler still listens.
  BY DEF NoTransactionPastDrain, FlagFollowsHandler, Running, TypeOK
<1>4. WaitIsOwedWake'
  <2>1. t \in TokenHolders
    BY DEF TokenHolders
  <2> QED
    BY <1>1, <2>1 DEF WaitIsOwedWake
<1> QED
  BY <1>2, <1>3, <1>4

\* The end of the scope keeps the token until the drop.
LEMMA FinishInductive ==
  ASSUME IInv, NEW t \in Tasks, Finish(t)
  PROVE  IInv'
<1> USE DEF IInv, Finish, Step
<1>1. TokenHolders' = TokenHolders
  BY HoldersKept DEF TaskState
<1>2. TypeOK' /\ FlagFollowsHandler' /\ CounterIsExact'
  BY <1>1 DEF TypeOK, TaskState, HandlerState, FlagFollowsHandler, CounterIsExact
<1>3. NoTransactionPastDrain'
  BY DEF NoTransactionPastDrain, Running, TypeOK
<1>4. WaitIsOwedWake'
  <2>1. t \in TokenHolders
    BY DEF TokenHolders
  <2> QED
    BY <1>1, <2>1 DEF WaitIsOwedWake
<1> QED
  BY <1>2, <1>3, <1>4

\* The decrement that leaves zero is followed by the notification of the same drop.
LEMMA DropCountInductive ==
  ASSUME IInv, NEW t \in Tasks, DropCount(t)
  PROVE  IInv'
<1> USE DEF IInv, DropCount, Step
<1>1. t \in TokenHolders /\ TokenHolders' = TokenHolders \ {t}
  BY HolderRemoved
<1>2. inFlight \in Nat \ {0}
  BY <1>1, HoldersFinite DEF TypeOK
<1>3. TypeOK' /\ FlagFollowsHandler'
  BY <1>2 DEF TypeOK, TaskState, HandlerState, FlagFollowsHandler
<1>4. /\ IsFiniteSet(TokenHolders')
      /\ CounterIsExact'
  BY <1>1, HoldersFinite, FS_RemoveElement DEF CounterIsExact
<1>5. NoTransactionPastDrain'
  BY DEF NoTransactionPastDrain, Running, TypeOK
<1>6. WaitIsOwedWake'
  <2>1. CASE inFlight = 1
    BY <2>1 DEF TypeOK, WaitIsOwedWake
  <2>2. CASE inFlight # 1
    <3>1. Cardinality(TokenHolders') # 0
      BY <1>2, <1>4, <2>2 DEF CounterIsExact
    <3>2. TokenHolders' # {}
      BY <3>1, FS_EmptySet
    <3> QED
      BY <3>2 DEF WaitIsOwedWake
  <2> QED
    BY <2>1, <2>2
<1> QED
  BY <1>3, <1>4, <1>5, <1>6

\* notify_waiters() wakes the handler if it has subscribed.
LEMMA DropNotifyInductive ==
  ASSUME IInv, NEW t \in Tasks, DropNotify(t)
  PROVE  IInv'
<1> USE DEF IInv, DropNotify, Step, Wake
<1>1. TokenHolders' = TokenHolders
  BY HoldersKept DEF TaskState
<1>2. TypeOK' /\ FlagFollowsHandler' /\ CounterIsExact'
  BY <1>1 DEF TypeOK, TaskState, HandlerState, FlagFollowsHandler, CounterIsExact
<1>3. NoTransactionPastDrain'
  BY DEF NoTransactionPastDrain, Running, TypeOK
<1>4. WaitIsOwedWake'
  BY DEF WaitIsOwedWake, TypeOK
<1> QED
  BY <1>2, <1>3, <1>4

--------------------------------------------------------------------------------
(* The steps of the signal handler *)

\* The handler raises the flag before it subscribes, and subscribes before it loads.
LEMMA HandlerInductive ==
  ASSUME IInv, HandlerNext
  PROVE  IInv'
<1> USE DEF IInv, HandlerStep
<1>1. pc' = pc /\ inFlight' = inFlight
  BY DEF HandlerNext, BeginShutdown, Subscribe, CheckDrained, AwaitNotified, Exit
<1>2. TokenHolders' = TokenHolders /\ Running' = Running
  BY <1>1 DEF TokenHolders, Running
<1>3. TypeOK' /\ FlagFollowsHandler'
  BY DEF HandlerNext, BeginShutdown, Subscribe, CheckDrained, AwaitNotified, Exit,
         TypeOK, TaskState, HandlerState, FlagFollowsHandler
<1>4. CounterIsExact'
  BY <1>1, <1>2 DEF CounterIsExact
<1>5. NoTransactionPastDrain'
  <2>1. CASE CheckDrained
    <3>1. inFlight = 0 => Running = {}
      BY HoldersFinite DEF TokenHolders, Running
    <3> QED
      BY <1>2, <2>1, <3>1 DEF CheckDrained, NoTransactionPastDrain
  <2>2. CASE Exit
    BY <1>2, <2>2 DEF Exit, NoTransactionPastDrain
  <2>3. CASE BeginShutdown \/ Subscribe \/ AwaitNotified
    BY <2>3 DEF BeginShutdown, Subscribe, AwaitNotified, NoTransactionPastDrain
  <2> QED
    BY <2>1, <2>2, <2>3 DEF HandlerNext
<1>6. WaitIsOwedWake'
  <2>1. CASE CheckDrained
    <3>1. inFlight # 0 => TokenHolders # {}
      BY HoldersFinite
    <3> QED
      BY <1>2, <2>1, <3>1 DEF CheckDrained, WaitIsOwedWake
  <2>2. CASE BeginShutdown \/ Subscribe \/ AwaitNotified \/ Exit
    BY <2>2 DEF BeginShutdown, Subscribe, AwaitNotified, Exit, WaitIsOwedWake
  <2> QED
    BY <2>1, <2>2 DEF HandlerNext
<1> QED
  BY <1>3, <1>4, <1>5, <1>6

\* Every step keeps the invariant.
LEMMA NextInductive == IInv /\ [Next]_vars => IInv'
<1> SUFFICES ASSUME IInv, [Next]_vars PROVE IInv'
  OBVIOUS
<1>1. ASSUME NEW t \in Tasks, TaskNext(t) PROVE IInv'
  BY <1>1, EnterLoadInductive, EnterCountInductive, EnterRecheckInductive,
     FinishInductive, DropCountInductive, DropNotifyInductive DEF TaskNext
<1>2. CASE HandlerNext
  BY <1>2, HandlerInductive
<1>3. CASE UNCHANGED vars
  BY <1>3 DEF vars, IInv, TypeOK, FlagFollowsHandler, CounterIsExact, TokenHolders,
              NoTransactionPastDrain, Running, WaitIsOwedWake
<1> QED
  BY <1>1, <1>2, <1>3 DEF Next

--------------------------------------------------------------------------------
(* The theorems *)

\* The invariant holds throughout.
LEMMA Inductive == SafeSpec => []IInv
BY InitInductive, NextInductive, PTL DEF SafeSpec

\* Every variable of the drain keeps its type, IN_FLIGHT never going below zero
\* although drop() subtracts from it unconditionally.
THEOREM TypeCorrect == SafeSpec => []TypeOK
<1>1. IInv => TypeOK
  BY DEF IInv
<1> QED
  BY <1>1, Inductive, PTL

\* No transaction runs once wait_drained has returned, nor starts before the
\* exit: the daemon's own shutdown never kills a transaction in the middle.
THEOREM DrainIsSafe == SafeSpec => []NoTransactionPastDrain
<1>1. IInv => NoTransactionPastDrain
  BY DEF IInv
<1> QED
  BY <1>1, Inductive, PTL

\* IN_FLIGHT is the number of tokens alive, between any two atomic operations.
THEOREM CounterCorrect == SafeSpec => []CounterIsExact
<1>1. IInv => CounterIsExact
  BY DEF IInv
<1> QED
  BY <1>1, Inductive, PTL

\* wait_drained never sleeps without a wake-up on its way: the Notified created
\* before the load of the counter cannot miss the last drop.
THEOREM NoLostWake == SafeSpec => []WaitIsOwedWake
<1>1. IInv => WaitIsOwedWake
  BY DEF IInv
<1> QED
  BY <1>1, Inductive, PTL

\* Every step of the atomics is a step of the abstract gate or leaves it as it
\* is: the second load of enter() is where a task is admitted, the end of its
\* scope where it leaves, the store of the flag where the gate closes.
THEOREM ImplementsGateSafely == SafeSpec => Gate!SafeSpec
<1>1. Init => Gate!Init
  BY DEF Init, Gate!Init, Running, Alive
<1>2. IInv /\ [Next]_vars => [Gate!Next]_(Gate!gateVars)
  <2> SUFFICES ASSUME IInv, [Next]_vars
               PROVE  Gate!Next \/ UNCHANGED Gate!gateVars
    OBVIOUS
  <2> USE DEF IInv, TypeOK, Gate!gateVars, Running, Alive
  <2>1. ASSUME NEW t \in Tasks, EnterLoad(t) \/ EnterCount(t) \/ DropCount(t) \/ DropNotify(t)
        PROVE  UNCHANGED Gate!gateVars
    BY <2>1 DEF EnterLoad, EnterCount, DropCount, DropNotify, Step
  <2>2. ASSUME NEW t \in Tasks, EnterRecheck(t)
        PROVE  Gate!Admit(t) \/ UNCHANGED Gate!gateVars
    BY <2>2 DEF EnterRecheck, Step, Gate!Admit
  <2>3. ASSUME NEW t \in Tasks, Finish(t)
        PROVE  Gate!Leave(t)
    BY <2>3 DEF Finish, Step, Gate!Leave
  <2>4. CASE BeginShutdown
    BY <2>4 DEF BeginShutdown, HandlerStep, FlagFollowsHandler, Gate!Close, Gate!Next
  <2>5. CASE Subscribe \/ CheckDrained \/ AwaitNotified
    BY <2>5 DEF Subscribe, CheckDrained, AwaitNotified, HandlerStep
  <2>6. CASE Exit
    BY <2>6 DEF Exit, HandlerStep, FlagFollowsHandler, NoTransactionPastDrain, Gate!Exit, Gate!Next
  <2>7. CASE UNCHANGED vars
    BY <2>7 DEF vars
  <2> QED
    BY <2>1, <2>2, <2>3, <2>4, <2>5, <2>6, <2>7
       DEF Next, TaskNext, HandlerNext, Gate!Next
<1> QED
  BY <1>1, <1>2, Inductive, PTL DEF SafeSpec, Gate!SafeSpec
================================================================================
