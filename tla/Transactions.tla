------------------------------ MODULE Transactions ------------------------------
(***************************************************************************)
(* Every configuration transaction the daemon starts, and what is meant to *)
(* keep them apart: the in-flight token of shutdown.rs, the guard of       *)
(* rebuild.rs, and the scopes of the three kinds of callers.               *)
(*                                                                         *)
(*   - Daemon::run (daemon/mod.rs) for the commands of org.modulix.Daemon: *)
(*     token, guard, one library transaction per name, invalidation;       *)
(*   - apply::mount and apply::unmount (udisks2/apply.rs), called by the   *)
(*     method-call monitor and by the per-device watchers. A watcher is a  *)
(*     task the listener aborts when its device goes away; the blocking    *)
(*     job it had started is not a task and runs on;                       *)
(*   - report_hostname_changed (hostname1/mod.rs), which takes neither.    *)
(*                                                                         *)
(* The library transaction (modulix_core_utils) is external: it is between *)
(* its first write to the repository and its commit or rollback while its  *)
(* job is "writing".                                                       *)
(***************************************************************************)
EXTENDS Naturals, Sequences, FiniteSets, SequencesExt

CONSTANTS
  Commands,   \* calls of the methods of org.modulix.Daemon that run a command
  Reports,    \* transactions of the UDisks2 method-call monitor
  Watchers,   \* transactions of per-device watcher tasks
  Hostnames,  \* reactions to a hostname1 call
  MaxNames,   \* most names in one command
  Nobody      \* the guard is free

Gated == Commands \cup Reports \cup Watchers
Tasks == Gated \cup Hostnames

\* What the store has cached and a command may put out of date: the listings of
\* what is installed, and the outdated inputs.
Caches == {"installed", "updates"}

ASSUME TasksAssumption ==
  /\ MaxNames \in Nat \ {0}
  /\ Nobody \notin Tasks
  /\ Gated \cap Hostnames = {}
  /\ Commands \cap (Reports \cup Watchers) = {}
  /\ Reports \cap Watchers = {}

VARIABLES
  proc,     \* the process: up, draining after SIGTERM, exited, or killed
  tokens,   \* the tasks that hold an InFlight token
  holder,   \* the task the guard's permit is assigned to
  queue,    \* the tasks queued on the guard, in arrival order
  pc,       \* where each task stands
  left,     \* library transactions each task has yet to start
  job,      \* the library transaction running, or ended, for each task
  orphans,  \* tasks aborted while their job was pending or writing
  result,   \* what each task's caller is told
  unseen    \* commands whose writes a cache of the store may still hide, with the cache

vars == <<proc, tokens, holder, queue, pc, left, job, orphans, result, unseen>>

TypeOK ==
  /\ proc \in {"up", "draining", "exited", "killed"}
  /\ tokens \subseteq Gated
  /\ holder \in Gated \cup {Nobody}
  /\ queue \in Seq(Gated)
  /\ pc \in [Tasks -> {"idle", "entered", "queued", "executing", "leaving", "dropping", "settled"}]
  /\ left \in [Tasks -> 0 .. MaxNames]
  /\ job \in [Tasks -> {"none", "pending", "writing", "ok", "err"}]
  /\ orphans \subseteq Watchers
  /\ result \in [Tasks -> {"none", "ok", "err", "refused", "aborted"}]
  /\ unseen \subseteq Commands \X Caches

Init ==
  /\ proc = "up"
  /\ tokens = {}
  /\ holder = Nobody
  /\ queue = <<>>
  /\ pc = [t \in Tasks |-> "idle"]
  /\ left = [t \in Tasks |-> 0]
  /\ job = [t \in Tasks |-> "none"]
  /\ orphans = {}
  /\ result = [t \in Tasks |-> "none"]
  /\ unseen = {}

Alive == proc \in {"up", "draining"}

Goto(t, from, to) ==
  /\ Alive
  /\ pc[t] = from
  /\ pc' = [pc EXCEPT ![t] = to]

\* How many library transactions a task may make: a command one per name, none
\* for an empty list or on a dry run; a mount or an unmount exactly one.
Sizes(t) == IF t \in Commands THEN 0 .. MaxNames ELSE {1}

--------------------------------------------------------------------------------
(* Entering: shutdown::enter, then rebuild::guard *)

\* Mutant: `let _ = enter()?` drops the token at once.
EnterUnbound(t) ==
  /\ proc = "up"
  /\ Goto(t, "idle", "entered")
  /\ \E n \in Sizes(t) : left' = [left EXCEPT ![t] = n]
  /\ UNCHANGED <<proc, tokens, holder, queue, job, orphans, result, unseen>>

\* Mutant: the flag is not consulted.
EnterAnyway(t) ==
  /\ Goto(t, "idle", "entered")
  /\ tokens' = tokens \cup {t}
  /\ \E n \in Sizes(t) : left' = [left EXCEPT ![t] = n]
  /\ UNCHANGED <<proc, holder, queue, job, orphans, result, unseen>>

\* enter() grants a token.
Enter(t) ==
  /\ proc = "up"
  /\ Goto(t, "idle", "entered")
  /\ tokens' = tokens \cup {t}
  /\ \E n \in Sizes(t) : left' = [left EXCEPT ![t] = n]
  /\ UNCHANGED <<proc, holder, queue, job, orphans, result, unseen>>

\* enter() answers Error::ShuttingDown and nothing is started.
Refuse(t) ==
  /\ proc = "draining"
  /\ Goto(t, "idle", "settled")
  /\ result' = [result EXCEPT ![t] = "refused"]
  /\ UNCHANGED <<proc, tokens, holder, queue, left, job, orphans, unseen>>

\* The first poll of REBUILD_GUARD.lock(): the permit, or a place in the queue.
Lock(t) ==
  /\ Goto(t, "entered", "queued")
  /\ IF holder = Nobody
     THEN holder' = t /\ UNCHANGED queue
     ELSE queue' = Append(queue, t) /\ UNCHANGED holder
  /\ UNCHANGED <<proc, tokens, left, job, orphans, result, unseen>>

\* Mutant: the guard is not awaited.
LockedAnyway(t) ==
  /\ Goto(t, "queued", "executing")
  /\ UNCHANGED <<proc, tokens, holder, queue, left, job, orphans, result, unseen>>

\* The task is polled again and finds itself assigned the permit.
Locked(t) ==
  /\ holder = t
  /\ Goto(t, "queued", "executing")
  /\ UNCHANGED <<proc, tokens, holder, queue, left, job, orphans, result, unseen>>

(* The library transactions of one task *)

\* Mutant: the loop runs one name too many.
SpawnPastEnd(t) ==
  /\ t \in Gated
  /\ job[t] = "none"
  /\ Goto(t, "executing", "executing")
  /\ left' = [left EXCEPT ![t] = @ - 1]
  /\ job' = [job EXCEPT ![t] = "pending"]
  /\ UNCHANGED <<proc, tokens, holder, queue, orphans, result, unseen>>

\* spawn_blocking, or the next turn of InstallModule's loop.
Spawn(t) ==
  /\ t \in Gated
  /\ left[t] > 0
  /\ job[t] = "none"
  /\ Goto(t, "executing", "executing")
  /\ left' = [left EXCEPT ![t] = @ - 1]
  /\ job' = [job EXCEPT ![t] = "pending"]
  /\ UNCHANGED <<proc, tokens, holder, queue, orphans, result, unseen>>

JobStep(t, from, to) ==
  /\ Alive
  /\ job[t] = from
  /\ job' = [job EXCEPT ![t] = to]
  /\ UNCHANGED <<proc, tokens, holder, queue, pc, left, orphans, result>>

\* The library transaction makes its first write. Nothing of the task is read.
JobBegin(t) ==
  /\ JobStep(t, "pending", "writing")
  /\ UNCHANGED unseen

\* It commits and rebuilds: what the store has cached may now be out of date.
JobCommit(t) ==
  /\ JobStep(t, "writing", "ok")
  /\ \E changed \in SUBSET Caches : unseen' = unseen \cup (({t} \cap Commands) \X changed)

\* It fails, and the library rolls back.
JobFail(t) ==
  /\ JobStep(t, "writing", "err")
  /\ UNCHANGED unseen

\* Mutant: the error of one name does not end the loop.
CollectAnyway(t) ==
  /\ t \in Gated
  /\ job[t] \in {"ok", "err"}
  /\ Goto(t, "executing", "executing")
  /\ job' = [job EXCEPT ![t] = "none"]
  /\ UNCHANGED <<proc, tokens, holder, queue, left, orphans, result, unseen>>

\* The `.await` on the transaction returns: on with the loop, or out by `?`.
Collect(t) ==
  /\ t \in Gated
  /\ job[t] \in {"ok", "err"}
  /\ Goto(t, "executing", IF job[t] = "ok" THEN "executing" ELSE "leaving")
  /\ job' = [job EXCEPT ![t] = "none"]
  /\ result' = [result EXCEPT ![t] = IF job[t] = "ok" THEN @ ELSE "err"]
  /\ UNCHANGED <<proc, tokens, holder, queue, left, orphans, unseen>>

\* execute() answers an error before it has started any transaction. Module Daemon
\* says which commands do, and when.
Reject(t) ==
  /\ t \in Commands
  /\ job[t] = "none"
  /\ Goto(t, "executing", "leaving")
  /\ result' = [result EXCEPT ![t] = "err"]
  /\ UNCHANGED <<proc, tokens, holder, queue, left, job, orphans, unseen>>

\* What remains hidden when some caches drop everything read before now.
StillUnseen(cleared) == {w \in unseen : w[2] \notin cleared}

\* execute() returned Ok: a command invalidates the caches it has written past, and
\* may invalidate others.
Succeed(t) ==
  /\ t \in Gated
  /\ left[t] = 0
  /\ job[t] = "none"
  /\ Goto(t, "executing", "leaving")
  /\ result' = [result EXCEPT ![t] = "ok"]
  /\ \E cleared \in SUBSET Caches :
       /\ t \notin Commands => cleared = {}
       /\ unseen' = StillUnseen(cleared)
  /\ UNCHANGED <<proc, tokens, holder, queue, left, job, orphans>>

(* Leaving: _guard is dropped before _in_flight *)

\* Mutant: the permit is put down and nobody is woken.
ReleaseSilently(t) ==
  /\ Goto(t, "leaving", "dropping")
  /\ holder' = Nobody
  /\ UNCHANGED <<proc, tokens, queue, left, job, orphans, result, unseen>>

\* The permit goes to the head of the queue, which keeps it from anyone barging in.
ReleaseGuard(t) ==
  /\ Goto(t, "leaving", "dropping")
  /\ holder' = IF queue = <<>> THEN Nobody ELSE Head(queue)
  /\ queue' = IF queue = <<>> THEN queue ELSE Tail(queue)
  /\ UNCHANGED <<proc, tokens, left, job, orphans, result, unseen>>

\* Mutant: the token outlives its scope.
KeepToken(t) ==
  /\ Goto(t, "dropping", "settled")
  /\ UNCHANGED <<proc, tokens, holder, queue, left, job, orphans, result, unseen>>

DropToken(t) ==
  /\ Goto(t, "dropping", "settled")
  /\ tokens' = tokens \ {t}
  /\ UNCHANGED <<proc, holder, queue, left, job, orphans, result, unseen>>

--------------------------------------------------------------------------------
(* Watchers::remove and Watchers::spawn abort a watcher at one of its awaits *)

AbortTask(t) == result' = [result EXCEPT ![t] = "aborted"]

\* Waiting for the guard: its place in the queue goes.
AbortQueued(t) ==
  /\ t \in Watchers
  /\ Goto(t, "queued", "dropping")
  /\ \E i \in 1 .. Len(queue) : queue[i] = t /\ queue' = RemoveAt(queue, i)
  /\ AbortTask(t)
  /\ UNCHANGED <<proc, tokens, holder, left, job, orphans, unseen>>

\* Mutant: an assigned permit is taken for a place in the queue, and lost.
AbortLosesPermit(t) ==
  /\ t \in Watchers
  /\ holder = t
  /\ Goto(t, "queued", "dropping")
  /\ AbortTask(t)
  /\ UNCHANGED <<proc, tokens, holder, queue, left, job, orphans, unseen>>

\* Just assigned the permit, not polled since: the permit moves on.
AbortAssigned(t) ==
  /\ t \in Watchers
  /\ holder = t
  /\ Goto(t, "queued", "leaving")
  /\ AbortTask(t)
  /\ UNCHANGED <<proc, tokens, holder, queue, left, job, orphans, unseen>>

\* Waiting for its blocking job: the task's locals are dropped, the guard and the
\* token among them, but a blocking job cannot be cancelled.
AbortExecuting(t) ==
  /\ t \in Watchers
  /\ job[t] # "none"
  /\ Goto(t, "executing", "leaving")
  /\ orphans' = IF job[t] \in {"pending", "writing"} THEN orphans \cup {t} ELSE orphans
  /\ AbortTask(t)
  /\ UNCHANGED <<proc, tokens, holder, queue, left, job, unseen>>

(* report_hostname_changed: the library is called from the listener's loop, which *)
(* reads the next call when it returns                                            *)

HostnameBegin(t) ==
  /\ t \in Hostnames
  /\ \A h \in Hostnames : pc[h] # "executing"
  /\ Goto(t, "idle", "executing")
  /\ job' = [job EXCEPT ![t] = "writing"]
  /\ UNCHANGED <<proc, tokens, holder, queue, left, orphans, result, unseen>>

HostnameEnd(t) ==
  /\ t \in Hostnames
  /\ job[t] \in {"ok", "err"}
  /\ Goto(t, "executing", "settled")
  /\ UNCHANGED <<proc, tokens, holder, queue, left, job, orphans, result, unseen>>

(* The process *)

SetProc(from, to) ==
  /\ proc = from
  /\ proc' = to
  /\ UNCHANGED <<tokens, holder, queue, pc, left, job, orphans, result, unseen>>

\* SIGTERM or SIGINT.
Terminate == SetProc("up", "draining")

\* wait_drained returned and the process exits, with whatever still runs in it.
Exit == tokens = {} /\ SetProc("draining", "exited")

\* TimeoutStopSec ran out and systemd sends SIGKILL (module.nix), or a signal comes
\* whose handler is not installed yet.
Kill == Alive /\ SetProc(proc, "killed")

--------------------------------------------------------------------------------
GatedNext(t) ==
  \/ Enter(t) \/ Refuse(t) \/ Lock(t) \/ Locked(t)
  \/ Spawn(t) \/ Collect(t) \/ Reject(t) \/ Succeed(t)
  \/ ReleaseGuard(t) \/ DropToken(t)
  \/ AbortQueued(t) \/ AbortAssigned(t) \/ AbortExecuting(t)

JobNext(t) == JobBegin(t) \/ JobCommit(t) \/ JobFail(t)

HostnameNext(t) == HostnameBegin(t) \/ HostnameEnd(t)

Next ==
  \/ \E t \in Gated : GatedNext(t)
  \/ \E t \in Hostnames : HostnameNext(t)
  \/ \E t \in Tasks : JobNext(t)
  \/ Terminate \/ Exit \/ Kill

\* The runtime polls a ready task and its blocking pool runs what it is given. A
\* library transaction ends, one way or the other: the code sets it no deadline.
\* Requests, aborts and signals need not come.
Fairness ==
  /\ \A t \in Gated :
       WF_vars(Lock(t) \/ Locked(t) \/ Spawn(t) \/ Collect(t) \/ Succeed(t)
                 \/ ReleaseGuard(t) \/ DropToken(t))
  /\ \A t \in Tasks : WF_vars(JobNext(t))
  /\ WF_vars(Exit)

SafeSpec == Init /\ [][Next]_vars
Spec == SafeSpec /\ Fairness

--------------------------------------------------------------------------------
(* Properties *)

Writing == {t \in Tasks : job[t] = "writing"}

\* The transactions the guard and the token do cover: those of a gated task that
\* is still there to hold them.
Covered == Gated \ orphans

\* Two transactions never write to the repository at once, orphans and hostname
\* reactions apart: "one transaction's stash swallows the other's uncommitted
\* write" otherwise (rebuild.rs).
CoveredExclusion == \A s, t \in Writing \cap Covered : s = t

\* What the rest of rebuild.rs says: one lock for every configuration transaction
\* this process starts.
OneTransactionAtATime == \A s, t \in Writing : s = t

\* The daemon's own exit interrupts no covered transaction, pending ones included.
ExitSparesCovered ==
  proc = "exited" => \A t \in Covered : job[t] \notin {"pending", "writing"}

\* What the module documentation of shutdown.rs says of all of them.
ExitSparesAll == proc = "exited" => Writing = {}

\* Nobody waits for a guard nobody will release: a queued task is in the queue or
\* holds the permit, and the permit is only ever with a task that will pass it on,
\* whatever was aborted on the way.
GuardIsAccountedFor ==
  /\ queue # <<>> => holder # Nobody
  /\ \A t \in Gated :
       /\ pc[t] \in {"executing", "leaving"} => holder = t
       /\ pc[t] = "queued" => holder = t \/ t \in ToSet(queue)
  /\ holder # Nobody => pc[holder] \in {"queued", "executing", "leaving"}

\* An admitted transaction is answered, whoever else is queued, fails or is aborted,
\* unless the process is killed.
AdmittedSettles == \A t \in Gated : t \in tokens ~> (t \notin tokens \/ ~Alive)

\* After a termination signal the process stops.
TerminationStops == proc = "draining" ~> ~Alive

\* The tokens follow the protocol of DrainGate.
Gate == INSTANCE DrainGate WITH
  Tasks <- Gated,
  closed <- proc # "up",
  admitted <- tokens,
  exited <- proc = "exited"

TokensImplementGate == Gate!SafeSpec
================================================================================
