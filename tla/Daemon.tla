--------------------------------- MODULE Daemon ---------------------------------
(***************************************************************************)
(* The privileged interface of the daemon, org.modulix.Daemon, from the    *)
(* start of the process to its end: main() (main.rs), the methods and      *)
(* Daemon::run (daemon/mod.rs), the question to polkit (polkit.rs) and the *)
(* ten commands (command/*.rs).                                            *)
(*                                                                         *)
(* The token, the guard and the library transactions are those of module   *)
(* Transactions, whose steps are taken here with what decides between them *)
(* in the commands: polkit is asked before a call has its token, a command *)
(* may refuse under the guard before its first transaction, and what a     *)
(* success invalidates depends on the name of the method.                  *)
(*                                                                         *)
(* polkit, the firmware and the library are external. A watcher or a       *)
(* monitor report is as in Transactions, from the start of the listeners.  *)
(***************************************************************************)
EXTENDS Transactions

CONSTANTS
  Served,   \* the methods that are called
  AtBoot    \* enrollment states the firmware may be in when the daemon starts

VARIABLES
  phase,     \* how far main() has come
  dry,       \* MX_DAEMON_DRY_RUN, or a debug build: read anew each time, never written
  stage,     \* where a call stands: polkit has not answered, it runs, it is over
  method,    \* the method a call is of, while its command executes
  applied,   \* how many of its transactions have been committed
  failed,    \* calls one of whose transactions has failed
  firmware   \* the enrollment state of the UEFI firmware

callVars == <<stage, method, applied, failed, firmware>>
daemonVars == <<vars, phase, dry, callVars>>

Installers == {"InstallPackage", "InstallModule", "InstallPlugin"}
Uninstallers == {"UninstallPackage", "UninstallModule", "UninstallPlugin"}
Plugins == {"InstallPlugin", "UninstallPlugin"}
Modules == {"InstallModule", "UninstallModule"}
SecureBoot == {"EnableSecureBoot", "DisableSecureBoot"}

\* SetSecureBoot is two methods here, for its two arguments.
Methods == Installers \cup Uninstallers \cup SecureBoot \cup {"UpdateSystem", "UpdateHardware"}

FirmwareStates == {"SetupMode", "UserMode", "NotUefi"}

ASSUME DaemonAssumption ==
  /\ Served \subseteq Methods
  /\ AtBoot \subseteq FirmwareStates

Phases == {"connecting", "serving", "listening", "ready"}

DaemonTypeOK ==
  /\ phase \in Phases
  /\ dry \in BOOLEAN
  /\ stage \in [Commands -> {"unanswered", "run", "checking", "applying", "over"}]
  /\ method \in [Commands -> Served \cup {"none"}]
  /\ applied \in [Commands -> 0 .. MaxNames]
  /\ failed \subseteq Commands
  /\ firmware \in FirmwareStates

DaemonInit ==
  /\ Init
  /\ phase = "connecting"
  /\ dry \in BOOLEAN
  /\ stage = [t \in Commands |-> "unanswered"]
  /\ method = [t \in Commands |-> "none"]
  /\ applied = [t \in Commands |-> 0]
  /\ failed = {}
  /\ firmware \in AtBoot

--------------------------------------------------------------------------------
(* main() *)

Starting(from, to) ==
  /\ proc = "up"
  /\ phase = from
  /\ phase' = to
  /\ UNCHANGED <<vars, dry, callVars>>

\* The connection has the bus name and serves both interfaces.
Serve == Starting("connecting", "serving")

\* One task per listener of the registry is spawned, then the refreshes of the index.
Listen == Starting("serving", "listening")

\* spawn_rebuild_signal_handler and shutdown::spawn_signal_handler: SIGHUP no longer
\* ends the process, and SIGTERM and SIGINT drain it from here on.
HandleSignals == Starting("listening", "ready")

StartUp == Serve \/ Listen \/ HandleSignals

\* A `?` of main() ends the process: no bus, or a handler that cannot be registered.
\* The runtime drops every task; a blocking job it would still wait for is taken
\* for cut.
StartFails ==
  /\ phase \in {"connecting", "listening"}
  /\ proc = "up" /\ Kill
  /\ UNCHANGED <<phase, dry, callVars>>

\* SIGTERM, SIGINT or SIGHUP with its default action, before its handler.
UnhandledSignal ==
  /\ phase # "ready"
  /\ proc = "up" /\ Kill
  /\ UNCHANGED <<phase, dry, callVars>>

\* SIGTERM, and the exit once drained.
Ending ==
  /\ phase = "ready"
  /\ Terminate \/ Exit
  /\ UNCHANGED <<phase, dry, callVars>>

\* The drain has lasted for TimeoutStopSec, which only a library transaction or a
\* look-up over the network can make it do.
Overdue ==
  /\ proc = "draining" /\ Kill
  /\ Writing # {} \/ \E t \in Commands : stage[t] = "checking" /\ method[t] \in Plugins
  /\ UNCHANGED <<phase, dry, callVars>>

--------------------------------------------------------------------------------
(* A call before its token: polkit::check *)

Outside(t, from, to) ==
  /\ Alive
  /\ stage[t] = from
  /\ stage' = [stage EXCEPT ![t] = to]
  /\ UNCHANGED <<phase, dry, method, applied, failed, firmware>>

\* polkit answers no, or is not there: the caller gets an error and nothing begins.
\* Until it answers, a call is as good as not made; nobody has to answer its prompt.
Deny(t) ==
  /\ phase # "connecting"
  /\ Outside(t, "unanswered", "over")
  /\ UNCHANGED vars

\* SetOptions, once granted, takes no token and no guard: apply_option and apply_list
\* only write to the standard output.
SetOptions(t) ==
  /\ phase # "connecting"
  /\ Outside(t, "unanswered", "over")
  /\ UNCHANGED vars

\* is_dry_run(): the library is not called.
AsksNothingIfDry(t) == dry => left'[t] = 0

\* Granted: Daemon::run goes on to shutdown::enter().
EnterCall(t) ==
  /\ phase # "connecting"
  /\ Outside(t, "unanswered", "run")
  /\ Enter(t)
  /\ AsksNothingIfDry(t)

\* ... which refuses it once the process drains.
RefuseCall(t) ==
  /\ phase # "connecting"
  /\ Outside(t, "unanswered", "over")
  /\ Refuse(t)

--------------------------------------------------------------------------------
(* Command::execute, under the guard *)

Executing(t, from, to) ==
  /\ pc[t] = "executing"
  /\ Outside(t, from, to)
  /\ UNCHANGED vars

\* The guard is there and the command executes. Which one it is has not mattered
\* before. Only InstallModule and UninstallModule make one transaction per name,
\* so that they alone can make several, or none outside a dry run.
Dispatch(t) ==
  /\ Locked(t)
  /\ stage[t] = "run"
  /\ stage' = [stage EXCEPT ![t] = "checking"]
  /\ \E m \in Served :
       /\ dry \/ left[t] = 1 \/ m \in Modules
       /\ method' = [method EXCEPT ![t] = m]
  /\ UNCHANGED <<phase, dry, applied, failed, firmware>>

\* Packages and modules go to the library as they are.
BeginLifecycle(t) ==
  /\ method[t] \in (Installers \cup Uninstallers) \ Plugins
  /\ Executing(t, "checking", "applying")

\* A plugin's namespace has been looked up over the network, except on a dry run.
BeginPlugin(t) ==
  /\ method[t] \in Plugins
  /\ Executing(t, "checking", "applying")

\* The mode is "switch" or "boot".
BeginUpdate(t) ==
  /\ method[t] = "UpdateSystem"
  /\ Executing(t, "checking", "applying")

BeginHardware(t) ==
  /\ method[t] = "UpdateHardware"
  /\ Executing(t, "checking", "applying")

\* require_enrollable: to enable, the firmware is in Setup Mode, on a dry run too.
BeginSecureBoot(t) ==
  /\ method[t] \in SecureBoot
  /\ method[t] = "EnableSecureBoot" => firmware = "SetupMode"
  /\ Executing(t, "checking", "applying")

Begin(t) ==
  \/ BeginLifecycle(t) \/ BeginPlugin(t) \/ BeginUpdate(t)
  \/ BeginHardware(t) \/ BeginSecureBoot(t)

\* The command refuses before its first transaction.
Turndown(t) ==
  /\ stage[t] = "checking"
  /\ Reject(t)
  /\ UNCHANGED <<phase, dry, callVars>>

\* The module's metadata cannot be fetched, or has no namespace for plugins.
LookupFails(t) == method[t] \in Plugins /\ ~dry /\ Turndown(t)

\* Neither "switch" nor "boot".
BadMode(t) == method[t] = "UpdateSystem" /\ Turndown(t)

\* The firmware is not in Setup Mode, or its state cannot be read.
NotEnrollable(t) == method[t] = "EnableSecureBoot" /\ Turndown(t)

SpawnCall(t) ==
  /\ stage[t] = "applying"
  /\ Spawn(t)
  /\ UNCHANGED <<phase, dry, callVars>>

CollectCall(t) == Collect(t) /\ UNCHANGED <<phase, dry, callVars>>

\* Mutant: `name.starts_with("Uninstall")` is forgotten.
InvalidatesInstalls(m) ==
  IF m \in Installers THEN {"installed"}
  ELSE IF m = "UpdateSystem" THEN {"updates"} ELSE {}

\* What a success invalidates, by the name of the method.
Invalidates(m) ==
  IF m \in Installers \cup Uninstallers THEN {"installed"}
  ELSE IF m = "UpdateSystem" THEN {"updates"} ELSE {}

SucceedCall(t) ==
  /\ stage[t] = "applying"
  /\ Succeed(t)
  /\ unseen' = StillUnseen(Invalidates(method[t]))
  /\ UNCHANGED <<phase, dry, callVars>>

\* With the guard go the locals of the call; the reply is in `result`.
ReleaseCall(t) ==
  /\ ReleaseGuard(t)
  /\ method' = [method EXCEPT ![t] = "none"]
  /\ applied' = [applied EXCEPT ![t] = 0]
  /\ failed' = failed \ {t}
  /\ UNCHANGED <<phase, dry, stage, firmware>>

\* With the token goes the call.
AnswerCall(t) ==
  /\ DropToken(t)
  /\ stage' = [stage EXCEPT ![t] = "over"]
  /\ UNCHANGED <<phase, dry, method, applied, failed, firmware>>

--------------------------------------------------------------------------------
(* The library, as far as the commands tell its transactions apart *)

\* What a committed transaction changes of what the store has cached.
Affects(m) ==
  CASE m \in Installers \cup Uninstallers -> {"installed"}
    [] m = "UpdateSystem" -> {"updates"}
    [] OTHER -> {}

\* The rebuild of an enabling call enrols keys, which ends Setup Mode, or fails to
\* without anybody noticing.
Enrol(t) ==
  IF method[t] = "EnableSecureBoot" THEN firmware' \in {firmware, "UserMode"} ELSE UNCHANGED firmware

CommitCall(t) ==
  /\ JobCommit(t)
  /\ unseen' = unseen \cup ({t} \X Affects(method[t]))
  /\ applied' = [applied EXCEPT ![t] = @ + 1]
  /\ Enrol(t)
  /\ UNCHANGED <<phase, dry, stage, method, failed>>

\* The rollback is of the repository, not of the firmware.
FailCall(t) ==
  /\ JobFail(t)
  /\ failed' = failed \cup {t}
  /\ Enrol(t)
  /\ UNCHANGED <<phase, dry, stage, method, applied>>

BeginCallJob(t) == JobBegin(t) /\ UNCHANGED <<phase, dry, callVars>>

--------------------------------------------------------------------------------
CallProgress(t) ==
  \/ Lock(t) /\ UNCHANGED <<phase, dry, callVars>>
  \/ Dispatch(t) \/ Begin(t) \/ LookupFails(t) \/ BadMode(t) \/ NotEnrollable(t)
  \/ SpawnCall(t) \/ CollectCall(t) \/ SucceedCall(t)
  \/ ReleaseCall(t) \/ AnswerCall(t)

CallJob(t) == BeginCallJob(t) \/ CommitCall(t) \/ FailCall(t)

CallNext(t) ==
  \/ Deny(t) \/ SetOptions(t) \/ EnterCall(t) \/ RefuseCall(t)
  \/ CallProgress(t) \/ CallJob(t)

\* A report or a watcher: nothing of a dry run gets as far as enter().
ListenerNext(t) ==
  /\ phase \notin {"connecting", "serving"}
  /\ ~dry
  /\ GatedNext(t) \/ JobNext(t)
  /\ UNCHANGED <<phase, dry, callVars>>

HostnameReaction(t) ==
  /\ phase \notin {"connecting", "serving"}
  /\ ~dry
  /\ HostnameNext(t) \/ JobNext(t)
  /\ UNCHANGED <<phase, dry, callVars>>

DaemonNext ==
  \/ StartUp \/ StartFails \/ UnhandledSignal \/ Ending \/ Overdue
  \/ \E t \in Commands : CallNext(t)
  \/ \E t \in Reports \cup Watchers : ListenerNext(t)
  \/ \E t \in Hostnames : HostnameReaction(t)

\* As in Transactions. Nobody has to call, nor to answer polkit's prompt; a look-up
\* over the network ends, as a library transaction does.
Progress(t) ==
  \/ Lock(t) \/ Locked(t) \/ Spawn(t) \/ Collect(t) \/ Succeed(t)
  \/ ReleaseGuard(t) \/ DropToken(t)

DaemonFairness ==
  /\ \A t \in Commands : WF_daemonVars(CallProgress(t) \/ CallJob(t))
  /\ \A t \in Reports \cup Watchers :
       WF_daemonVars(Progress(t) /\ UNCHANGED <<phase, dry, callVars>>)
  /\ \A t \in Tasks \ Commands : WF_daemonVars(JobNext(t) /\ UNCHANGED <<phase, dry, callVars>>)
  /\ WF_daemonVars(Exit /\ UNCHANGED <<phase, dry, callVars>>)

DaemonSafeSpec == DaemonInit /\ [][DaemonNext]_daemonVars
DaemonSpec == DaemonSafeSpec /\ DaemonFairness

--------------------------------------------------------------------------------
(* Properties *)

\* A client that has been told of success finds the change: no cache of the store
\* hides what a command wrote once its reply is Ok, and before the reply only the
\* command under the guard has anything hidden (Daemon::run).
OkMeansVisible ==
  \A w \in unseen :
    /\ result[w[1]] # "ok"
    /\ result[w[1]] = "none" => holder = w[1]

\* Keys are enrolled only into a firmware in Setup Mode, also when several calls
\* found it so: the check and the enrolment are under one guard (secure_boot.rs).
EnrolsOnlyInSetupMode ==
  \A t \in Commands :
    method[t] = "EnableSecureBoot" /\ job[t] \in {"pending", "writing"} => firmware = "SetupMode"

\* A reply of success means that every transaction of the call was committed; an
\* error, unless of a list of modules, that none was (command/*.rs).
ReplyTellsTheOutcome ==
  \A t \in Commands :
    /\ pc[t] = "leaving" /\ result[t] = "ok" => left[t] = 0 /\ t \notin failed
    /\ pc[t] = "leaving" /\ result[t] = "err" => applied[t] = 0 \/ method[t] \in Modules
================================================================================
