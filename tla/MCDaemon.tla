--------------------------------- MODULE MCDaemon ---------------------------------
(* The daemon with two calls of its privileged interface and one watcher, which  *)
(* the listener may abort at any of its awaits: two can queue behind the holder  *)
(* of the guard. A call of up to two names can fail with one committed. Reports  *)
(* of the monitor are watchers that nobody aborts, and the reaction to hostname1 *)
(* shares nothing with the rest that these properties look at.                   *)
EXTENDS Daemon

CONSTANTS c1, c2, w1

\* One method of each shape: a list of names, a look-up first, a mode, none, a
\* state of the firmware; of those that install and of those that uninstall.
MCServed == {"InstallModule", "UninstallPlugin", "UpdateSystem", "UpdateHardware", "EnableSecureBoot"}

\* The other two states only turn a call down, as UserMode does once keys are
\* enrolled.
MCAtBoot == {"SetupMode"}

MCCommands == {c1, c2}
MCWatchers == {w1}
NoTasks == {}
================================================================================
