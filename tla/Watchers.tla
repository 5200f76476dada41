-------------------------------- MODULE Watchers --------------------------------
(***************************************************************************)
(* The life of the per-device watcher tasks (Udisks2Listener::listen and   *)
(* Watchers, udisks2/mod.rs): who is watched, from the listing of the      *)
(* devices at startup and the two signals of the ObjectManager.            *)
(*                                                                         *)
(* UDisks2 emits InterfacesRemoved and InterfacesAdded in order, but each  *)
(* has a stream of its own, and select! takes from whichever it picks.     *)
(* Signals emitted before the subscription reach nobody.                   *)
(***************************************************************************)
EXTENDS Naturals, Sequences, SequencesExt

CONSTANTS
  Devices,   \* object paths UDisks2 may have
  AtStart,   \* those it has when the daemon starts
  MaxPlugs   \* bound: times a device appears or disappears

ASSUME WatchersAssumption ==
  IsFiniteSet(Devices) /\ AtStart \subseteq Devices /\ MaxPlugs \in Nat

VARIABLES
  listener,  \* where listen() stands
  present,   \* the devices that have the Filesystem interface
  added,     \* InterfacesAdded signals, unread
  removed,   \* InterfacesRemoved signals, unread
  watch,     \* the Watchers map: no task, or one that is "new" (it has not read a
             \* value), "running" or "ended"
  initial,   \* report_initial_config of each device's task
  plugs,     \* how often a device has appeared or disappeared
  astray,    \* history: devices whose last change the two streams may tell wrong
  failed     \* history: devices whose task has failed since they last appeared

deviceVars == <<present, added, removed, plugs, astray>>
watcherVars == <<listener, deviceVars, watch, initial, failed>>

WatchersTypeOK ==
  /\ listener \in {"listing", "subscribing", "listening"}
  /\ present \subseteq Devices
  /\ added \in Seq(Devices) /\ removed \in Seq(Devices)
  /\ watch \in [Devices -> {"none", "new", "running", "ended"}]
  /\ initial \in [Devices -> BOOLEAN]
  /\ plugs \in 0 .. MaxPlugs
  /\ astray \subseteq Devices /\ failed \subseteq Devices

WatchersInit ==
  /\ listener = "listing"
  /\ present = AtStart
  /\ added = <<>>
  /\ removed = <<>>
  /\ watch = [d \in Devices |-> "none"]
  /\ initial = [d \in Devices |-> FALSE]
  /\ plugs = 0
  /\ astray = {} /\ failed = {}

Alive(d) == watch[d] \in {"new", "running"}

\* Mutant: a live watcher is replaced as well.
SpawnAnew(ds, reportInitial) ==
  /\ watch' = [d \in Devices |-> IF d \in ds THEN "new" ELSE watch[d]]
  /\ initial' = [d \in Devices |-> IF d \in ds THEN reportInitial ELSE initial[d]]

\* Watchers::spawn: a live watcher is kept, one that has ended is replaced.
Spawn(ds, reportInitial) ==
  LET new == {d \in ds : ~Alive(d)}
  IN  /\ watch' = [d \in Devices |-> IF d \in new THEN "new" ELSE watch[d]]
      /\ initial' = [d \in Devices |-> IF d \in new THEN reportInitial ELSE initial[d]]

--------------------------------------------------------------------------------
(* listen() *)

ListDevices ==
  /\ listener = "listing"
  /\ listener' = "subscribing"
  /\ Spawn(present, FALSE)
  /\ UNCHANGED <<deviceVars, failed>>

Subscribe ==
  /\ listener = "subscribing"
  /\ listener' = "listening"
  /\ UNCHANGED <<deviceVars, watch, initial, failed>>

OnAdded ==
  /\ listener = "listening"
  /\ added # <<>>
  /\ Spawn({Head(added)}, TRUE)
  /\ added' = Tail(added)
  /\ UNCHANGED <<listener, present, removed, plugs, astray, failed>>

\* Mutant: the task is aborted and its handle stays in the map.
RemovedKept ==
  /\ listener = "listening"
  /\ removed # <<>>
  /\ watch' = [watch EXCEPT ![Head(removed)] = "ended"]
  /\ removed' = Tail(removed)
  /\ UNCHANGED <<listener, present, added, initial, plugs, astray, failed>>

\* Watchers::remove: the task is aborted at its await.
OnRemoved ==
  /\ listener = "listening"
  /\ removed # <<>>
  /\ watch' = [watch EXCEPT ![Head(removed)] = "none"]
  /\ removed' = Tail(removed)
  /\ UNCHANGED <<listener, present, added, initial, plugs, astray, failed>>

\* watch_configuration returns an error; its JoinHandle stays in the map.
End(d) ==
  /\ Alive(d)
  /\ watch' = [watch EXCEPT ![d] = "ended"]
  /\ failed' = failed \cup {d}
  /\ UNCHANGED <<listener, deviceVars, initial>>

\* The daemon is started again: the map was in memory, and so were the streams.
StartAgain ==
  /\ listener' = "listing"
  /\ watch' = [d \in Devices |-> "none"]
  /\ initial' = [d \in Devices |-> FALSE]
  /\ added' = <<>> /\ removed' = <<>> /\ astray' = {} /\ failed' = {}
  /\ UNCHANGED <<present, plugs>>

(* UDisks2 *)

Signal(stream, d) == IF listener = "listening" THEN Append(stream, d) ELSE stream

Signalled(d) == d \in ToSet(added) \cup ToSet(removed)

\* A change before the subscription is told to nobody, and one that follows a change
\* not read yet may be read before it. A change on its own sets the map right again.
Tell(d) ==
  astray' = IF listener = "subscribing" \/ Signalled(d) THEN astray \cup {d} ELSE astray \ {d}

Plug(d) ==
  /\ plugs < MaxPlugs /\ plugs' = plugs + 1
  /\ d \notin present
  /\ present' = present \cup {d}
  /\ added' = Signal(added, d)
  /\ Tell(d)
  /\ failed' = failed \ {d}
  /\ UNCHANGED <<listener, removed, watch, initial>>

Unplug(d) ==
  /\ plugs < MaxPlugs /\ plugs' = plugs + 1
  /\ d \in present
  /\ present' = present \ {d}
  /\ removed' = Signal(removed, d)
  /\ Tell(d)
  /\ UNCHANGED <<listener, added, watch, initial, failed>>

--------------------------------------------------------------------------------
(* Properties *)

SignalsRead == listener = "listening" /\ added = <<>> /\ removed = <<>>

\* With every signal read, the devices that are there are the devices in the map, each
\* with a task that runs, unless it has failed since the device appeared (mod.rs: the
\* presence or absence of the interface in the two signals "is what starts/stops that
\* device's watch_configuration task"). Devices come and go at any moment, and select!
\* reads either stream first: a device stays apart only from a change the streams may
\* tell wrong until the next one that comes on its own.
WatchedIsPresent ==
  SignalsRead => \A d \in Devices \ astray :
    /\ d \in present <=> watch[d] # "none"
    /\ d \in present \ failed => Alive(d)
================================================================================
