---------------------------------- MODULE Fstab ----------------------------------
(***************************************************************************)
(* The two paths from an fstab change to the NixOS configuration, together *)
(* (udisks2/mod.rs, monitor.rs, recent.rs, apply.rs): the property watcher *)
(* of each device, the reports of the method-call monitor, the stamps that *)
(* keep the first from repeating the second, and the feedback loop: every  *)
(* library call ends in a nixos-rebuild that puts the /etc/fstab of the    *)
(* configuration in place of UDisks2's.                                    *)
(*                                                                         *)
(* The monitor is reduced to its authorised calls, in the order of their   *)
(* replies (Monitor has what comes before). A library call is one step     *)
(* (Transactions has its inside).                                          *)
(***************************************************************************)
EXTENDS Watchers, FstabItems

CONSTANTS
  MountPoints,
  Luks,            \* the devices that are unlocked LUKS volumes
  Initially,       \* what /etc/fstab may say of each device at the start: [Devices -> items]
  Configurations,  \* what it may come to say of each
  MaxEdits,        \* bound: changes of /etc/fstab or of a disk by others
  MaxFaults,       \* bound: queries and library calls that fail, and restarts
  MaxEvents        \* bound: plugs, edits and faults together

\* The items of Block.Configuration, and what it may be for a device.
Opts == [name : STRING, padded : BOOLEAN]
Items == [kind : {"fstab", "crypttab"}, dir : MountPoints \cup {None}, opts : Seq(Opts) \cup {None}]
Configurable(d) == Configurations[d] \cup {c[d] : c \in Initially}

ASSUME FstabAssumption ==
  /\ Luks \subseteq Devices
  /\ IsFiniteSet(MountPoints) /\ None \notin MountPoints
  /\ DOMAIN Configurations = Devices
  /\ \A d \in Devices : Configurable(d) \subseteq Seq(Items)
  /\ \A c \in Initially : DOMAIN c = Devices /\ \A d \in Devices : Lookup(c[d]) # "malformed"
  /\ {MaxEdits, MaxFaults, MaxEvents} \subseteq Nat

\* None is told apart from options, from an entry, with or without its disk, from an
\* intent, from a declaration, and from a report.
ASSUME NoneAssumption ==
  /\ None \notin Seq(Opts)
  /\ LET entries == [mount_point : MountPoints, options : Seq(Opts)]
     IN  /\ None \notin entries
         /\ None \notin [does : {"mount"}, new : entries] \cup [does : {"unmount"}, old : entries]
         /\ None \notin [does : {"options"}, old : entries, options : Seq(Opts)]
         /\ None \notin [does : {"move"}, old : entries, new : entries]
  /\ None \notin [mount_point : MountPoints, options : Seq(Opts), disk : [device : Devices, fs : {1, 2}]]
  /\ LET declarations == [disk : [device : Devices, fs : {1, 2}], options : Seq(STRING), luks : BOOLEAN]
         adds == [op : {"add_mount"}, mount_point : MountPoints, entry : declarations]
         removes == [op : {"remove_mount"}, mount_point : MountPoints]
     IN  None \notin declarations /\ None \notin [path : Devices, left : Seq(adds \cup removes)]

VARIABLES
  conf,       \* Block.Configuration of each device
  disk,       \* Block.IdUUID and IdType
  unread,     \* the devices whose PropertyStream holds a value; only the latest is kept
  baseline,   \* `current` of each device's watcher
  todo,       \* the steps its watcher has left for the value it has read
  calls,      \* authorised method calls, [path, intent], in the order of their replies
  report,     \* the monitor's report under way: [path, left], or None
  stamped,    \* RECENT: devices stamped less than ECHO_WINDOW ago
  declared,   \* fileSystems of the NixOS configuration
  edits, faults,
  excused,    \* history: devices whose last change was not reported, as documented
  irregular   \* history: devices of which more, or less, than their own changes was reported

deviceState == <<conf, disk, unread>>
watcherState == <<baseline, todo>>
monitorState == <<calls, report, stamped>>
bounds == <<edits, faults>>
history == <<excused, irregular>>
vars == <<watcherVars, deviceState, watcherState, monitorState, declared, bounds, history>>

MoreEvents == plugs + edits + faults < MaxEvents

Disks(d) == {[device |-> d, fs |-> n] : n \in {1, 2}}

TypeOK ==
  /\ WatchersTypeOK
  /\ \A d \in Devices :
       /\ disk[d] \in Disks(d)
       /\ watch[d] = "running" \/ (baseline[d] = None /\ todo[d] = <<>>)
       /\ baseline[d] = None \/ (baseline[d].mount_point \in MountPoints /\ baseline[d].disk \in Disks(d))
       /\ \A i \in DOMAIN todo[d] : todo[d][i].op \in {"gather", "add_mount", "remove_mount"}
  /\ stamped \cup unread \cup excused \cup irregular \subseteq Devices
  /\ report = None \/ (report.path \in Devices /\ report.left # <<>>)
  /\ DOMAIN declared = MountPoints

--------------------------------------------------------------------------------
(* The configuration and /etc/fstab *)

Declares(ms, k) == {m \in MountPoints : ms[m] # None /\ ms[m].disk = k}

\* The entries UDisks2 finds for a disk: for that of an unlocked volume, those that name
\* its mapper device.
Listed(ms, k) == {m \in Declares(ms, k) : ms[m].luks <=> k.device \in Luks}

\* The entries of the generated /etc/fstab for one disk.
Generated(ms, k) ==
  LET item(m) == [kind |-> "fstab", dir |-> m,
                  opts |-> [i \in DOMAIN ms[m].options |-> [name |-> ms[m].options[i], padded |-> FALSE]]]
  IN  SetToSeq({item(m) : m \in Listed(ms, k)})

\* What is declared of a device's disks is what its watcher has last read.
InStep(d) ==
  LET here == UNION {Declares(declared, k) : k \in Disks(d)}
      info == baseline[d]
  IN  /\ watch[d] = "running" /\ todo[d] = <<>>
      /\ here = IF info = None THEN {} ELSE {info.mount_point}
      /\ \A m \in here :
           /\ declared[m].disk = info.disk
           /\ ToSet(declared[m].options) = ToSet(OptionList(info.options))

\* A change that was not reported stops mattering once the two are in step again.
Excuse(ds) == excused' = {d \in excused \cup ds : ~InStep(d)'}

\* A library call commits: the activation relinks /etc/fstab.
Commit(call) ==
  /\ declared' = Applied(declared, call)
  /\ conf' = [d \in Devices |-> Generated(declared', disk[d])]
  /\ unread' = unread \cup {d \in Devices : conf'[d] # conf[d]}
  /\ UNCHANGED disk

Init ==
  /\ WatchersInit
  /\ disk = [d \in Devices |-> [device |-> d, fs |-> 1]]
  /\ conf \in Initially
  /\ declared = [m \in MountPoints |->
       LET here == {d \in Devices : Lookup(conf[d]) = "entry" /\ LookupEntry(conf[d]).mount_point = m}
       IN  IF here = {} THEN None
           ELSE LET d == CHOOSE d \in here : TRUE
                IN  ReportMount(Info(LookupEntry(conf[d]), disk[d]), d \in Luks).entry]
  /\ unread = {}
  /\ baseline = [d \in Devices |-> None]
  /\ todo = [d \in Devices |-> <<>>]
  /\ calls = <<>> /\ report = None /\ stamped = {}
  /\ edits = 0 /\ faults = 0
  /\ excused = {} /\ irregular = {}

--------------------------------------------------------------------------------
(* watch_configuration *)

\* mount and remount ask the device before they report; the entry is the one read.
GatherStep(entry, old, suppress) ==
  [op |-> "gather", entry |-> entry, old |-> old, suppress |-> suppress]

\* Mutant: a mount point change is a mount.
StepsForgettingOld(old, lookup, entry, suppress) ==
  LET unmount == IF suppress \/ old = None \/ lookup = "entry" THEN <<>> ELSE <<RemoveMount(old)>>
  IN  CASE lookup = "malformed" -> <<>>
        [] lookup = "absent" -> unmount
        [] lookup = "entry" /\ old # None /\ old.mount_point = entry.mount_point ->
             <<GatherStep(entry, old, suppress)>>
        [] OTHER -> <<GatherStep(entry, None, suppress)>>

\* The match on (current.take(), lookup): the steps that follow.
Steps(old, lookup, entry, suppress) ==
  LET unmount == IF suppress \/ old = None THEN <<>> ELSE <<RemoveMount(old)>>
  IN  CASE lookup = "malformed" -> <<>>
        [] lookup = "absent" -> unmount
        [] lookup = "entry" /\ old # None /\ old.mount_point = entry.mount_point ->
             <<GatherStep(entry, old, suppress)>>
        [] OTHER -> unmount \o <<GatherStep(entry, None, suppress)>>

\* Entries left by reports that were cut short or made twice: only the first is read.
Several(d) == Len(conf[d]) > 1 /\ d \in irregular

\* The first value is the baseline; a device that has just appeared reports it.
FirstRead(d) ==
  /\ watch[d] = "new"
  /\ watch' = [watch EXCEPT ![d] = "running"]
  /\ unread' = unread \ {d}
  /\ todo' = [todo EXCEPT ![d] =
       IF Lookup(conf[d]) = "entry" THEN <<GatherStep(LookupEntry(conf[d]), None, ~initial[d])>> ELSE <<>>]
  /\ LET unknown == IF Lookup(conf[d]) = "malformed" \/ Several(d) THEN {d} ELSE {}
     IN  /\ excused' = excused \cup unknown
         /\ irregular' = irregular \cup unknown
  /\ UNCHANGED <<listener, deviceVars, initial, failed, conf, disk, baseline, monitorState, declared, bounds>>

\* The next value, read when the last one has been dealt with: is_echo is asked
\* whatever the change is.
Read(d) ==
  /\ watch[d] = "running" /\ d \in unread /\ todo[d] = <<>>
  /\ LET lookup == Lookup(conf[d])
         entry == IF lookup = "entry" THEN LookupEntry(conf[d]) ELSE None
     IN  /\ todo' = [todo EXCEPT ![d] = Steps(baseline[d], lookup, entry, d \in stamped)]
         /\ baseline' = [baseline EXCEPT ![d] = IF lookup = "malformed" THEN @ ELSE None]
  /\ unread' = unread \ {d}
  /\ UNCHANGED <<watcherVars, conf, disk, monitorState, declared, bounds, irregular>>
  /\ Excuse(IF d \in stamped \/ Several(d) THEN {d} ELSE {})

\* remount: what is reported of a device mounted where it was.
Remounted(d, old, fresh) ==
  CASE fresh.disk # old.disk -> <<RemoveMount(old), ReportMount(fresh, d \in Luks)>>
    [] fresh.disk = old.disk /\ ~SameOptions(old.options, fresh.options) ->
         <<ReportOptionsChanged(old, fresh.options)>>
    [] OTHER -> <<>>

Working(d) == watch[d] = "running" /\ todo[d] # <<>>

Gather(d) ==
  /\ Working(d) /\ Head(todo[d]).op = "gather"
  /\ LET step == Head(todo[d])
         fresh == Info(step.entry, disk[d])
     IN  /\ baseline' = [baseline EXCEPT ![d] = fresh]
         /\ todo' = [todo EXCEPT ![d] =
              CASE step.suppress -> <<>>
                [] ~step.suppress /\ step.old = None -> <<ReportMount(fresh, d \in Luks)>>
                [] OTHER -> Remounted(d, step.old, fresh)]
  /\ UNCHANGED <<watcherVars, deviceState, monitorState, declared, bounds, irregular>>
  /\ Excuse({})

Report(d) ==
  /\ Working(d) /\ Head(todo[d]).op # "gather"
  /\ Commit(Head(todo[d]))
  /\ todo' = [todo EXCEPT ![d] = Tail(@)]
  /\ UNCHANGED <<watcherVars, baseline, monitorState, bounds, irregular>>
  /\ Excuse({})

\* What failing hides: a change stays undeclared, until the next rebuild overwrites it.
Fault(ds) ==
  /\ MoreEvents /\ faults < MaxFaults /\ faults' = faults + 1
  /\ excused' = excused \cup ds
  /\ irregular' = Devices
  /\ UNCHANGED edits

\* The report fails: logged, and the watcher goes on as if it had not.
ReportFails(d) ==
  /\ Working(d) /\ Head(todo[d]).op # "gather"
  /\ todo' = [todo EXCEPT ![d] = Tail(@)]
  /\ Fault({d})
  /\ UNCHANGED <<watcherVars, deviceState, baseline, monitorState, declared>>

\* Building the proxy, reading a value or asking the device fails: the task ends.
WatchFails(d) ==
  /\ watch[d] = "running" => IF todo[d] = <<>> THEN d \in unread ELSE Head(todo[d]).op = "gather"
  /\ End(d)
  /\ todo' = [todo EXCEPT ![d] = <<>>]
  /\ baseline' = [baseline EXCEPT ![d] = None]
  /\ Fault({d})
  /\ UNCHANGED <<deviceState, monitorState, declared>>

--------------------------------------------------------------------------------
(* Udisks2Listener::listen *)

Appear ==
  /\ ListDevices \/ Subscribe \/ OnAdded
  /\ UNCHANGED <<deviceState, watcherState, monitorState, declared, bounds, history>>

\* The task is aborted, with what it had left to report, and what only its baseline
\* knew of a device whose value cannot be read.
Disappear ==
  /\ OnRemoved
  /\ LET d == Head(removed)
         cut == IF d \in unread \/ todo[d] # <<>> \/ Lookup(conf[d]) = "malformed" THEN {d} ELSE {}
     IN  /\ todo' = [todo EXCEPT ![d] = <<>>]
         /\ baseline' = [baseline EXCEPT ![d] = None]
         /\ excused' = excused \cup cut
         /\ irregular' = irregular \cup cut
  /\ UNCHANGED <<deviceState, monitorState, declared, bounds>>

\* What is cut when the process ends: changes nobody has read, or reported in full, the
\* first value of a device that has just come up, the calls of the monitor, and what
\* only the baseline knew of a device whose value cannot be read.
CutShort ==
  unread \cup {d \in Devices : todo[d] # <<>> \/ Lookup(conf[d]) = "malformed"}
    \cup {d \in present : watch[d] # "running"}
    \cup {calls[i].path : i \in DOMAIN calls} \cup (IF report = None THEN {} ELSE {report.path})

\* The process dies, or drains and exits, and systemd starts it again. Nothing of what
\* it knew is written down: the baselines are what the new watchers read first.
Restart ==
  /\ MoreEvents /\ faults < MaxFaults /\ faults' = faults + 1
  /\ StartAgain
  /\ unread' = {} /\ stamped' = {}
  /\ baseline' = [d \in Devices |-> None]
  /\ todo' = [d \in Devices |-> <<>>]
  /\ calls' = <<>> /\ report' = None
  /\ excused' = excused \cup CutShort
  /\ irregular' = irregular \cup CutShort
  /\ UNCHANGED <<conf, disk, declared, edits>>

--------------------------------------------------------------------------------
(* monitor.rs, report: one authorised call at a time *)

\* The device is stamped, then asked.
Stamp ==
  /\ report = None /\ calls # <<>>
  /\ LET call == Head(calls)
     IN  /\ stamped' = stamped \cup {call.path}
         /\ report' = [path |-> call.path,
                       left |-> LibraryCalls(call.intent, disk[call.path], call.path \in Luks)]
  /\ calls' = Tail(calls)
  /\ UNCHANGED <<watcherVars, deviceState, watcherState, declared, bounds, history>>

Remaining == IF Len(report.left) = 1 THEN None ELSE [report EXCEPT !.left = Tail(@)]

\* The stamp is to outlast the rebuilds of the report.
Declare ==
  /\ report # None
  /\ Commit(Head(report.left))
  /\ report' = Remaining
  /\ UNCHANGED <<watcherVars, watcherState, calls, stamped, bounds, irregular>>
  /\ Excuse({report.path} \ stamped)

\* The first error ends the report.
DeclareFails ==
  /\ report # None
  /\ report' = None
  /\ Fault({report.path})
  /\ UNCHANGED <<watcherVars, deviceState, watcherState, calls, stamped, declared>>

\* ECHO_WINDOW passes: an echo not read yet will be taken for a change.
Expire(d) ==
  /\ d \in stamped
  /\ stamped' = stamped \ {d}
  /\ UNCHANGED <<watcherVars, deviceState, watcherState, calls, report, declared, bounds, irregular>>
  /\ Excuse(unread \cap {d})

--------------------------------------------------------------------------------
(* UDisks2, its clients, and whoever edits /etc/fstab *)

Changes(d, c) ==
  /\ MoreEvents /\ edits < MaxEdits /\ edits' = edits + 1
  /\ d \in present
  /\ conf' = [conf EXCEPT ![d] = c]
  /\ unread' = unread \cup {d}
  /\ UNCHANGED <<watcherVars, watcherState, report, stamped, declared, faults>>

\* A change nobody asked UDisks2 for.
Edit(d, c) ==
  /\ c # conf[d]
  /\ Changes(d, c)
  /\ excused' = IF watch[d] = "running" THEN excused ELSE excused \cup {d}
  /\ irregular' = IF watch[d] = "running" THEN irregular ELSE irregular \cup {d}
  /\ UNCHANGED <<disk, calls>>

\* The file system is made anew and the entry comes back the same. Only at rest: what
\* was gathered of the old one is not then on its way to the configuration.
Remake(d) ==
  /\ watch[d] = "running" /\ todo[d] = <<>> /\ d \notin unread /\ Len(conf[d]) < 2
  /\ report = None /\ calls = <<>>
  /\ Changes(d, conf[d])
  /\ \E k \in Disks(d) \ {disk[d]} : disk' = [disk EXCEPT ![d] = k]
  /\ UNCHANGED <<calls, history>>

\* UDisks2 writes what an authorised call asks, and replies.
Call(d, c) ==
  /\ Changes(d, c)
  /\ "malformed" \notin {Lookup(conf[d]), Lookup(c)}
  /\ c # conf[d] /\ Len(conf[d]) < 2
  /\ LET member == CASE conf[d] = <<>> -> "AddConfigurationItem"
                     [] c = <<>> -> "RemoveConfigurationItem"
                     [] OTHER -> "UpdateConfigurationItem"
         intent == Intent(member, conf[d] \o c)
     IN  calls' = IF intent = None THEN calls ELSE Append(calls, [path |-> d, intent |-> intent])
  /\ irregular' = irregular \cup {d}
  /\ UNCHANGED <<disk, excused>>

Come(d) ==
  /\ MoreEvents
  /\ Plug(d) \/ Unplug(d)
  /\ UNCHANGED <<deviceState, watcherState, monitorState, declared, bounds, history>>

Next ==
  \/ Appear \/ Disappear \/ Restart \/ Stamp \/ Declare \/ DeclareFails
  \/ \E d \in Devices :
       \/ FirstRead(d) \/ Read(d) \/ Gather(d) \/ WatchFails(d) \/ Report(d) \/ ReportFails(d)
       \/ Expire(d) \/ Come(d) \/ Remake(d)
       \/ \E c \in Configurations[d] : Edit(d, c) \/ Call(d, c)

Spec == Init /\ [][Next]_vars

--------------------------------------------------------------------------------
(* Properties *)

\* What is declared of a device's disks is what its fstab entries say.
Agrees(d) ==
  LET said == {ItemEntry(conf[d][i]) : i \in FstabPlaces(conf[d])}
  IN  /\ UNION {Declares(declared, k) : k \in Disks(d)} = {e.mount_point : e \in said}
      /\ \A e \in said :
           /\ declared[e.mount_point].disk = disk[d]
           /\ ToSet(declared[e.mount_point].options) = ToSet(OptionList(e.options))

Quiet == calls = <<>> /\ report = None /\ \A d \in Devices : todo[d] = <<>>

\* Whatever was merged, overwritten by a rebuild or read late, a watcher that has read
\* its last value and a monitor that has no call left agree with /etc/fstab (mod.rs,
\* Coalescing: "the reports always converge on the current configuration"). Not so
\* where a change was taken for an echo, cut off, made unwatched, or failed to report.
Converges ==
  Quiet => \A d \in present \ (unread \cup excused) :
             watch[d] = "running" /\ Lookup(conf[d]) # "malformed" => Agrees(d)

\* A watcher never rebuilds the system for nothing (mount_info.rs, same_options: "a
\* needless nixos-rebuild"): not for the relinked /etc/fstab that follows a report, its
\* own or another's, and not for options in another order. First reports apart.
NoNeedlessRebuild ==
  [][\A d \in Devices \ irregular : Report(d) /\ ~initial[d] => declared' # declared]_vars

\* A call UDisks2 authorised is reported once (mod.rs: recent "is what keeps such an
\* action reported once"): what its device's watcher is about to declare is never what
\* a call still to be reported asks for.
ReportedOnce ==
  \A d \in Devices, i \in DOMAIN calls :
    calls[i].path = d /\ Working(d) /\ Head(todo[d]).op = "add_mount" =>
      Head(todo[d]) # Head(LibraryCalls(calls[i].intent, disk[d], d \in Luks))
================================================================================
