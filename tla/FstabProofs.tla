------------------------------ MODULE FstabProofs ------------------------------
(***************************************************************************)
(* The fstab loop (udisks2/mod.rs, monitor.rs, recent.rs), for any devices *)
(* and mount points, and any number of plugs, edits, faults and restarts.  *)
(* Four arguments, each with an invariant of its own.                      *)
(*                                                                         *)
(* WInv, who is watched: a device that changed with nothing of it unread   *)
(* has one signal at most, in one of the two streams, which says what has  *)
(* become of it; it is in step with the map, or that signal away from it.  *)
(*                                                                         *)
(* FTypes, whose mount point it is: what a device's watcher, or the        *)
(* monitor for it, is about to report is about a mount point that fstab    *)
(* may give that device, and about its disks.                              *)
(*                                                                         *)
(* RInv, what a watcher knows: as long as only it reports about its        *)
(* device, what is declared of the device is what the steps it has left    *)
(* start from, and they lead to the last value it has read.                *)
(*                                                                         *)
(* CInv, where the reports lead: either the steps left of a device's       *)
(* watcher start from what is declared and lead to the value of its        *)
(* configuration, or a call or report about it is pending and nothing but  *)
(* its current disk is declared; a device without a watcher has, from the  *)
(* rebuild on, its own entry or none. Whom a call has overtaken is excused.*)
(***************************************************************************)
EXTENDS Fstab, OrderedProofs

Unread(s, d) == \E i \in 1 .. Len(s) : s[i] = d

OnceIn(s, d) == \A i, j \in 1 .. Len(s) : s[i] = d /\ s[j] = d => i = j

\* No stream before the subscription, no task before the listing.
ListensInOrder ==
  /\ listener # "listening" => added = <<>> /\ removed = <<>>
  /\ listener = "listing" => \A d \in Devices : watch[d] = "none"

\* One signal of the device at most, which says what has become of it.
OneSignal(d) ==
  /\ OnceIn(added, d) /\ OnceIn(removed, d)
  /\ ~(Unread(added, d) /\ Unread(removed, d))
  /\ Unread(added, d) => d \in present
  /\ Unread(removed, d) => d \notin present

\* The map follows the device, at a distance of one signal.
Follows(d) ==
  ~Unread(added, d) /\ ~Unread(removed, d) =>
    /\ d \in present <=> watch[d] # "none"
    /\ d \in present \ failed => Alive(d)

MapFollows == listener # "listing" => \A d \in Devices \ astray : OneSignal(d) /\ Follows(d)

WInv ==
  /\ WatchersTypeOK
  /\ ListensInOrder
  /\ MapFollows

--------------------------------------------------------------------------------
(* The streams *)

\* A signal that is read leaves the others.
LEMMA TailReads ==
  ASSUME NEW s \in Seq(Devices), s # <<>>
  PROVE  /\ Head(s) \in Devices /\ Unread(s, Head(s)) /\ Tail(s) \in Seq(Devices)
         /\ OnceIn(s, Head(s)) => ~Unread(Tail(s), Head(s))
         /\ \A d \in Devices :
              /\ OnceIn(s, d) => OnceIn(Tail(s), d)
              /\ d # Head(s) => (Unread(Tail(s), d) <=> Unread(s, d))
<1>1. /\ Head(s) = s[1] /\ Head(s) \in Devices
      /\ Tail(s) \in Seq(Devices) /\ Len(Tail(s)) = Len(s) - 1
      /\ \A j \in 1 .. Len(s) - 1 : Tail(s)[j] = s[j + 1]
  OBVIOUS
<1>2. Len(s) \in Nat \ {0}
  OBVIOUS
<1>3. Unread(s, Head(s))
  BY <1>1, <1>2 DEF Unread
<1>4. ASSUME OnceIn(s, Head(s)) PROVE ~Unread(Tail(s), Head(s))
  BY <1>1, <1>2, <1>4 DEF Unread, OnceIn
<1>5. ASSUME NEW d \in Devices, OnceIn(s, d) PROVE OnceIn(Tail(s), d)
  <2> SUFFICES ASSUME NEW i \in 1 .. Len(s) - 1, NEW j \in 1 .. Len(s) - 1, s[i + 1] = d, s[j + 1] = d
               PROVE  i = j
    BY <1>1 DEF OnceIn
  <2>1. i + 1 \in 1 .. Len(s) /\ j + 1 \in 1 .. Len(s)
    BY <1>2
  <2>2. i + 1 = j + 1
    BY <1>5, <2>1 DEF OnceIn
  <2> QED
    BY <2>2
<1>6. ASSUME NEW d \in Devices, d # Head(s), Unread(s, d) PROVE Unread(Tail(s), d)
  <2>1. PICK i \in 1 .. Len(s) : s[i] = d
    BY <1>6 DEF Unread
  <2>2. i # 1
    BY <1>1, <1>6, <2>1
  <2>3. i - 1 \in 1 .. Len(s) - 1 /\ Tail(s)[i - 1] = s[i]
    BY <1>1, <1>2, <2>2
  <2> QED
    BY <1>1, <2>1, <2>3 DEF Unread
<1>7. ASSUME NEW d \in Devices, Unread(Tail(s), d) PROVE Unread(s, d)
  BY <1>1, <1>2, <1>7 DEF Unread
<1> QED
  BY <1>1, <1>3, <1>4, <1>5, <1>6, <1>7

\* A signal that is emitted joins them.
LEMMA AppendEmits ==
  ASSUME NEW s \in Seq(Devices), NEW e \in Devices
  PROVE  /\ Append(s, e) \in Seq(Devices) /\ Unread(Append(s, e), e)
         /\ ~Unread(s, e) => OnceIn(Append(s, e), e)
         /\ \A d \in Devices : d # e =>
              /\ OnceIn(s, d) => OnceIn(Append(s, e), d)
              /\ Unread(Append(s, e), d) <=> Unread(s, d)
<1>1. /\ Append(s, e) \in Seq(Devices) /\ Len(Append(s, e)) = Len(s) + 1
      /\ \A j \in 1 .. Len(s) : Append(s, e)[j] = s[j]
      /\ Append(s, e)[Len(s) + 1] = e
  OBVIOUS
<1>2. Len(s) \in Nat
  OBVIOUS
<1>3. Unread(Append(s, e), e) /\ (~Unread(s, e) => OnceIn(Append(s, e), e))
  BY <1>1, <1>2 DEF OnceIn, Unread
<1>4. ASSUME NEW d \in Devices, d # e
      PROVE  /\ OnceIn(s, d) => OnceIn(Append(s, e), d)
             /\ Unread(Append(s, e), d) <=> Unread(s, d)
  BY <1>1, <1>2, <1>4 DEF OnceIn, Unread
<1> QED
  BY <1>1, <1>3, <1>4

\* A signal that is unread, in either stream.
LEMMA SignalledIsUnread ==
  ASSUME WatchersTypeOK, NEW d \in Devices
  PROVE  Signalled(d) <=> Unread(added, d) \/ Unread(removed, d)
BY DEF WatchersTypeOK, Signalled, Unread, ToSet

--------------------------------------------------------------------------------
(* The steps *)

LEMMA WInitInductive == Init => WInv
BY WatchersAssumption DEF Init, WatchersInit, WInv, WatchersTypeOK, ListensInOrder, MapFollows

\* The steps of the listener, of its tasks, of the devices and of systemd on the map.
WStep ==
  \/ ListDevices \/ Subscribe \/ OnAdded \/ OnRemoved \/ StartAgain
  \/ \E d \in Devices :
       \/ End(d) \/ Plug(d) \/ Unplug(d)
       \/ /\ watch[d] = "new" /\ watch' = [watch EXCEPT ![d] = "running"]
          /\ UNCHANGED <<listener, deviceVars, initial, failed>>

\* The rest of the loop does not touch it.
LEMMA LoopStepsWatchers == [Next]_vars => [WStep]_watcherVars
<1> SUFFICES ASSUME Next PROVE [WStep]_watcherVars
  BY DEF vars
<1>1. CASE Appear \/ Disappear \/ Restart
  BY <1>1 DEF Appear, Disappear, Restart, WStep
<1>2. CASE Stamp \/ Declare \/ DeclareFails
  BY <1>2 DEF Stamp, Declare, DeclareFails, Fault
<1>3. ASSUME NEW d \in Devices, FirstRead(d) PROVE WStep
  BY <1>3 DEF FirstRead, WStep
<1>4. ASSUME NEW d \in Devices, WatchFails(d) \/ Come(d) PROVE WStep
  BY <1>4 DEF WatchFails, Come, WStep
<1>5. ASSUME NEW d \in Devices, Read(d) \/ Gather(d) \/ Report(d) \/ ReportFails(d) \/ Expire(d) \/ Remake(d)
      PROVE  UNCHANGED watcherVars
  BY <1>5 DEF Read, Gather, Report, ReportFails, Expire, Remake, Changes, Fault
<1>6. ASSUME NEW d \in Devices, NEW c \in Configurations[d], Edit(d, c) \/ Call(d, c)
      PROVE  UNCHANGED watcherVars
  BY <1>6 DEF Edit, Call, Changes
<1> QED
  BY <1>1, <1>2, <1>3, <1>4, <1>5, <1>6 DEF Next

LEMMA WatchersTypesKept == ASSUME WatchersTypeOK, [WStep]_watcherVars PROVE WatchersTypeOK'
<1> USE DEF deviceVars
<1>1. CASE UNCHANGED watcherVars
  BY <1>1 DEF watcherVars, WatchersTypeOK
<1>2. CASE ListDevices
  BY <1>2 DEF ListDevices, Spawn, WatchersTypeOK
<1>3. CASE Subscribe
  BY <1>3 DEF Subscribe, WatchersTypeOK
<1>4. CASE OnAdded
  <2>1. Tail(added) \in Seq(Devices)
    BY <1>4 DEF OnAdded, WatchersTypeOK
  <2> QED
    BY <1>4, <2>1 DEF OnAdded, Spawn, WatchersTypeOK
<1>5. CASE OnRemoved
  <2>1. Tail(removed) \in Seq(Devices)
    BY <1>5 DEF OnRemoved, WatchersTypeOK
  <2> QED
    BY <1>5, <2>1 DEF OnRemoved, WatchersTypeOK
<1>6. CASE StartAgain
  BY <1>6 DEF StartAgain, WatchersTypeOK
<1>7. ASSUME NEW d \in Devices, NEW to \in {"running", "ended"}, watch' = [watch EXCEPT ![d] = to],
             UNCHANGED <<listener, deviceVars, initial>>, failed' \subseteq Devices
      PROVE  WatchersTypeOK'
  BY <1>7 DEF WatchersTypeOK
<1>8. ASSUME NEW d \in Devices, Plug(d) \/ Unplug(d) PROVE WatchersTypeOK'
  <2>1. Append(added, d) \in Seq(Devices) /\ Append(removed, d) \in Seq(Devices)
    BY DEF WatchersTypeOK
  <2>2. plugs + 1 \in 0 .. MaxPlugs
    BY <1>8, WatchersAssumption DEF Plug, Unplug, WatchersTypeOK
  <2> QED
    BY <1>8, <2>1, <2>2 DEF Plug, Unplug, Signal, Tell, WatchersTypeOK
<1>9. ASSUME NEW d \in Devices, End(d) PROVE WatchersTypeOK'
  BY <1>7, <1>9 DEF End, WatchersTypeOK
<1>10. ASSUME NEW d \in Devices, watch' = [watch EXCEPT ![d] = "running"],
              UNCHANGED <<listener, deviceVars, initial, failed>>
       PROVE  WatchersTypeOK'
  BY <1>7, <1>10 DEF WatchersTypeOK
<1> QED
  BY <1>1, <1>2, <1>3, <1>4, <1>5, <1>6, <1>7, <1>8, <1>9, <1>10 DEF WStep

\* A device comes or goes: with nothing of it unread its signal is the only one, and else
\* it goes astray. The others are left alone.
LEMMA TellsOfOne ==
  ASSUME WInv, NEW e \in Devices, Tell(e), UNCHANGED <<listener, watch>>,
         \A d \in Devices \ {e} : (d \in present' <=> d \in present) /\ (d \in failed' <=> d \in failed),
         \/ e \in present' /\ added' = Signal(added, e) /\ removed' = removed
         \/ e \notin present' /\ removed' = Signal(removed, e) /\ added' = added
  PROVE  MapFollows'
<1>1. /\ added \in Seq(Devices) /\ removed \in Seq(Devices)
      /\ Signalled(e) <=> Unread(added, e) \/ Unread(removed, e)
  BY SignalledIsUnread DEF WInv, WatchersTypeOK
<1>2. /\ added' \in {added, Append(added, e)} /\ removed' \in {removed, Append(removed, e)}
      /\ listener = "listening" =>
           \/ e \in present' /\ added' = Append(added, e) /\ removed' = removed
           \/ e \notin present' /\ removed' = Append(removed, e) /\ added' = added
  BY DEF Signal
<1>3. \A s \in {added, removed} :
        /\ Unread(Append(s, e), e)
        /\ ~Unread(s, e) => OnceIn(s, e) /\ OnceIn(Append(s, e), e)
        /\ \A d \in Devices : d # e =>
             /\ OnceIn(s, d) => OnceIn(Append(s, e), d)
             /\ Unread(Append(s, e), d) <=> Unread(s, d)
  <2> SUFFICES ASSUME NEW s \in Seq(Devices)
               PROVE  /\ Unread(Append(s, e), e)
                      /\ ~Unread(s, e) => OnceIn(s, e) /\ OnceIn(Append(s, e), e)
                      /\ \A d \in Devices : d # e =>
                           /\ OnceIn(s, d) => OnceIn(Append(s, e), d)
                           /\ Unread(Append(s, e), d) <=> Unread(s, d)
    BY <1>1
  <2>1. ~Unread(s, e) => OnceIn(s, e)
    BY DEF OnceIn, Unread
  <2> QED
    BY <2>1, AppendEmits
<1>4. ASSUME listener # "listing", NEW d \in Devices, d # e, d \notin astray' PROVE OneSignal(d)' /\ Follows(d)'
  <2>1. OneSignal(d) /\ Follows(d)
    BY <1>4 DEF WInv, MapFollows, Tell
  <2>2. /\ OnceIn(added, d) => OnceIn(added', d)
        /\ OnceIn(removed, d) => OnceIn(removed', d)
        /\ Unread(added', d) <=> Unread(added, d)
        /\ Unread(removed', d) <=> Unread(removed, d)
    BY <1>2, <1>3, <1>4
  <2>3. (d \in present' <=> d \in present) /\ (d \in failed' <=> d \in failed)
    BY <1>4
  <2> QED
    BY <2>1, <2>2, <2>3 DEF OneSignal, Follows, Alive
<1>5. ASSUME listener # "listing", e \notin astray' PROVE OneSignal(e)' /\ Follows(e)'
  <2>1. listener = "listening" /\ ~Unread(added, e) /\ ~Unread(removed, e)
    BY <1>1, <1>5 DEF Tell, WInv, WatchersTypeOK
  <2>2. /\ OnceIn(added', e) /\ OnceIn(removed', e)
        /\ Unread(added', e) <=> e \in present'
        /\ Unread(removed', e) <=> e \notin present'
    BY <1>2, <1>3, <2>1
  <2> QED
    BY <2>2 DEF OneSignal, Follows
<1> QED
  BY <1>4, <1>5 DEF MapFollows

\* One step per action; under it, one per conjunct that the action can disturb.
LEMMA WInductive == ASSUME WInv, [WStep]_watcherVars PROVE WInv'
<1> USE DEF deviceVars
<1>0. WatchersTypeOK'
  BY WatchersTypesKept DEF WInv
<1>1. CASE UNCHANGED watcherVars
  BY <1>0, <1>1 DEF watcherVars, WInv, ListensInOrder, MapFollows, OneSignal, Follows, Alive
<1>2. CASE ListDevices
  <2>1. /\ listener = "listing" /\ listener' = "subscribing"
        /\ UNCHANGED <<present, added, removed, plugs, astray, failed>>
        /\ added = <<>> /\ removed = <<>>
        /\ watch' = [d \in Devices |-> IF d \in present THEN "new" ELSE "none"]
    BY <1>2 DEF ListDevices, Spawn, Alive, WInv, WatchersTypeOK, ListensInOrder
  <2>2. ListensInOrder' /\ MapFollows'
    BY <2>1 DEF ListensInOrder, MapFollows, OneSignal, OnceIn, Follows, Unread, Alive
  <2> QED
    BY <1>0, <2>2 DEF WInv
<1>3. CASE Subscribe
  BY <1>0, <1>3 DEF Subscribe, WInv, ListensInOrder, MapFollows, OneSignal, Follows, Alive
<1>4. CASE OnAdded
  <2> DEFINE e == Head(added)
  <2>1. /\ e \in Devices /\ Unread(added, e)
        /\ OnceIn(added, e) => ~Unread(Tail(added), e)
        /\ \A d \in Devices :
             /\ OnceIn(added, d) => OnceIn(Tail(added), d)
             /\ d # e => (Unread(Tail(added), d) <=> Unread(added, d))
    BY <1>4, TailReads DEF OnAdded, WInv, WatchersTypeOK
  <2>2. /\ listener = "listening" /\ listener' = listener /\ added' = Tail(added)
        /\ UNCHANGED <<present, removed, astray, failed>>
        /\ \A d \in Devices : watch'[d] = IF d = e /\ ~Alive(d) THEN "new" ELSE watch[d]
    BY <1>4 DEF OnAdded, Spawn
  <2> HIDE DEF e
  <2>3. ASSUME NEW d \in Devices \ astray, OneSignal(d), Follows(d) PROVE OneSignal(d)' /\ Follows(d)'
    <3>1. CASE d = e
      BY <2>1, <2>2, <2>3, <3>1 DEF OneSignal, Follows, Alive
    <3>2. CASE d # e
      BY <2>1, <2>2, <2>3, <3>2 DEF OneSignal, Follows, Alive
    <3> QED
      BY <3>1, <3>2
  <2>4. ListensInOrder' /\ MapFollows'
    BY <2>2, <2>3 DEF WInv, ListensInOrder, MapFollows
  <2> QED
    BY <1>0, <2>4 DEF WInv
<1>5. CASE OnRemoved
  <2> DEFINE e == Head(removed)
  <2>1. /\ e \in Devices /\ Unread(removed, e)
        /\ OnceIn(removed, e) => ~Unread(Tail(removed), e)
        /\ \A d \in Devices :
             /\ OnceIn(removed, d) => OnceIn(Tail(removed), d)
             /\ d # e => (Unread(Tail(removed), d) <=> Unread(removed, d))
    BY <1>5, TailReads DEF OnRemoved, WInv, WatchersTypeOK
  <2>2. /\ listener = "listening" /\ listener' = listener /\ removed' = Tail(removed)
        /\ UNCHANGED <<present, added, astray, failed>>
        /\ \A d \in Devices : watch'[d] = IF d = e THEN "none" ELSE watch[d]
    BY <1>5 DEF OnRemoved, WInv, WatchersTypeOK
  <2> HIDE DEF e
  <2>3. ASSUME NEW d \in Devices \ astray, OneSignal(d), Follows(d) PROVE OneSignal(d)' /\ Follows(d)'
    <3>1. CASE d = e
      BY <2>1, <2>2, <2>3, <3>1 DEF OneSignal, Follows, Alive
    <3>2. CASE d # e
      BY <2>1, <2>2, <2>3, <3>2 DEF OneSignal, Follows, Alive
    <3> QED
      BY <3>1, <3>2
  <2>4. ListensInOrder' /\ MapFollows'
    BY <2>2, <2>3 DEF WInv, ListensInOrder, MapFollows
  <2> QED
    BY <1>0, <2>4 DEF WInv
<1>6. CASE StartAgain
  BY <1>0, <1>6 DEF StartAgain, WInv, ListensInOrder, MapFollows
<1>7. ASSUME NEW e \in Devices, NEW to \in {"running", "ended"}, Alive(e),
             watch' = [watch EXCEPT ![e] = to], failed \subseteq failed', to = "ended" => e \in failed',
             UNCHANGED <<listener, present, added, removed, astray>>
      PROVE  WInv'
  <2>1. \A d \in Devices :
          /\ watch'[d] = "none" <=> watch[d] = "none"
          /\ Alive(d) /\ d \notin failed' => watch'[d] \in {"new", "running"}
    BY <1>7 DEF WInv, WatchersTypeOK, Alive
  <2>2. ListensInOrder'
    BY <1>7, <2>1 DEF WInv, ListensInOrder
  <2>3. MapFollows'
    BY <1>7, <2>1 DEF WInv, MapFollows, OneSignal, Follows, Alive
  <2> QED
    BY <1>0, <2>2, <2>3 DEF WInv
<1>8. ASSUME NEW e \in Devices, Plug(e) \/ Unplug(e) PROVE WInv'
  <2>1. ListensInOrder'
    BY <1>8 DEF Plug, Unplug, Signal, WInv, ListensInOrder
  <2>2. ASSUME Plug(e) PROVE MapFollows'
    <3>1. /\ Tell(e) /\ UNCHANGED <<listener, watch>>
          /\ e \in present' /\ added' = Signal(added, e) /\ removed' = removed
          /\ \A d \in Devices \ {e} : (d \in present' <=> d \in present) /\ (d \in failed' <=> d \in failed)
      BY <2>2 DEF Plug
    <3> QED
      BY <3>1, TellsOfOne
  <2>3. ASSUME Unplug(e) PROVE MapFollows'
    <3>1. /\ Tell(e) /\ UNCHANGED <<listener, watch>>
          /\ e \notin present' /\ removed' = Signal(removed, e) /\ added' = added
          /\ \A d \in Devices \ {e} : (d \in present' <=> d \in present) /\ (d \in failed' <=> d \in failed)
      BY <2>3 DEF Unplug
    <3> QED
      BY <3>1, TellsOfOne
  <2> QED
    BY <1>0, <1>8, <2>1, <2>2, <2>3 DEF WInv
<1>9. ASSUME NEW d \in Devices, End(d) PROVE WInv'
  BY <1>7, <1>9 DEF End
<1>10. ASSUME NEW d \in Devices, watch[d] = "new", watch' = [watch EXCEPT ![d] = "running"],
              UNCHANGED <<listener, deviceVars, initial, failed>>
       PROVE  WInv'
  BY <1>7, <1>10 DEF Alive
<1> QED
  BY <1>1, <1>2, <1>3, <1>4, <1>5, <1>6, <1>8, <1>9, <1>10 DEF WStep

\* With every signal read, following is agreeing.
LEMMA WInvWatches == WInv => WatchedIsPresent
BY DEF WInv, MapFollows, Follows, SignalsRead, WatchedIsPresent, Unread

\* UDisks2 signals and select! (udisks2/mod.rs): whenever every signal has been read, the
\* devices that are there are those in the map of watchers, each with a task that runs
\* unless it has failed; whatever devices come and go at whatever moment, whichever stream
\* is read first, and whatever a restart forgets. A device that changed before the
\* subscription, or again before its last signal was read, is apart until it next changes
\* on its own.
THEOREM WatchedArePresent == Spec => []WatchedIsPresent
<1>1. WInv /\ [Next]_vars => WInv'
  BY LoopStepsWatchers, WInductive
<1> QED
  BY <1>1, WInitInductive, WInvWatches, PTL DEF Spec

--------------------------------------------------------------------------------
(* Whose mount point it is *)

\* No device is an unlocked LUKS volume. An options change declares such a volume again
\* as a plain device (mount_info.rs, report_options_changed), and the /etc/fstab of the
\* next rebuild then has the entry for the locked container instead.
NoVolumes == Luks = {}

\* The names of options that are not empty, and those of an option list.
Named == STRING \ {Empty}
Names(options) == ToSet(OptionList(options))

\* Some option has white space around it: not in a field of fstab, which ends at one.
Spaced ==
  \E d \in Devices : \E c \in Configurable(d) : \E i \in DOMAIN c :
    c[i].opts # None /\ \E j \in DOMAIN c[i].opts : c[i].opts[j].padded

Segments == {o \in Opts : o.padded => Spaced}

\* The mount points fstab may give a device, and what it may say of it.
Dirs(d) == {m \in MountPoints : \E c \in Configurable(d) : \E i \in DOMAIN c : c[i].dir = m}
ItemsOf(d) ==
  {item \in Items : item.dir \in Dirs(d) \cup {None} /\ item.opts \in Seq(Segments) \cup {None}}
Entries(d) == [mount_point : Dirs(d), options : Seq(Segments)]
Infos(d) == [mount_point : Dirs(d), options : Seq(Segments), disk : Disks(d)]

\* Whether the device can be declared as an unlocked volume.
Locks(d) == IF d \in Luks THEN BOOLEAN ELSE {FALSE}

\* What is declared of a device, and the library calls and steps about it.
IsDeclared(d, entry) == entry \in [disk : Disks(d), options : Seq(Named), luks : Locks(d)]

\* With the fields of its kind, and no other.
IsRecorded(d, call) ==
  call \in [op : {"add_mount"}, mount_point : Dirs(d), entry : [disk : Disks(d), options : Seq(Named), luks : Locks(d)]]
             \cup [op : {"remove_mount"}, mount_point : Dirs(d)]

IsCall(d, call) ==
  /\ call.op \in {"add_mount", "remove_mount"} /\ call.mount_point \in Dirs(d)
  /\ call.op = "add_mount" => IsDeclared(d, call.entry)
  /\ IsRecorded(d, call)

IsStep(d, step) ==
  \/ IsCall(d, step)
  \/ /\ step.op = "gather" /\ step.entry \in Entries(d)
     /\ step.old \in Infos(d) \cup {None} /\ step.suppress \in BOOLEAN

AreSteps(d, s) ==
  \/ s = <<>>
  \/ \E a : s = <<a>> /\ IsStep(d, a)
  \/ \E a, b : s = <<a, b>> /\ IsStep(d, a) /\ IsStep(d, b)

AreCalls(d, s) ==
  \/ \E a : s = <<a>> /\ IsCall(d, a)
  \/ \E a, b : s = <<a, b>> /\ IsCall(d, a) /\ IsCall(d, b)

\* The intents of authorised calls.
Intents(d) ==
  {Mount(e) : e \in Entries(d)} \cup {Unmount(e) : e \in Entries(d)}
    \cup {Options(e, o) : e \in Entries(d), o \in Seq(Segments)}
    \cup {Move(e, f) : e, f \in Entries(d)}

AuthorisedCalls == UNION {{[path |-> d, intent |-> i] : i \in Intents(d)} : d \in Devices}

DeviceTypes(d) ==
  /\ conf[d] \in Seq(ItemsOf(d))
  /\ disk[d] \in Disks(d)
  /\ baseline[d] \in Infos(d) \cup {None}
  /\ AreSteps(d, todo[d])
  /\ watch[d] = "running" \/ (baseline[d] = None /\ todo[d] = <<>>)

DeclaredTypes(ms) ==
  /\ DOMAIN ms = MountPoints
  /\ \A m \in MountPoints :
       ms[m] # None => \E d \in Devices : m \in Dirs(d) /\ IsDeclared(d, ms[m])

FTypes ==
  /\ WatchersTypeOK
  /\ DOMAIN conf = Devices /\ DOMAIN disk = Devices /\ DOMAIN baseline = Devices /\ DOMAIN todo = Devices
  /\ \A d \in Devices : DeviceTypes(d)
  /\ calls \in Seq(AuthorisedCalls)
  /\ report = None \/ \E d \in Devices : \E left : report = [path |-> d, left |-> left] /\ AreCalls(d, left)
  /\ stamped \cup unread \cup excused \cup irregular \subseteq Devices
  /\ DeclaredTypes(declared)

LEMMA DisksApart ==
  ASSUME NEW d \in Devices, NEW e \in Devices, NEW k \in Disks(d), k \in Disks(e) PROVE d = e
<1>1. k.device = d /\ k.device = e
  BY DEF Disks
<1> QED
  BY <1>1

\* The names of a list of options are those between the commas, without the empty ones.
LEMMA NamesListed ==
  ASSUME NEW a \in Seq(Segments)
  PROVE  /\ OptionList(a) \in Seq(Named)
         /\ Names(a) = {a[i].name : i \in DOMAIN a} \ {Empty}
<1> DEFINE S == {i \in DOMAIN a : a[i].name # Empty}
           at == InOrder(S)
           n == Cardinality(S)
<1>1. S \in SUBSET Nat /\ IsFiniteSet(S)
  <2>1. DOMAIN a = 1 .. Len(a) /\ Len(a) \in Nat
    OBVIOUS
  <2>2. IsFiniteSet(1 .. Len(a))
    BY <2>1, FS_Interval
  <2> QED
    BY <2>1, <2>2, FS_Subset
<1>2. S \subseteq DOMAIN a /\ \A i \in DOMAIN a : i \in S <=> a[i].name # Empty
  OBVIOUS
<1>3. OptionList(a) = [k \in DOMAIN at |-> a[at[k]].name]
  BY DEF OptionList
<1>0. ASSUME NEW i \in DOMAIN a PROVE a[i].name \in STRING
  <2>1. a[i] \in Segments
    OBVIOUS
  <2> QED
    BY <2>1 DEF Segments, Opts
<1> HIDE DEF S
<1>4. n \in Nat /\ at \in [1 .. n -> S] /\ \A i \in S : \E k \in 1 .. n : at[k] = i
  BY <1>1, InOrderLists
<1> HIDE DEF at, n
<1>5. Names(a) = {a[at[k]].name : k \in 1 .. n}
  BY <1>3, <1>4 DEF Names, ToSet
<1>6. OptionList(a) \in [1 .. n -> Named]
  BY <1>0, <1>2, <1>3, <1>4 DEF Named
<1>7. OptionList(a) \in Seq(Named)
  BY <1>4, <1>6
<1> QED
  BY <1>2, <1>4, <1>5, <1>7

\* The entries of the configuration for a disk, as /etc/fstab will have them.
LEMMA GeneratedLists ==
  ASSUME NEW ms, NEW k, Listed(ms, k) \subseteq MountPoints
  PROVE  LET item(m) == [kind |-> "fstab", dir |-> m,
                         opts |-> [i \in DOMAIN ms[m].options |-> [name |-> ms[m].options[i], padded |-> FALSE]]]
         IN  /\ Generated(ms, k) = SetToSeq({item(m) : m \in Listed(ms, k)})
             /\ IsFiniteSet({item(m) : m \in Listed(ms, k)})
<1> DEFINE D == Listed(ms, k)
           item(m) == [kind |-> "fstab", dir |-> m,
                       opts |-> [i \in DOMAIN ms[m].options |-> [name |-> ms[m].options[i], padded |-> FALSE]]]
<1>1. IsFiniteSet(D)
  BY FstabAssumption, FS_Subset
<1>2. Generated(ms, k) = SetToSeq({item(m) : m \in D})
  BY DEF Generated
<1> DEFINE S == {item(m) : m \in D}
<1> HIDE DEF D, item
<1>3. IsFiniteSet(S)
  <2> DEFINE f == [m \in D |-> item(m)]
  <2>1. f \in [D -> S] /\ \A x \in S : \E m \in D : f[m] = x
    OBVIOUS
  <2> HIDE DEF f, S
  <2>2. f \in Surjection(D, S)
    BY <2>1 DEF Surjection
  <2> QED
    BY <1>1, <2>2, FS_Surjection
<1> QED
  BY <1>2, <1>3 DEF D, item

LEMMA GeneratedTypes ==
  ASSUME NEW ms, DeclaredTypes(ms), NEW d \in Devices, NEW k \in Disks(d)
  PROVE  Generated(ms, k) \in Seq(ItemsOf(d))
<1> DEFINE item(m) == [kind |-> "fstab", dir |-> m,
                       opts |-> [i \in DOMAIN ms[m].options |-> [name |-> ms[m].options[i], padded |-> FALSE]]]
           S == {item(m) : m \in Listed(ms, k)}
<1>1. Listed(ms, k) \subseteq MountPoints
  BY DEF Listed, Declares
<1>2. Generated(ms, k) = SetToSeq(S) /\ IsFiniteSet(S)
  BY <1>1, GeneratedLists
<1>3. ASSUME NEW m \in Listed(ms, k) PROVE item(m) \in ItemsOf(d)
  <2>1. m \in MountPoints /\ ms[m] # None /\ ms[m].disk = k
    BY DEF Listed, Declares
  <2>2. PICK e \in Devices : m \in Dirs(e) /\ IsDeclared(e, ms[m])
    BY <2>1 DEF DeclaredTypes
  <2>3. e = d
    BY <2>1, <2>2, DisksApart DEF IsDeclared
  <2>4. /\ DOMAIN ms[m].options = 1 .. Len(ms[m].options) /\ Len(ms[m].options) \in Nat
        /\ \A i \in DOMAIN ms[m].options : ms[m].options[i] \in STRING
    <3>1. ms[m].options \in Seq(Named)
      BY <2>2 DEF IsDeclared
    <3> HIDE DEF item
    <3>2. \A i \in DOMAIN ms[m].options : ms[m].options[i] \in Named
      BY <3>1
    <3> QED
      BY <3>1, <3>2 DEF Named
  <2> DEFINE opts == [i \in DOMAIN ms[m].options |-> [name |-> ms[m].options[i], padded |-> FALSE]]
  <2>5. opts \in [1 .. Len(ms[m].options) -> Segments]
    BY <2>4 DEF Segments, Opts
  <2>6. opts \in Seq(Segments)
    <3> HIDE DEF opts
    <3> QED
      BY <2>4, <2>5
  <2>7. item(m) = [kind |-> "fstab", dir |-> m, opts |-> opts]
    OBVIOUS
  <2>8. m \in Dirs(d)
    BY <2>2, <2>3
  <2> HIDE DEF opts, item
  <2>9. opts \in Seq(Opts)
    BY <2>6 DEF Segments
  <2>10. item(m) \in Items
    BY <2>1, <2>7, <2>8, <2>9 DEF Items
  <2> QED
    BY <2>6, <2>7, <2>8, <2>10 DEF ItemsOf
<1>4. S \subseteq ItemsOf(d)
  BY <1>3
<1> HIDE DEF S
<1>5. /\ Cardinality(S) \in Nat
      /\ SetToSeq(S) \in [1 .. Cardinality(S) -> S]
  BY <1>2, SetToSeqLists
<1>6. SetToSeq(S) \in [1 .. Cardinality(S) -> ItemsOf(d)]
  BY <1>4, <1>5
<1> QED
  BY <1>2, <1>5, <1>6

\* Without unlocked volumes, every entry.
LEMMA AllListed ==
  ASSUME NoVolumes, NEW ms, DeclaredTypes(ms), NEW d \in Devices, NEW k \in Disks(d)
  PROVE  Listed(ms, k) = Declares(ms, k)
<1> SUFFICES ASSUME NEW m \in Declares(ms, k) PROVE ms[m].luks = FALSE
  BY DEF NoVolumes, Listed
<1>1. m \in MountPoints /\ ms[m] # None
  BY DEF Declares
<1>2. PICK e \in Devices : IsDeclared(e, ms[m])
  BY <1>1 DEF DeclaredTypes
<1> QED
  BY <1>2 DEF IsDeclared, Locks, NoVolumes

\* What the first fstab item of a configuration says.
LEMMA LookupTypes ==
  ASSUME NEW d, NEW c \in Seq(ItemsOf(d)), Lookup(c) = "entry"
  PROVE  LookupEntry(c) \in Entries(d) /\ LookupEntry(c) # None
<1>1. FstabPlaces(c) # {} /\ LookupEntry(c) # None
  BY DEF Lookup
<1>2. FstabPlaces(c) \in SUBSET Nat /\ FstabPlaces(c) \subseteq DOMAIN c
  BY DEF FstabPlaces
<1>3. PICK p \in FstabPlaces(c) : \A j \in FstabPlaces(c) : p <= j
  BY <1>1, <1>2, LeastOf
<1>4. Min(FstabPlaces(c)) \in FstabPlaces(c)
  BY <1>3 DEF Min
<1> DEFINE item == c[Min(FstabPlaces(c))]
<1>5. item \in ItemsOf(d)
  BY <1>2, <1>4
<1>6. LookupEntry(c) = FstabDetails(item)
  BY DEF LookupEntry
<1> HIDE DEF item
<1>7. /\ LookupEntry(c) = [mount_point |-> item.dir, options |-> item.opts]
      /\ item.dir # None /\ item.opts # None
  BY <1>1, <1>6 DEF FstabDetails
<1>8. item.dir \in Dirs(d) /\ item.opts \in Seq(Segments)
  BY <1>5, <1>7 DEF ItemsOf, Items
<1> QED
  BY <1>1, <1>7, <1>8 DEF Entries

\* What may be said of a device is about its mount points.
LEMMA ConfigurableItems ==
  ASSUME NEW d \in Devices PROVE Configurable(d) \subseteq Seq(ItemsOf(d))
<1> SUFFICES ASSUME NEW c \in Configurable(d) PROVE c \in Seq(ItemsOf(d))
  OBVIOUS
<1>1. c \in Seq(Items)
  BY FstabAssumption
<1>2. c \in [1 .. Len(c) -> Items] /\ Len(c) \in Nat
  BY <1>1
<1>3. ASSUME NEW i \in 1 .. Len(c) PROVE c[i] \in ItemsOf(d)
  <2>1. c[i] \in Items /\ i \in DOMAIN c
    BY <1>2
  <2>2. c[i].dir \in MountPoints \cup {None} /\ c[i].opts \in Seq(Opts) \cup {None}
    BY <2>1 DEF Items
  <2>3. ASSUME c[i].opts # None PROVE c[i].opts \in Seq(Segments)
    <3> DEFINE opts == c[i].opts
    <3>1. opts \in [1 .. Len(opts) -> Opts] /\ Len(opts) \in Nat
      BY <2>2, <2>3
    <3>2. ASSUME NEW j \in 1 .. Len(opts) PROVE opts[j] \in Segments
      BY <2>1, <2>3, <3>1, <3>2 DEF Segments, Spaced
    <3>3. opts \in [1 .. Len(opts) -> Segments]
      BY <3>1, <3>2
    <3> QED
      BY <3>1, <3>3
  <2> QED
    BY <2>1, <2>2, <2>3 DEF ItemsOf, Dirs
<1>4. c \in [1 .. Len(c) -> ItemsOf(d)]
  BY <1>2, <1>3
<1> QED
  BY <1>2, <1>4

\* The calls to the library are about the mount point of the entry.
LEMMA InfoTypes ==
  ASSUME NEW d, NEW e \in Entries(d), NEW k \in Disks(d)
  PROVE  /\ Info(e, k) \in Infos(d)
         /\ Info(e, k) = [mount_point |-> e.mount_point, options |-> e.options, disk |-> k]
BY DEF Info, Infos, Entries

\* A device that is no unlocked volume is declared a plain one.
LEMMA LockTypes ==
  ASSUME NEW d
  PROVE  FALSE \in Locks(d) /\ Locks(d) \subseteq BOOLEAN /\ (d \in Luks) \in Locks(d)
<1>1. CASE d \in Luks
  <2>1. Locks(d) = BOOLEAN /\ (d \in Luks) \in BOOLEAN
    BY <1>1 DEF Locks
  <2> QED
    BY <2>1
<1>2. CASE d \notin Luks
  <2>1. Locks(d) = {FALSE} /\ (d \in Luks) = FALSE
    BY <1>2 DEF Locks
  <2> QED
    BY <2>1
<1> QED
  BY <1>1, <1>2

LEMMA CallTypes ==
  ASSUME NEW d, NEW i \in Infos(d)
  PROVE  /\ IsCall(d, RemoveMount(i))
         /\ \A luks \in Locks(d) : IsCall(d, ReportMount(i, luks))
         /\ \A o \in Seq(Segments) : IsCall(d, ReportOptionsChanged(i, o))
<1>1. /\ i = [mount_point |-> i.mount_point, options |-> i.options, disk |-> i.disk]
      /\ i.mount_point \in Dirs(d) /\ i.disk \in Disks(d) /\ i.options \in Seq(Segments)
  BY DEF Infos
<1>2. ASSUME NEW o \in Seq(Segments), NEW luks \in Locks(d), NEW j, j.mount_point = i.mount_point, j.disk = i.disk, j.options = o
      PROVE  IsCall(d, AddMount(j, luks))
  <2>1. OptionList(o) \in Seq(Named)
    BY NamesListed
  <2>2. AddMount(j, luks) =
          [op |-> "add_mount", mount_point |-> i.mount_point,
           entry |-> [disk |-> i.disk, options |-> OptionList(o), luks |-> luks]]
    BY <1>2 DEF AddMount
  <2>3. IsRecorded(d, AddMount(j, luks))
    BY <1>1, <2>1, <2>2 DEF IsRecorded
  <2> QED
    BY <1>1, <2>1, <2>2, <2>3 DEF IsCall, IsDeclared
<1>3. IsCall(d, RemoveMount(i))
  BY <1>1 DEF RemoveMount, IsCall, IsRecorded
<1>4. \A luks \in Locks(d) : IsCall(d, ReportMount(i, luks))
  BY <1>1, <1>2 DEF ReportMount
<1>5. ASSUME NEW o \in Seq(Segments) PROVE IsCall(d, ReportOptionsChanged(i, o))
  <2> DEFINE j == [i EXCEPT !.options = o]
  <2>1. j.mount_point = i.mount_point /\ j.disk = i.disk /\ j.options = o
    BY <1>1
  <2>2. ReportOptionsChanged(i, o) = AddMount(j, FALSE)
    BY DEF ReportOptionsChanged
  <2> HIDE DEF j
  <2> QED
    BY <1>2, <2>1, <2>2, LockTypes
<1> QED
  BY <1>3, <1>4, <1>5

\* What an authorised call comes down to is about its device.
LEMMA LibraryCallTypes ==
  ASSUME NEW d, NEW i \in Intents(d), NEW k \in Disks(d), NEW luks \in Locks(d)
  PROVE  AreCalls(d, LibraryCalls(i, k, luks))
<1>1. ASSUME NEW e \in Entries(d)
      PROVE  /\ IsCall(d, ReportMount(Info(e, k), luks))
             /\ IsCall(d, RemoveMount(Info(e, k)))
             /\ \A o \in Seq(Segments) : IsCall(d, ReportOptionsChanged(Info(e, k), o))
  BY InfoTypes, CallTypes
<1>2. CASE \E e \in Entries(d) : i = Mount(e)
  <2>1. PICK e \in Entries(d) : i = Mount(e)
    BY <1>2
  <2>2. LibraryCalls(i, k, luks) = <<ReportMount(Info(e, k), luks)>>
    BY <2>1 DEF LibraryCalls, Mount
  <2> QED
    BY <1>1, <2>1, <2>2 DEF AreCalls
<1>3. CASE \E e \in Entries(d) : i = Unmount(e)
  <2>1. PICK e \in Entries(d) : i = Unmount(e)
    BY <1>3
  <2>2. LibraryCalls(i, k, luks) = <<RemoveMount(Info(e, k))>>
    BY <2>1 DEF LibraryCalls, Unmount
  <2> QED
    BY <1>1, <2>1, <2>2 DEF AreCalls
<1>4. CASE \E e \in Entries(d), o \in Seq(Segments) : i = Options(e, o)
  <2>1. PICK e \in Entries(d), o \in Seq(Segments) : i = Options(e, o)
    BY <1>4
  <2>2. LibraryCalls(i, k, luks) = <<ReportOptionsChanged(Info(e, k), o)>>
    BY <2>1 DEF LibraryCalls, Options
  <2> QED
    BY <1>1, <2>1, <2>2 DEF AreCalls
<1>5. CASE \E e, f \in Entries(d) : i = Move(e, f)
  <2>1. PICK e \in Entries(d), f \in Entries(d) : i = Move(e, f)
    BY <1>5
  <2>2. LibraryCalls(i, k, luks) = <<RemoveMount(Info(e, k)), ReportMount(Info(f, k), luks)>>
    BY <2>1 DEF LibraryCalls, Move
  <2> QED
    BY <1>1, <2>1, <2>2 DEF AreCalls
<1> QED
  BY <1>2, <1>3, <1>4, <1>5 DEF Intents

--------------------------------------------------------------------------------
(* Types *)

\* One step or two, put together.
LEMMA SeqOfTwo == \A x : <<>> \o <<x>> = <<x>> /\ \A y : <<y>> \o <<x>> = <<y, x>>
<1>1. ASSUME NEW x PROVE <<>> \o <<x>> = <<x>>
  <2>1. /\ Len(<<>> \o <<x>>) = 1 /\ (<<>> \o <<x>>)[1] = x
        /\ <<>> \o <<x>> \in Seq({x})
    OBVIOUS
  <2> QED
    BY <2>1
<1>2. ASSUME NEW x, NEW y PROVE <<y>> \o <<x>> = <<y, x>>
  <2>1. /\ Len(<<y>> \o <<x>>) = 2 /\ (<<y>> \o <<x>>)[1] = y /\ (<<y>> \o <<x>>)[2] = x
        /\ <<y>> \o <<x>> \in Seq({x, y})
    OBVIOUS
  <2>2. <<y>> \o <<x>> = [i \in 1 .. 2 |-> IF i = 1 THEN y ELSE x]
    BY <2>1
  <2>3. <<y, x>> = [i \in 1 .. 2 |-> IF i = 1 THEN y ELSE x]
    OBVIOUS
  <2> QED
    BY <2>2, <2>3
<1> QED
  BY <1>1, <1>2

\* The match of watch_configuration.
LEMMA StepsTypes ==
  ASSUME NEW d, NEW old \in Infos(d) \cup {None}, NEW lookup, NEW entry, NEW suppress \in BOOLEAN,
         lookup \in {"absent", "malformed"} \/ (lookup = "entry" /\ entry \in Entries(d))
  PROVE  AreSteps(d, Steps(old, lookup, entry, suppress))
<1>1. old # None => IsStep(d, RemoveMount(old))
  BY CallTypes DEF IsStep
<1>2. lookup = "entry" => \A o \in Infos(d) \cup {None} : IsStep(d, GatherStep(entry, o, suppress))
  BY DEF IsStep, GatherStep
<1> DEFINE unmount == IF suppress \/ old = None THEN <<>> ELSE <<RemoveMount(old)>>
<1>4. CASE lookup = "malformed"
  <2>1. Steps(old, lookup, entry, suppress) = <<>>
    BY <1>4 DEF Steps
  <2> QED
    BY <2>1 DEF AreSteps
<1>5. CASE lookup = "absent"
  <2>1. Steps(old, lookup, entry, suppress) = unmount
    BY <1>5 DEF Steps
  <2> QED
    BY <1>1, <2>1 DEF AreSteps
<1>6. CASE lookup = "entry" /\ old # None /\ old.mount_point = entry.mount_point
  <2>1. Steps(old, lookup, entry, suppress) = <<GatherStep(entry, old, suppress)>>
    BY <1>6 DEF Steps
  <2> QED
    BY <1>2, <1>6, <2>1 DEF AreSteps
<1>7. CASE lookup = "entry" /\ ~(old # None /\ old.mount_point = entry.mount_point)
  <2>1. Steps(old, lookup, entry, suppress) = unmount \o <<GatherStep(entry, None, suppress)>>
    BY <1>7 DEF Steps
  <2>2. IsStep(d, GatherStep(entry, None, suppress))
    BY <1>2, <1>7
  <2> QED
    BY <1>1, <2>1, <2>2, SeqOfTwo DEF AreSteps
<1> QED
  BY <1>4, <1>5, <1>6, <1>7

\* What is left after a step that has been taken.
LEMMA StepTaken ==
  ASSUME NEW d, NEW s, AreSteps(d, s), s # <<>>
  PROVE  /\ IsStep(d, Head(s)) /\ AreSteps(d, Tail(s))
         /\ Len(s) = 1 => s = <<Head(s)>> /\ Tail(s) = <<>>
         /\ Len(s) # 1 => \E b : s = <<Head(s), b>> /\ Tail(s) = <<b>> /\ IsStep(d, b)
<1>1. \A a : Head(<<a>>) = a /\ Tail(<<a>>) = <<>> /\ Len(<<a>>) = 1
  OBVIOUS
<1>2. \A a, b : Head(<<a, b>>) = a /\ Tail(<<a, b>>) = <<b>> /\ Len(<<a, b>>) = 2
  OBVIOUS
<1>3. CASE \E a : s = <<a>> /\ IsStep(d, a)
  BY <1>1, <1>3 DEF AreSteps
<1>4. CASE \E a, b : s = <<a, b>> /\ IsStep(d, a) /\ IsStep(d, b)
  BY <1>2, <1>4 DEF AreSteps
<1> QED
  BY <1>3, <1>4 DEF AreSteps

\* What watch_configuration reports once it has asked the device.
LEMMA GatheredTypes ==
  ASSUME NEW d \in Devices, NEW step, IsStep(d, step), step.op = "gather", NEW k \in Disks(d)
  PROVE  /\ Info(step.entry, k) \in Infos(d)
         /\ step.entry \in Entries(d) /\ step.suppress \in BOOLEAN
         /\ step.old \in Infos(d) \cup {None}
         /\ AreSteps(d, CASE step.suppress -> <<>>
                          [] ~step.suppress /\ step.old = None -> <<ReportMount(Info(step.entry, k), d \in Luks)>>
                          [] OTHER -> Remounted(d, step.old, Info(step.entry, k)))
<1>1. step.entry \in Entries(d) /\ step.old \in Infos(d) \cup {None} /\ step.suppress \in BOOLEAN
  BY DEF IsStep, IsCall
<1> DEFINE fresh == Info(step.entry, k)
<1>2. fresh \in Infos(d)
  BY <1>1, InfoTypes
<1> HIDE DEF fresh
<1>3. fresh.options \in Seq(Segments)
  BY <1>2 DEF Infos
<1>4. IsStep(d, ReportMount(fresh, d \in Luks))
  <2>1. (d \in Luks) \in Locks(d)
    BY LockTypes
  <2>2. \A luks \in Locks(d) : IsCall(d, ReportMount(fresh, luks))
    BY <1>2, CallTypes
  <2> QED
    BY <2>1, <2>2 DEF IsStep
<1>5. ASSUME step.old \in Infos(d) PROVE AreSteps(d, Remounted(d, step.old, fresh))
  <2>1. IsStep(d, RemoveMount(step.old)) /\ IsStep(d, ReportOptionsChanged(step.old, fresh.options))
    BY <1>3, <1>5, CallTypes DEF IsStep
  <2> QED
    BY <1>4, <2>1 DEF Remounted, AreSteps
<1> QED
  BY <1>1, <1>2, <1>4, <1>5 DEF AreSteps, fresh


LEMMA IntentTypes ==
  ASSUME NEW d, NEW member, NEW items \in Seq(ItemsOf(d)), Intent(member, items) # None
  PROVE  Intent(member, items) \in Intents(d)
<1> DEFINE entry == [i \in DOMAIN items |-> ItemEntry(items[i])]
           all(n) == Len(items) = n /\ None \notin ToSet(entry)
<1>1. DOMAIN items = 1 .. Len(items) /\ Len(items) \in Nat
  OBVIOUS
<1>2. ASSUME NEW i \in DOMAIN items, None \notin ToSet(entry) PROVE entry[i] \in Entries(d)
  <2>1. items[i] \in ItemsOf(d)
    BY <1>1
  <2>2. entry[i] = ItemEntry(items[i]) /\ entry[i] # None
    BY <1>2 DEF ToSet
  <2> DEFINE item == items[i]
  <2>3. item.dir \in Dirs(d) \cup {None} /\ item.opts \in Seq(Segments) \cup {None}
    BY <2>1 DEF ItemsOf, Items
  <2>4. entry[i] = [mount_point |-> item.dir, options |-> item.opts] /\ item.dir # None /\ item.opts # None
    BY <2>2 DEF ItemEntry, FstabDetails
  <2> HIDE DEF item, entry
  <2> QED
    BY <2>3, <2>4 DEF Entries
<1>3. Intent(member, items) =
        CASE member = "AddConfigurationItem" /\ all(1) -> Mount(entry[1])
          [] member = "RemoveConfigurationItem" /\ all(1) -> Unmount(entry[1])
          [] member = "UpdateConfigurationItem" /\ all(2) -> Update(entry[1], entry[2])
          [] OTHER -> None
  BY DEF Intent
<1>4. all(1) => entry[1] \in Entries(d)
  BY <1>1, <1>2
<1>5. all(2) => entry[1] \in Entries(d) /\ entry[2] \in Entries(d)
  BY <1>1, <1>2
<1> HIDE DEF all, entry
<1>6. CASE member = "AddConfigurationItem" /\ all(1)
  BY <1>3, <1>4, <1>6 DEF Intents
<1>7. CASE member = "RemoveConfigurationItem" /\ all(1)
  BY <1>3, <1>4, <1>7 DEF Intents
<1>8. CASE member = "UpdateConfigurationItem" /\ all(2)
  <2>1. Intent(member, items) = Update(entry[1], entry[2])
    BY <1>3, <1>8
  <2>2. entry[2].options \in Seq(Segments)
    BY <1>5, <1>8 DEF Entries
  <2> QED
    BY <1>5, <1>8, <2>1, <2>2 DEF Update, Intents
<1> QED
  BY <1>3, <1>6, <1>7, <1>8

\* A library call about a device leaves every declaration about the one it was about.
LEMMA CommitTypes ==
  ASSUME FTypes, NEW d \in Devices, NEW call, IsCall(d, call), Commit(call)
  PROVE  /\ DeclaredTypes(declared')
         /\ DOMAIN conf' = Devices /\ \A e \in Devices : conf'[e] \in Seq(ItemsOf(e))
         /\ unread' \subseteq Devices
<1>1. /\ declared' = Applied(declared, call) /\ disk' = disk
      /\ conf' = [e \in Devices |-> Generated(declared', disk[e])]
      /\ unread' = unread \cup {e \in Devices : conf'[e] # conf[e]}
  BY DEF Commit
<1>2. /\ DOMAIN declared = MountPoints /\ call.mount_point \in Dirs(d)
      /\ \A m \in MountPoints :
           declared[m] # None => \E e \in Devices : m \in Dirs(e) /\ IsDeclared(e, declared[m])
  BY DEF FTypes, DeclaredTypes, IsCall
<1>3. DOMAIN declared' = MountPoints
  BY <1>1, <1>2 DEF Applied
<1>4. ASSUME NEW m \in MountPoints, declared'[m] # None
      PROVE  \E e \in Devices : m \in Dirs(e) /\ IsDeclared(e, declared'[m])
  <2>1. CASE m = call.mount_point
    <3>1. declared'[m] = IF call.op = "add_mount" THEN call.entry ELSE None
      BY <1>1, <1>2, <2>1 DEF Applied
    <3>2. declared'[m] = call.entry /\ IsDeclared(d, call.entry)
      BY <1>4, <3>1 DEF IsCall
    <3> QED
      BY <1>2, <2>1, <3>2
  <2>2. CASE m # call.mount_point
    <3>1. declared'[m] = declared[m]
      BY <1>1, <1>2, <2>2 DEF Applied
    <3> QED
      BY <1>2, <1>4, <3>1
  <2> QED
    BY <2>1, <2>2
<1>5. DeclaredTypes(declared')
  BY <1>3, <1>4 DEF DeclaredTypes
<1> DEFINE ms == declared'
<1>6. ASSUME NEW e \in Devices PROVE conf'[e] \in Seq(ItemsOf(e))
  <2>1. conf'[e] = Generated(ms, disk[e]) /\ disk[e] \in Disks(e)
    BY <1>1 DEF FTypes, DeviceTypes
  <2>2. DeclaredTypes(ms)
    BY <1>5
  <2> HIDE DEF ms
  <2> QED
    BY <2>1, <2>2, GeneratedTypes
<1> QED
  BY <1>1, <1>5, <1>6 DEF FTypes

LEMMA FInitTypes == Init => FTypes
<1> SUFFICES ASSUME Init PROVE FTypes
  OBVIOUS
<1>1. WatchersTypeOK
  BY WatchersAssumption DEF Init, WatchersInit, WatchersTypeOK
<1>2. DOMAIN conf = Devices /\ \A d \in Devices : conf[d] \in Seq(ItemsOf(d))
  <2>1. \A d \in Devices : conf[d] \in Configurable(d)
    BY DEF Init, Configurable
  <2> QED
    BY <2>1, ConfigurableItems, FstabAssumption DEF Init
<1>3. \A d \in Devices : disk[d] \in Disks(d)
  BY DEF Init, Disks
<1>4. DeclaredTypes(declared)
  <2>1. DOMAIN declared = MountPoints
    BY DEF Init
  <2> SUFFICES ASSUME NEW m \in MountPoints, declared[m] # None
               PROVE  \E d \in Devices : m \in Dirs(d) /\ IsDeclared(d, declared[m])
    BY <2>1 DEF DeclaredTypes
  <2> DEFINE here == {d \in Devices : Lookup(conf[d]) = "entry" /\ LookupEntry(conf[d]).mount_point = m}
             e == CHOOSE d \in here : TRUE
  <2>2. declared[m] = IF here = {} THEN None
                      ELSE ReportMount(Info(LookupEntry(conf[e]), disk[e]), e \in Luks).entry
    BY DEF Init
  <2>3. here # {} /\ e \in here
    BY <2>2
  <2> HIDE DEF e
  <2>4. e \in Devices /\ Lookup(conf[e]) = "entry" /\ LookupEntry(conf[e]).mount_point = m
    BY <2>3
  <2> HIDE DEF here
  <2>5. LookupEntry(conf[e]) \in Entries(e)
    BY <1>2, <2>4, LookupTypes
  <2>6. Info(LookupEntry(conf[e]), disk[e]) \in Infos(e)
    BY <1>3, <2>4, <2>5, InfoTypes
  <2> DEFINE call == ReportMount(Info(LookupEntry(conf[e]), disk[e]), e \in Luks)
  <2>7. IsCall(e, call) /\ call.op = "add_mount"
    <3>1. (e \in Luks) \in Locks(e)
      BY LockTypes
    <3>2. \A luks \in Locks(e) : IsCall(e, ReportMount(Info(LookupEntry(conf[e]), disk[e]), luks))
      BY <2>6, CallTypes
    <3>3. IsCall(e, call)
      BY <3>1, <3>2
    <3> QED
      BY <3>3 DEF ReportMount, AddMount
  <2>8. declared[m] = call.entry
    BY <2>2, <2>3
  <2>9. m \in Dirs(e)
    BY <2>4, <2>5 DEF Entries
  <2> HIDE DEF call
  <2> QED
    BY <2>4, <2>7, <2>8, <2>9 DEF IsCall
<1>5. ASSUME NEW d \in Devices PROVE baseline[d] = None /\ todo[d] = <<>>
  BY DEF Init
<1>6. ASSUME NEW d \in Devices PROVE DeviceTypes(d)
  <2>1. AreSteps(d, todo[d])
    BY <1>5 DEF AreSteps
  <2> QED
    BY <1>2, <1>3, <1>5, <2>1 DEF DeviceTypes
<1>7. DOMAIN disk = Devices /\ DOMAIN baseline = Devices /\ DOMAIN todo = Devices
  BY DEF Init
<1>8. calls \in Seq(AuthorisedCalls) /\ report = None /\ stamped \cup unread \cup excused \cup irregular \subseteq Devices
  BY DEF Init
<1> QED
  BY <1>1, <1>2, <1>4, <1>6, <1>7, <1>8 DEF FTypes


\* One step per action.
LEMMA FTypesKept == ASSUME FTypes, [Next]_vars PROVE FTypes'
<1>0. WatchersTypeOK'
  BY LoopStepsWatchers, WatchersTypesKept DEF FTypes
<1> DEFINE Reports == report = None \/ \E d \in Devices : \E left :
                        report = [path |-> d, left |-> left] /\ AreCalls(d, left)
           Domains == DOMAIN conf = Devices /\ DOMAIN disk = Devices /\ DOMAIN baseline = Devices /\ DOMAIN todo = Devices
<1>1. CASE UNCHANGED vars
  BY <1>0, <1>1 DEF vars, watcherVars, deviceState, watcherState, monitorState, history, FTypes, DeviceTypes
<1>2. CASE Appear
  <2>1. \A d \in Devices : watch'[d] = "running" <=> watch[d] = "running"
    BY <1>2 DEF Appear, ListDevices, Subscribe, OnAdded, Spawn, Alive
  <2>2. UNCHANGED <<deviceState, watcherState, monitorState, declared, history>>
    BY <1>2 DEF Appear
  <2> QED
    BY <1>0, <2>1, <2>2 DEF deviceState, watcherState, monitorState, history, FTypes, DeviceTypes
<1>3. CASE Disappear
  <2>1. /\ removed # <<>> /\ watch' = [watch EXCEPT ![Head(removed)] = "none"]
        /\ todo' = [todo EXCEPT ![Head(removed)] = <<>>]
        /\ baseline' = [baseline EXCEPT ![Head(removed)] = None]
        /\ UNCHANGED <<deviceState, monitorState, declared>>
        /\ excused' \subseteq excused \cup {Head(removed)} /\ irregular' \subseteq irregular \cup {Head(removed)}
    BY <1>3 DEF Disappear, OnRemoved
  <2>2. Head(removed) \in Devices
    BY <2>1 DEF FTypes, WatchersTypeOK
  <2> DEFINE e == Head(removed)
  <2> HIDE DEF e
  <2>3. ASSUME NEW d \in Devices PROVE DeviceTypes(d)'
    BY <2>1, <2>2, <2>3 DEF e, FTypes, WatchersTypeOK, DeviceTypes, AreSteps, deviceState
  <2> QED
    BY <1>0, <2>1, <2>2, <2>3 DEF deviceState, monitorState, FTypes
<1>4. CASE Restart
  <2>1. /\ watch' = [d \in Devices |-> "none"] /\ baseline' = [d \in Devices |-> None] /\ todo' = [d \in Devices |-> <<>>]
        /\ unread' = {} /\ stamped' = {} /\ calls' = <<>> /\ report' = None
        /\ excused' = excused \cup CutShort /\ irregular' = irregular \cup CutShort
        /\ UNCHANGED <<conf, disk, declared>>
    BY <1>4 DEF Restart, StartAgain
  <2>2. CutShort \subseteq Devices
    <3>1. \A i \in DOMAIN calls : calls[i].path \in Devices
      <4> SUFFICES ASSUME NEW i \in DOMAIN calls PROVE calls[i].path \in Devices
        OBVIOUS
      <4>1. calls[i] \in AuthorisedCalls
        BY DEF FTypes
      <4> QED
        BY <4>1 DEF AuthorisedCalls
    <3>2. report # None => report.path \in Devices
      BY DEF FTypes
    <3>3. present \subseteq Devices /\ unread \subseteq Devices
      BY DEF FTypes, WatchersTypeOK
    <3> QED
      BY <3>1, <3>2, <3>3 DEF CutShort
  <2>3. ASSUME NEW d \in Devices PROVE DeviceTypes(d)'
    BY <2>1 DEF FTypes, DeviceTypes, AreSteps
  <2>4. calls' \in Seq(AuthorisedCalls)
    BY <2>1
  <2> QED
    BY <1>0, <2>1, <2>2, <2>3, <2>4 DEF FTypes
<1>5. CASE Stamp
  <2> DEFINE call == Head(calls)
             luks == call.path \in Luks
             left == LibraryCalls(call.intent, disk[call.path], luks)
  <2>0. luks \in Locks(call.path)
    BY LockTypes
  <2>1. /\ calls # <<>> /\ calls' = Tail(calls)
        /\ stamped' = stamped \cup {call.path} /\ report' = [path |-> call.path, left |-> left]
        /\ UNCHANGED <<watcherVars, deviceState, watcherState, declared, history>>
    BY <1>5 DEF Stamp
  <2>2. call \in AuthorisedCalls /\ Tail(calls) \in Seq(AuthorisedCalls)
    BY <2>1 DEF FTypes
  <2>3. call.path \in Devices /\ call.intent \in Intents(call.path)
    BY <2>2 DEF AuthorisedCalls
  <2>4. disk[call.path] \in Disks(call.path)
    BY <2>3 DEF FTypes, DeviceTypes
  <2> HIDE DEF call, luks
  <2>5. AreCalls(call.path, left)
    BY <2>0, <2>3, <2>4, LibraryCallTypes
  <2> HIDE DEF left
  <2>6. ASSUME NEW d \in Devices PROVE DeviceTypes(d)'
    BY <2>1 DEF deviceState, watcherState, watcherVars, FTypes, DeviceTypes
  <2>7. Reports'
    BY <2>1, <2>3, <2>5
  <2> QED
    BY <1>0, <2>1, <2>2, <2>3, <2>6, <2>7 DEF deviceState, watcherState, watcherVars, history, FTypes
<1>6. CASE Declare
  <2>0. PICK d \in Devices : \E left : report = [path |-> d, left |-> left] /\ AreCalls(d, left)
    BY <1>6 DEF Declare, FTypes
  <2>1. PICK left : report = [path |-> d, left |-> left] /\ AreCalls(d, left)
    BY <2>0
  <2>2. d \in Devices
    BY DEF FTypes
  <2>3. report.left = left
    BY <2>1
  <2>4. /\ IsCall(d, Head(left))
        /\ Len(left) = 1 \/ (Len(left) # 1 /\ AreCalls(d, Tail(left)))
    <3>1. CASE \E x : left = <<x>> /\ IsCall(d, x)
      BY <3>1
    <3>2. CASE \E x, y : left = <<x, y>> /\ IsCall(d, x) /\ IsCall(d, y)
      <4>1. PICK x, y : left = <<x, y>> /\ IsCall(d, x) /\ IsCall(d, y)
        BY <3>2
      <4>2. Head(left) = x /\ Tail(left) = <<y>> /\ Len(left) = 2
        BY <4>1
      <4> QED
        BY <4>1, <4>2 DEF AreCalls
    <3> QED
      BY <2>1, <3>1, <3>2 DEF AreCalls
  <2>5. /\ Commit(Head(left)) /\ disk' = disk
        /\ report' = IF Len(left) = 1 THEN None ELSE [report EXCEPT !.left = Tail(left)]
        /\ UNCHANGED <<watcherVars, watcherState, calls, stamped, irregular>>
        /\ excused' \subseteq excused \cup {d}
    BY <1>6, <2>1, <2>3 DEF Declare, Remaining, Excuse, Commit
  <2>6. /\ DeclaredTypes(declared')
        /\ DOMAIN conf' = Devices /\ \A e \in Devices : conf'[e] \in Seq(ItemsOf(e))
        /\ unread' \subseteq Devices
    BY <2>2, <2>4, <2>5, CommitTypes
  <2>7. ASSUME NEW e \in Devices PROVE DeviceTypes(e)'
    BY <2>5, <2>6 DEF watcherVars, watcherState, FTypes, DeviceTypes
  <2>8. Reports'
    <3>1. Len(left) # 1 => report' = [path |-> d, left |-> Tail(left)]
      BY <2>1, <2>5
    <3> QED
      BY <2>4, <2>5, <3>1
  <2>9. DeclaredTypes(declared)'
    BY <2>6 DEF DeclaredTypes
  <2> QED
    BY <1>0, <2>5, <2>6, <2>7, <2>8, <2>9 DEF watcherVars, watcherState, FTypes
<1>7. CASE DeclareFails
  <2>1. /\ report' = None /\ excused' = excused \cup {report.path} /\ irregular' = Devices
        /\ UNCHANGED <<watcherVars, deviceState, watcherState, calls, stamped, declared>>
        /\ report.path \in Devices
    BY <1>7 DEF DeclareFails, Fault, FTypes
  <2> QED
    BY <1>0, <2>1 DEF watcherVars, deviceState, watcherState, FTypes, DeviceTypes
<1>8. ASSUME NEW d \in Devices, FirstRead(d) PROVE FTypes'
  <2>1. /\ watch' = [watch EXCEPT ![d] = "running"] /\ unread' = unread \ {d}
        /\ todo' = [todo EXCEPT ![d] =
             IF Lookup(conf[d]) = "entry" THEN <<GatherStep(LookupEntry(conf[d]), None, ~initial[d])>> ELSE <<>>]
        /\ excused' \subseteq excused \cup {d} /\ irregular' \subseteq irregular \cup {d}
        /\ UNCHANGED <<conf, disk, baseline, monitorState, declared>>
    BY <1>8 DEF FirstRead
  <2>2. initial[d] \in BOOLEAN /\ watch \in [Devices -> {"none", "new", "running", "ended"}]
    BY DEF FTypes, WatchersTypeOK
  <2>3. AreSteps(d, todo'[d])
    <3>1. CASE Lookup(conf[d]) = "entry"
      <4>1. LookupEntry(conf[d]) \in Entries(d)
        BY <3>1, LookupTypes DEF FTypes, DeviceTypes
      <4>2. IsStep(d, GatherStep(LookupEntry(conf[d]), None, ~initial[d]))
        BY <2>2, <4>1 DEF IsStep, GatherStep
      <4>3. todo'[d] = <<GatherStep(LookupEntry(conf[d]), None, ~initial[d])>>
        BY <2>1, <3>1 DEF FTypes
      <4> QED
        BY <4>2, <4>3 DEF AreSteps
    <3>2. CASE Lookup(conf[d]) # "entry"
      BY <2>1, <3>2 DEF FTypes, AreSteps
    <3> QED
      BY <3>1, <3>2
  <2>4. ASSUME NEW e \in Devices PROVE DeviceTypes(e)'
    BY <2>1, <2>2, <2>3 DEF FTypes, DeviceTypes
  <2> QED
    BY <1>0, <2>1, <2>4 DEF monitorState, FTypes
<1>9. ASSUME NEW d \in Devices, Read(d) PROVE FTypes'
  <2> DEFINE lookup == Lookup(conf[d])
             entry == IF lookup = "entry" THEN LookupEntry(conf[d]) ELSE None
  <2>1. /\ watch[d] = "running" /\ unread' = unread \ {d}
        /\ todo' = [todo EXCEPT ![d] = Steps(baseline[d], lookup, entry, d \in stamped)]
        /\ baseline' = [baseline EXCEPT ![d] = IF lookup = "malformed" THEN @ ELSE None]
        /\ excused' \subseteq excused \cup {d}
        /\ UNCHANGED <<watcherVars, conf, disk, monitorState, declared, irregular>>
    BY <1>9 DEF Read, Excuse
  <2>2. lookup \in {"absent", "malformed"} \/ (lookup = "entry" /\ entry \in Entries(d))
    <3>1. lookup \in {"absent", "malformed", "entry"}
      BY DEF Lookup
    <3>2. lookup = "entry" => LookupEntry(conf[d]) \in Entries(d)
      BY LookupTypes DEF FTypes, DeviceTypes
    <3> QED
      BY <3>1, <3>2
  <2>3. baseline[d] \in Infos(d) \cup {None}
    BY DEF FTypes, DeviceTypes
  <2> DEFINE suppress == d \in stamped
  <2>0. suppress \in BOOLEAN
    OBVIOUS
  <2> HIDE DEF lookup, entry, suppress
  <2>4. AreSteps(d, Steps(baseline[d], lookup, entry, suppress))
    BY <2>0, <2>2, <2>3, StepsTypes
  <2>5. ASSUME NEW e \in Devices PROVE DeviceTypes(e)'
    BY <2>1, <2>3, <2>4 DEF suppress, watcherVars, FTypes, DeviceTypes
  <2> QED
    BY <1>0, <2>1, <2>5 DEF watcherVars, monitorState, FTypes
<1>10. ASSUME NEW d \in Devices, Gather(d) PROVE FTypes'
  <2> DEFINE step == Head(todo[d])
             fresh == Info(step.entry, disk[d])
             left == CASE step.suppress -> <<>>
                       [] ~step.suppress /\ step.old = None -> <<ReportMount(fresh, d \in Luks)>>
                       [] OTHER -> Remounted(d, step.old, fresh)
  <2>1. /\ watch[d] = "running" /\ todo[d] # <<>> /\ step.op = "gather"
        /\ baseline' = [baseline EXCEPT ![d] = fresh] /\ todo' = [todo EXCEPT ![d] = left]
        /\ excused' \subseteq excused
        /\ UNCHANGED <<watcherVars, deviceState, monitorState, declared, irregular>>
    BY <1>10 DEF Gather, Working, Excuse
  <2>2. IsStep(d, step) /\ disk[d] \in Disks(d)
    BY <2>1, StepTaken DEF FTypes, DeviceTypes
  <2> HIDE DEF step
  <2>3. fresh \in Infos(d) /\ AreSteps(d, left)
    BY <2>1, <2>2, GatheredTypes
  <2> HIDE DEF fresh, left
  <2>4. ASSUME NEW e \in Devices PROVE DeviceTypes(e)'
    BY <2>1, <2>3 DEF watcherVars, deviceState, FTypes, DeviceTypes
  <2> QED
    BY <1>0, <2>1, <2>4 DEF watcherVars, deviceState, monitorState, FTypes
<1>11. ASSUME NEW d \in Devices, Report(d) PROVE FTypes'
  <2>1. /\ watch[d] = "running" /\ todo[d] # <<>> /\ Head(todo[d]).op # "gather"
        /\ Commit(Head(todo[d])) /\ disk' = disk
        /\ todo' = [todo EXCEPT ![d] = Tail(@)] /\ excused' \subseteq excused
        /\ UNCHANGED <<watcherVars, baseline, monitorState, irregular>>
    BY <1>11 DEF Report, Working, Excuse, Commit
  <2>2. IsCall(d, Head(todo[d])) /\ AreSteps(d, Tail(todo[d]))
    BY <2>1, StepTaken DEF FTypes, DeviceTypes, IsStep
  <2>3. /\ DeclaredTypes(declared')
        /\ DOMAIN conf' = Devices /\ \A e \in Devices : conf'[e] \in Seq(ItemsOf(e))
        /\ unread' \subseteq Devices
    BY <2>1, <2>2, CommitTypes
  <2>4. ASSUME NEW e \in Devices PROVE DeviceTypes(e)'
    BY <2>1, <2>2, <2>3 DEF watcherVars, FTypes, DeviceTypes
  <2>5. DeclaredTypes(declared)'
    BY <2>3 DEF DeclaredTypes
  <2> QED
    BY <1>0, <2>1, <2>3, <2>4, <2>5 DEF watcherVars, monitorState, FTypes
<1>12. ASSUME NEW d \in Devices, ReportFails(d) \/ WatchFails(d) PROVE FTypes'
  <2>1. /\ todo' \in {[todo EXCEPT ![d] = Tail(@)], [todo EXCEPT ![d] = <<>>]}
        /\ \/ /\ todo[d] # <<>> /\ watch[d] = "running"
              /\ watch' = watch /\ baseline' = baseline
           \/ /\ watch' = [watch EXCEPT ![d] = "ended"] /\ todo' = [todo EXCEPT ![d] = <<>>]
              /\ baseline' = [baseline EXCEPT ![d] = None]
        /\ excused' = excused \cup {d} /\ irregular' = Devices
        /\ UNCHANGED <<deviceState, monitorState, declared>>
    BY <1>12 DEF ReportFails, WatchFails, Working, End, Fault, watcherVars
  <2>2. (todo[d] # <<>> => AreSteps(d, Tail(todo[d]))) /\ AreSteps(d, <<>>)
    BY StepTaken DEF FTypes, DeviceTypes, AreSteps
  <2>3. ASSUME NEW e \in Devices PROVE DeviceTypes(e)'
    BY <2>1, <2>2 DEF deviceState, FTypes, DeviceTypes, WatchersTypeOK
  <2>4. Domains'
    BY <2>1 DEF deviceState, FTypes
  <2> QED
    BY <1>0, <2>1, <2>3, <2>4 DEF deviceState, monitorState, FTypes
<1>13. ASSUME NEW d \in Devices, Expire(d) \/ Come(d) PROVE FTypes'
  <2>1. /\ watch' = watch /\ stamped' \subseteq stamped /\ excused' \subseteq excused \cup Devices
        /\ UNCHANGED <<deviceState, watcherState, calls, report, declared, irregular>>
    BY <1>13 DEF Expire, Excuse, Come, Plug, Unplug, watcherVars, monitorState, history, FTypes
  <2>2. Reports'
    BY <2>1 DEF FTypes
  <2> QED
    BY <1>0, <2>1, <2>2 DEF deviceState, watcherState, FTypes, DeviceTypes
<1>14. ASSUME NEW d \in Devices, NEW c \in Seq(ItemsOf(d)), Changes(d, c),
              disk' = disk \/ (\E k \in Disks(d) : disk' = [disk EXCEPT ![d] = k]),
              calls' \in Seq(AuthorisedCalls),
              excused' \subseteq excused \cup {d}, irregular' \subseteq irregular \cup {d}
       PROVE  FTypes'
  <2>1. /\ conf' = [conf EXCEPT ![d] = c] /\ unread' = unread \cup {d}
        /\ UNCHANGED <<watcherVars, watcherState, report, stamped, declared>>
    BY <1>14 DEF Changes
  <2>2. ASSUME NEW e \in Devices PROVE DeviceTypes(e)'
    BY <1>14, <2>1 DEF watcherVars, watcherState, FTypes, DeviceTypes
  <2> QED
    BY <1>0, <1>14, <2>1, <2>2 DEF watcherVars, watcherState, FTypes
<1>15. ASSUME NEW d \in Devices, Remake(d) PROVE FTypes'
  <2>1. /\ Changes(d, conf[d]) /\ UNCHANGED <<calls, history>>
        /\ \E k \in Disks(d) : disk' = [disk EXCEPT ![d] = k]
    BY <1>15 DEF Remake
  <2>2. conf[d] \in Seq(ItemsOf(d)) /\ calls \in Seq(AuthorisedCalls)
    BY DEF FTypes, DeviceTypes
  <2> QED
    BY <1>14, <2>1, <2>2 DEF history
<1>16. ASSUME NEW d \in Devices, NEW c \in Configurations[d], Edit(d, c) \/ Call(d, c) PROVE FTypes'
  <2>1. c \in Seq(ItemsOf(d)) /\ conf[d] \in Seq(ItemsOf(d))
    BY ConfigurableItems DEF Configurable, FTypes, DeviceTypes
  <2>2. /\ Changes(d, c) /\ disk' = disk
        /\ excused' \subseteq excused \cup {d} /\ irregular' \subseteq irregular \cup {d}
    BY <1>16 DEF Edit, Call
  <2>3. calls' \in Seq(AuthorisedCalls)
    <3>1. CASE Edit(d, c)
      BY <3>1 DEF Edit, FTypes
    <3>2. CASE Call(d, c)
      <4> DEFINE member == CASE conf[d] = <<>> -> "AddConfigurationItem"
                             [] c = <<>> -> "RemoveConfigurationItem"
                             [] OTHER -> "UpdateConfigurationItem"
                 i == Intent(member, conf[d] \o c)
      <4>1. calls' = IF i = None THEN calls ELSE Append(calls, [path |-> d, intent |-> i])
        BY <3>2 DEF Call
      <4> HIDE DEF member
      <4>2. conf[d] \o c \in Seq(ItemsOf(d))
        BY <2>1
      <4>3. i # None => i \in Intents(d)
        BY <4>2, IntentTypes
      <4> HIDE DEF i
      <4>4. i # None => [path |-> d, intent |-> i] \in AuthorisedCalls
        BY <4>3 DEF AuthorisedCalls
      <4> QED
        BY <4>1, <4>4 DEF FTypes
    <3> QED
      BY <1>16, <3>1, <3>2
  <2> QED
    BY <1>14, <2>1, <2>2, <2>3
<1> QED
  BY <1>1, <1>2, <1>3, <1>4, <1>5, <1>6, <1>7, <1>8, <1>9, <1>10, <1>11, <1>12, <1>13, <1>15, <1>16 DEF Next

LEMMA FTypesAreTypes == FTypes => TypeOK
<1> SUFFICES ASSUME FTypes PROVE TypeOK
  OBVIOUS
<1>1. ASSUME NEW d \in Devices
      PROVE  /\ disk[d] \in Disks(d)
             /\ watch[d] = "running" \/ (baseline[d] = None /\ todo[d] = <<>>)
             /\ baseline[d] = None \/ (baseline[d].mount_point \in MountPoints /\ baseline[d].disk \in Disks(d))
  BY DEF FTypes, DeviceTypes, Infos, Dirs
<1>2. ASSUME NEW d \in Devices, NEW i \in DOMAIN todo[d]
      PROVE  todo[d][i].op \in {"gather", "add_mount", "remove_mount"}
  <2>1. \A a : IsStep(d, a) => a.op \in {"gather", "add_mount", "remove_mount"}
    BY DEF IsStep, IsCall
  <2>2. AreSteps(d, todo[d])
    BY DEF FTypes, DeviceTypes
  <2> QED
    BY <1>2, <2>1, <2>2 DEF AreSteps
<1>3. report = None \/ (report.path \in Devices /\ report.left # <<>>)
  <2>1. \A d, left : AreCalls(d, left) => left # <<>>
    BY DEF AreCalls
  <2> QED
    BY <2>1 DEF FTypes
<1> QED
  BY <1>1, <1>2, <1>3 DEF FTypes, TypeOK, DeclaredTypes

\* The loop keeps its types (udisks2/mod.rs, monitor.rs), whatever comes, goes, is
\* edited, fails or starts again: only a running watcher has a baseline or steps left,
\* the baseline is about a mount point and of the disks of its own device, and a report
\* under way has a library call left.
THEOREM LoopTypes == Spec => []TypeOK
<1> QED
  BY FInitTypes, FTypesKept, FTypesAreTypes, PTL DEF Spec


--------------------------------------------------------------------------------
(* What a watcher knows *)

\* Two devices are never given the same mount point.
OwnPlaces == \A d, e \in Devices : d # e => Dirs(d) \cap Dirs(e) = {}

\* Where the disks of a device are declared to be mounted; what that comes down to.
Places(ms, d) == {m \in MountPoints : ms[m] # None /\ ms[m].disk \in Disks(d)}

Says(ms, d, info) ==
  IF info = None THEN Places(ms, d) = {}
  ELSE /\ Places(ms, d) = {info.mount_point}
       /\ ms[info.mount_point].disk = info.disk
       /\ ToSet(ms[info.mount_point].options) = Names(info.options)

\* What a configuration says of a disk, as gather would have it.
Value(c, k) == IF Lookup(c) = "entry" THEN Info(LookupEntry(c), k) ELSE None

Alike(i, j) ==
  \/ i = None /\ j = None
  \/ /\ i # None /\ j # None
     /\ i.mount_point = j.mount_point /\ i.disk = j.disk /\ Names(i.options) = Names(j.options)

\* What a watcher will hold for the value it has read.
Heading(d) ==
  IF todo[d] # <<>> /\ Last(todo[d]).op = "gather" THEN Info(Last(todo[d]).entry, disk[d])
  ELSE baseline[d]

Adds(call, info) ==
  /\ info # None
  /\ call.op = "add_mount" /\ call.mount_point = info.mount_point
  /\ call.entry.disk = info.disk /\ call.entry.options = OptionList(info.options)

Asks(step) == step.op = "gather" /\ step.old = None /\ ~step.suppress

\* The four places a watcher can be at, and what is declared at each.
AtRest(d) == todo[d] = <<>> /\ Says(declared, d, baseline[d])

Removing(d) ==
  /\ todo[d] # <<>> /\ Head(todo[d]).op = "remove_mount"
  /\ Places(declared, d) = {Head(todo[d]).mount_point}
  /\ \/ Len(todo[d]) = 1 /\ baseline[d] = None
     \/ Len(todo[d]) = 2 /\ (Asks(todo[d][2]) \/ Adds(todo[d][2], baseline[d]))

Asking(d) ==
  /\ Len(todo[d]) = 1 /\ todo[d][1].op = "gather"
  /\ LET step == todo[d][1]
         info == Info(step.entry, disk[d])
     IN  \/ Asks(step) /\ (Places(declared, d) = {} \/ (initial[d] /\ Says(declared, d, info)))
         \/ step.suppress /\ Says(declared, d, info)
         \/ /\ ~step.suppress /\ step.old # None
            /\ Says(declared, d, step.old) /\ step.old.mount_point = step.entry.mount_point

Adding(d) ==
  /\ Len(todo[d]) = 1 /\ Adds(todo[d][1], baseline[d])
  /\ Places(declared, d) \subseteq {baseline[d].mount_point}
  /\ initial[d] \/ ~Says(declared, d, baseline[d])

\* What it heads for is the last value, when it has read it.
Informed(d) ==
  d \notin unread => Lookup(conf[d]) = "malformed" \/ Alike(Value(conf[d], disk[d]), Heading(d))

Keeps(d) ==
  /\ watch[d] # "ended"
  /\ watch[d] # "running" => Lookup(conf[d]) # "malformed" /\ Says(declared, d, Value(conf[d], disk[d]))
  /\ watch[d] = "running" => (AtRest(d) \/ Removing(d) \/ Asking(d) \/ Adding(d)) /\ Informed(d)

\* Stamps, calls and reports are of devices whose own watcher no longer reports alone.
Apart ==
  /\ stamped \subseteq irregular
  /\ \A i \in DOMAIN calls : calls[i].path \in irregular
  /\ report # None => report.path \in irregular

RInv == Apart /\ \A d \in Devices \ irregular : Keeps(d)

LEMMA NoneApart ==
  ASSUME NEW d \in Devices
  PROVE  None \notin Entries(d) /\ None \notin Infos(d) /\ \A x : IsDeclared(d, x) => x # None
<1>1. Seq(Segments) \subseteq Seq(Opts) /\ Dirs(d) \subseteq MountPoints
  BY DEF Segments, Dirs
<1>2. Disks(d) \subseteq [device : Devices, fs : {1, 2}]
  BY DEF Disks
<1>3. Seq(Named) \subseteq Seq(STRING)
  BY DEF Named
<1>4. Entries(d) \subseteq [mount_point : MountPoints, options : Seq(Opts)]
  BY <1>1 DEF Entries
<1>5. Infos(d) \subseteq [mount_point : MountPoints, options : Seq(Opts), disk : [device : Devices, fs : {1, 2}]]
  BY <1>1, <1>2 DEF Infos
<1>6. \A x : IsDeclared(d, x) => x \in [disk : [device : Devices, fs : {1, 2}], options : Seq(STRING), luks : BOOLEAN]
  <2>1. Locks(d) \subseteq BOOLEAN
    BY LockTypes
  <2> QED
    BY <1>2, <1>3, <2>1 DEF IsDeclared
<1> QED
  BY <1>4, <1>5, <1>6, NoneAssumption

\* same_options compares the names.
LEMMA OptionsAlike ==
  ASSUME ~Spaced, NEW a \in Seq(Segments), NEW b \in Seq(Segments)
  PROVE  SameOptions(a, b) <=> Names(a) = Names(b)
<1> DEFINE N(s) == {s[i].name : i \in DOMAIN s} \ {Empty}
           R(s) == ToSet(s) \ {Blank}
<1>1. Names(a) = N(a) /\ Names(b) = N(b)
  BY NamesListed
<1>2. \A o \in Segments : o = [name |-> o.name, padded |-> FALSE]
  BY DEF Segments, Opts
<1>3. ASSUME NEW s \in Seq(Segments)
      PROVE  /\ N(s) = {o.name : o \in R(s)}
             /\ R(s) = {[name |-> n, padded |-> FALSE] : n \in N(s)}
  <2>1. \A i \in DOMAIN s : s[i] = [name |-> s[i].name, padded |-> FALSE]
    <3> TAKE i \in DOMAIN s
    <3>1. s[i] \in Segments
      OBVIOUS
    <3> QED
      BY <1>2, <3>1
  <2>2. ToSet(s) = {s[i] : i \in DOMAIN s}
    BY DEF ToSet
  <2>3. \A i \in DOMAIN s : s[i] = Blank <=> s[i].name = Empty
    BY <2>1 DEF Blank
  <2>4. ASSUME NEW i \in DOMAIN s, s[i].name # Empty
        PROVE  s[i] \in R(s) /\ s[i].name \in N(s) /\ s[i] = [name |-> s[i].name, padded |-> FALSE]
    BY <2>1, <2>2, <2>3, <2>4
  <2>5. ASSUME NEW o \in R(s) PROVE \E i \in DOMAIN s : s[i] = o /\ s[i].name # Empty
    BY <2>2, <2>3
  <2>6. ASSUME NEW n \in N(s) PROVE \E i \in DOMAIN s : s[i].name = n /\ n # Empty
    OBVIOUS
  <2> HIDE DEF N, R
  <2>7. N(s) = {o.name : o \in R(s)}
    BY <2>4, <2>5, <2>6
  <2>8. R(s) = {[name |-> n, padded |-> FALSE] : n \in N(s)}
    <3>1. ASSUME NEW o \in R(s) PROVE o.name \in N(s) /\ o = [name |-> o.name, padded |-> FALSE]
      BY <2>4, <2>5
    <3>2. ASSUME NEW n \in N(s) PROVE [name |-> n, padded |-> FALSE] \in R(s)
      <4>1. PICK i \in DOMAIN s : s[i].name = n /\ n # Empty
        BY <2>6
      <4>2. s[i] \in R(s) /\ s[i] = [name |-> s[i].name, padded |-> FALSE]
        BY <2>4, <4>1
      <4> QED
        BY <4>1, <4>2
    <3> QED
      BY <3>1, <3>2
  <2> QED
    BY <2>7, <2>8
<1>4. R(a) = R(b) <=> N(a) = N(b)
  <2>1. /\ N(a) = {o.name : o \in R(a)} /\ R(a) = {[name |-> n, padded |-> FALSE] : n \in N(a)}
        /\ N(b) = {o.name : o \in R(b)} /\ R(b) = {[name |-> n, padded |-> FALSE] : n \in N(b)}
    BY <1>3
  <2> HIDE DEF N, R
  <2> QED
    BY <2>1
<1> QED
  BY <1>1, <1>4 DEF SameOptions

\* The value a rebuild leaves of a device says what is declared of it, where that is
\* one place of its disk at most.
LEMMA GeneratedSays ==
  ASSUME NoVolumes, NEW ms, DeclaredTypes(ms), NEW d \in Devices, NEW k \in Disks(d),
         NEW m, Places(ms, d) \subseteq {m}, \A p \in Places(ms, d) : ms[p].disk = k
  PROVE  /\ Lookup(Generated(ms, k)) # "malformed"
         /\ Says(ms, d, Value(Generated(ms, k), k))
<1> DEFINE item(p) == [kind |-> "fstab", dir |-> p,
                       opts |-> [i \in DOMAIN ms[p].options |-> [name |-> ms[p].options[i], padded |-> FALSE]]]
           S == {item(p) : p \in Declares(ms, k)}
           c == Generated(ms, k)
<1>1. Declares(ms, k) \subseteq Places(ms, d) /\ Places(ms, d) \subseteq MountPoints
  BY DEF Declares, Places
<1>2. c = SetToSeq(S) /\ IsFiniteSet(S)
  BY <1>1, AllListed, GeneratedLists
<1>3. CASE Places(ms, d) = {}
  <2>1. S = {}
    BY <1>1, <1>3
  <2> HIDE DEF S
  <2>2. c \in [1 .. 0 -> S]
    BY <1>2, <2>1, SetToSeqLists, FS_EmptySet
  <2> HIDE DEF c
  <2>3. FstabPlaces(c) = {}
    BY <2>2 DEF FstabPlaces
  <2>4. Lookup(c) = "absent" /\ Value(c, k) = None
    BY <2>3 DEF Lookup, Value
  <2> QED
    BY <1>3, <2>4 DEF Says, c
<1>4. CASE Places(ms, d) # {}
  <2> DEFINE opts == [i \in DOMAIN ms[m].options |-> [name |-> ms[m].options[i], padded |-> FALSE]]
  <2>1. Places(ms, d) = {m} /\ ms[m].disk = k
    BY <1>4
  <2>2. Declares(ms, k) = {m} /\ m \in MountPoints /\ ms[m] # None
    BY <2>1 DEF Declares, Places
  <2>3. S = {item(m)}
    BY <2>2
  <2>4. item(m) = [kind |-> "fstab", dir |-> m, opts |-> opts]
    OBVIOUS
  <2>5. ms[m].options \in Seq(Named)
    BY <2>2 DEF DeclaredTypes, IsDeclared
  <2>6. /\ DOMAIN ms[m].options = 1 .. Len(ms[m].options) /\ Len(ms[m].options) \in Nat
        /\ \A i \in DOMAIN ms[m].options : ms[m].options[i] \in Named
    BY <2>5
  <2>7. opts \in Seq(Segments)
    <3>1. \A i \in DOMAIN ms[m].options : [name |-> ms[m].options[i], padded |-> FALSE] \in Segments
      BY <2>6 DEF Named, Segments, Opts
    <3>2. opts \in [1 .. Len(ms[m].options) -> Segments]
      BY <2>6, <3>1
    <3> HIDE DEF opts
    <3> QED
      BY <2>6, <3>2
  <2>8. Names(opts) = ToSet(ms[m].options)
    <3>1. Names(opts) = {opts[i].name : i \in DOMAIN opts} \ {Empty}
      BY <2>7, NamesListed
    <3>2. {opts[i].name : i \in DOMAIN opts} = {ms[m].options[i] : i \in DOMAIN ms[m].options}
      OBVIOUS
    <3> HIDE DEF opts
    <3> QED
      BY <2>6, <3>1, <3>2 DEF ToSet, Named
  <2>9. opts # None /\ m # None
    <3>1. Seq(Segments) \subseteq Seq(Opts)
      BY DEF Segments
    <3> HIDE DEF opts
    <3> QED
      BY <2>2, <2>7, <3>1, NoneAssumption, FstabAssumption
  <2> HIDE DEF S, item, opts
  <2>10. c \in [1 .. 1 -> S] /\ c[1] = item(m)
    <3>1. Cardinality(S) = 1
      BY <2>3, FS_Singleton
    <3>2. c \in [1 .. 1 -> S]
      BY <1>2, <3>1, SetToSeqLists
    <3>3. 1 \in 1 .. 1
      OBVIOUS
    <3> HIDE DEF c
    <3>4. c[1] \in S
      BY <3>2, <3>3
    <3> QED
      BY <2>3, <3>2, <3>4
  <2> HIDE DEF c
  <2>11. FstabPlaces(c) = {1}
    <3>1. DOMAIN c = {1}
      BY <2>10
    <3> QED
      BY <2>4, <2>10, <3>1 DEF FstabPlaces
  <2>12. Min({1}) = 1
    <3>1. \E x \in {1} : \A y \in {1} : x <= y
      OBVIOUS
    <3> QED
      BY <3>1 DEF Min
  <2>13. LookupEntry(c) = [mount_point |-> m, options |-> opts]
    BY <2>4, <2>9, <2>10, <2>11, <2>12 DEF LookupEntry, FstabDetails
  <2>14. LookupEntry(c) \in Entries(d)
    <3>1. PICK e \in Devices : m \in Dirs(e) /\ IsDeclared(e, ms[m])
      BY <2>2 DEF DeclaredTypes
    <3>2. e = d
      BY <2>1, <3>1, DisksApart DEF IsDeclared
    <3> QED
      BY <2>7, <2>13, <3>1, <3>2 DEF Entries
  <2>15. Lookup(c) = "entry"
    BY <2>11, <2>14, NoneApart DEF Lookup
  <2>16. Value(c, k) = [mount_point |-> m, options |-> opts, disk |-> k] /\ Value(c, k) \in Infos(d)
    BY <2>13, <2>14, <2>15, InfoTypes DEF Value
  <2>17. Value(c, k) # None
    BY <2>16, NoneApart
  <2>18. Says(ms, d, Value(c, k))
    BY <2>1, <2>8, <2>16, <2>17 DEF Says
  <2> QED
    BY <2>15, <2>18 DEF c
<1> QED
  BY <1>3, <1>4

LEMMA RelinkedSays ==
  ASSUME NoVolumes, NEW ms, DeclaredTypes(ms), NEW d \in Devices, NEW k \in Disks(d),
         NEW info \in Infos(d) \cup {None}, Says(ms, d, info), info = None \/ info.disk = k
  PROVE  /\ Lookup(Generated(ms, k)) # "malformed"
         /\ Says(ms, d, Value(Generated(ms, k), k))
<1>1. CASE info = None
  <2>1. Places(ms, d) = {}
    BY <1>1 DEF Says
  <2>2. Places(ms, d) \subseteq {None} /\ \A p \in Places(ms, d) : ms[p].disk = k
    BY <2>1
  <2> QED
    BY <2>2, GeneratedSays
<1>2. CASE info # None
  <2>1. Places(ms, d) = {info.mount_point} /\ ms[info.mount_point].disk = k
    BY <1>2 DEF Says
  <2>2. Places(ms, d) \subseteq {info.mount_point} /\ \A p \in Places(ms, d) : ms[p].disk = k
    BY <2>1
  <2> QED
    BY <2>2, GeneratedSays
<1> QED
  BY <1>1, <1>2

LEMMA AlikeSays ==
  ASSUME NEW ms, NEW d, NEW i, NEW j, Alike(i, j), Says(ms, d, j)
  PROVE  Says(ms, d, i)
BY DEF Alike, Says

\* What a configuration says of a device.
LEMMA ValueTypes ==
  ASSUME NEW d \in Devices, NEW c \in Seq(ItemsOf(d)), NEW k \in Disks(d)
  PROVE  /\ Lookup(c) \in {"absent", "malformed", "entry"}
         /\ Value(c, k) \in Infos(d) \cup {None}
         /\ Value(c, k) # None => Value(c, k).disk = k
         /\ Lookup(c) = "entry" =>
              /\ LookupEntry(c) \in Entries(d) /\ Value(c, k) = Info(LookupEntry(c), k)
              /\ Value(c, k) # None /\ Value(c, k).mount_point = LookupEntry(c).mount_point
<1>1. Lookup(c) \in {"absent", "malformed", "entry"}
  BY DEF Lookup
<1>2. CASE Lookup(c) = "entry"
  <2>1. LookupEntry(c) \in Entries(d)
    BY <1>2, LookupTypes
  <2>2. /\ Info(LookupEntry(c), k) \in Infos(d) /\ Value(c, k) = Info(LookupEntry(c), k)
        /\ Value(c, k).disk = k /\ Value(c, k).mount_point = LookupEntry(c).mount_point
    BY <1>2, <2>1, InfoTypes DEF Value
  <2> QED
    BY <1>1, <2>1, <2>2, NoneApart
<1> QED
  BY <1>1, <1>2 DEF Value

\* What is declared of a device does not change with a library call about another.
LEMMA CommitElsewhere ==
  ASSUME OwnPlaces, FTypes, NEW d \in Devices, NEW e \in Devices, d # e,
         NEW call, IsCall(e, call), Commit(call)
  PROVE  /\ Places(declared', d) = Places(declared, d)
         /\ \A m \in Places(declared, d) : declared'[m] = declared[m]
         /\ \A info : Says(declared', d, info) <=> Says(declared, d, info)
<1>1. declared' = Applied(declared, call) /\ call.mount_point \in Dirs(e) /\ DOMAIN declared = MountPoints
  BY DEF Commit, IsCall, FTypes, DeclaredTypes
<1>2. Dirs(e) \subseteq MountPoints /\ call.mount_point \notin Dirs(d)
  BY <1>1 DEF Dirs, OwnPlaces
<1>3. \A m \in MountPoints : m # call.mount_point => declared'[m] = declared[m]
  BY <1>1 DEF Applied
<1>4. call.mount_point \notin Places(declared, d)
  <2> SUFFICES ASSUME call.mount_point \in Places(declared, d) PROVE FALSE
    OBVIOUS
  <2>1. PICK f \in Devices : call.mount_point \in Dirs(f) /\ IsDeclared(f, declared[call.mount_point])
    BY DEF Places, FTypes, DeclaredTypes
  <2>2. f = d
    BY <2>1, DisksApart DEF Places, IsDeclared
  <2> QED
    BY <1>2, <2>1, <2>2
<1>5. call.mount_point \notin Places(declared', d)
  <2>1. declared'[call.mount_point] = IF call.op = "add_mount" THEN call.entry ELSE None
    BY <1>1, <1>2 DEF Applied
  <2>2. call.op = "add_mount" => call.entry.disk \in Disks(e)
    BY DEF IsCall, IsDeclared
  <2> QED
    BY <2>1, <2>2, DisksApart DEF Places
<1>6. Places(declared', d) = Places(declared, d)
  BY <1>3, <1>4, <1>5 DEF Places
<1>7. \A m \in Places(declared, d) : declared'[m] = declared[m]
  BY <1>3, <1>4 DEF Places
<1> QED
  BY <1>6, <1>7 DEF Says

\* A library call about a device: the places it leaves.
LEMMA CommitPlaces ==
  ASSUME FTypes, NEW d \in Devices, NEW call, IsCall(d, call), Commit(call)
  PROVE  /\ call.op = "remove_mount" => Places(declared', d) = Places(declared, d) \ {call.mount_point}
         /\ call.op = "add_mount" =>
              /\ Places(declared', d) = Places(declared, d) \cup {call.mount_point}
              /\ declared'[call.mount_point] = call.entry
         /\ \A m \in MountPoints : m # call.mount_point => declared'[m] = declared[m]
<1>1. declared' = Applied(declared, call) /\ call.mount_point \in Dirs(d) /\ DOMAIN declared = MountPoints
  BY DEF Commit, IsCall, FTypes, DeclaredTypes
<1>2. call.mount_point \in MountPoints
  BY <1>1 DEF Dirs
<1>3. \A m \in MountPoints : m # call.mount_point => declared'[m] = declared[m]
  BY <1>1 DEF Applied
<1>4. declared'[call.mount_point] = IF call.op = "add_mount" THEN call.entry ELSE None
  BY <1>1, <1>2 DEF Applied
<1>5. call.op = "add_mount" => call.entry # None /\ call.entry.disk \in Disks(d)
  BY NoneApart DEF IsCall, IsDeclared
<1>6. CASE call.op = "remove_mount"
  BY <1>3, <1>4, <1>6 DEF Places
<1>7. CASE call.op = "add_mount"
  BY <1>2, <1>3, <1>4, <1>5, <1>7 DEF Places
<1> QED
  BY <1>3, <1>6, <1>7 DEF IsCall

\* Where a call about the only place of a device leaves it.
LEMMA CommitHere ==
  ASSUME FTypes, NEW d \in Devices, NEW call, IsCall(d, call), Commit(call),
         Places(declared, d) \subseteq {call.mount_point}
  PROVE  /\ call.op = "remove_mount" => Places(declared', d) = {}
         /\ call.op = "add_mount" =>
              Places(declared', d) = {call.mount_point} /\ declared'[call.mount_point] = call.entry
BY CommitPlaces

\* A device that nothing happens to.
Local(d) == <<watch[d], initial[d], conf[d], disk[d], baseline[d], todo[d], d \in unread>>

LEMMA LeftAlone ==
  ASSUME NEW d \in Devices, Keeps(d), UNCHANGED <<Local(d), declared>> PROVE Keeps(d)'
<1>1. /\ watch'[d] = watch[d] /\ initial'[d] = initial[d] /\ conf'[d] = conf[d] /\ disk'[d] = disk[d]
      /\ baseline'[d] = baseline[d] /\ todo'[d] = todo[d] /\ (d \in unread' <=> d \in unread)
      /\ declared' = declared
  BY DEF Local
<1>2. (AtRest(d) <=> AtRest(d)') /\ (Removing(d) <=> Removing(d)')
  BY <1>1 DEF AtRest, Removing
<1>3. (Asking(d) <=> Asking(d)') /\ (Adding(d) <=> Adding(d)')
  BY <1>1 DEF Asking, Adding
<1>4. Informed(d) <=> Informed(d)'
  BY <1>1 DEF Informed, Heading
<1> QED
  BY <1>1, <1>2, <1>3, <1>4 DEF Keeps

\* A device that is unwatched while nothing of it is unread or left to report.
LEMMA LeftUnwatched ==
  ASSUME NEW d \in Devices, Keeps(d), d \notin unread, todo[d] = <<>>, Lookup(conf[d]) # "malformed",
         watch'[d] = "none", UNCHANGED <<conf, disk, declared>>
  PROVE  Keeps(d)'
<1>1. CASE watch[d] = "running"
  <2>1. Says(declared, d, baseline[d])
    <3>1. ~Removing(d)
      BY DEF Removing
    <3>2. Len(todo[d]) = 0
      OBVIOUS
    <3>3. ~Asking(d) /\ ~Adding(d)
      BY <3>2 DEF Asking, Adding
    <3> QED
      BY <1>1, <3>1, <3>3 DEF Keeps, AtRest
  <2>2. Alike(Value(conf[d], disk[d]), baseline[d])
    BY <1>1 DEF Keeps, Informed, Heading
  <2>3. Says(declared, d, Value(conf[d], disk[d]))
    BY <2>1, <2>2, AlikeSays
  <2> QED
    BY <2>3 DEF Keeps
<1>2. CASE watch[d] # "running"
  BY <1>2 DEF Keeps
<1> QED
  BY <1>1, <1>2

\* Another device's library call: this one's fstab entry is relinked, nothing more.
LEMMA KeepsThroughRebuild ==
  ASSUME NoVolumes, OwnPlaces, FTypes, NEW d \in Devices, Keeps(d), NEW e \in Devices, d # e,
         NEW call, IsCall(e, call), Commit(call),
         watch'[d] = watch[d], initial'[d] = initial[d], baseline'[d] = baseline[d], todo'[d] = todo[d]
  PROVE  Keeps(d)'
<1>1. /\ Places(declared', d) = Places(declared, d)
      /\ \A info : Says(declared', d, info) <=> Says(declared, d, info)
  BY CommitElsewhere
<1>2. /\ disk' = disk /\ conf'[d] = Generated(declared', disk[d])
      /\ d \notin unread' => d \notin unread /\ conf'[d] = conf[d]
  BY DEF Commit
<1>3. (AtRest(d) <=> AtRest(d)') /\ (Removing(d) <=> Removing(d)')
  BY <1>1 DEF AtRest, Removing
<1>4. (Asking(d) <=> Asking(d)') /\ (Adding(d) <=> Adding(d)')
  BY <1>1, <1>2 DEF Asking, Adding
<1>5. Informed(d) => Informed(d)'
  BY <1>2 DEF Informed, Heading
<1>6. CASE watch[d] # "running"
  <2> DEFINE ms == declared'
             k == disk[d]
             info == Value(conf[d], disk[d])
  <2>1. DeclaredTypes(ms)
    BY CommitTypes
  <2>2. k \in Disks(d) /\ info \in Infos(d) \cup {None} /\ (info = None \/ info.disk = k)
    BY ValueTypes DEF FTypes, DeviceTypes
  <2>3. Says(ms, d, info)
    BY <1>1, <1>6 DEF Keeps
  <2> HIDE DEF ms, k, info
  <2>4. /\ Lookup(Generated(ms, k)) # "malformed"
        /\ Says(ms, d, Value(Generated(ms, k), k))
    BY <2>1, <2>2, <2>3, RelinkedSays
  <2> QED
    BY <1>2, <1>6, <2>4 DEF ms, k, Keeps
<1> QED
  BY <1>3, <1>4, <1>5, <1>6 DEF Keeps


--------------------------------------------------------------------------------
(* The steps of a watcher *)

\* One step and two.
LEMMA OneStep ==
  \A a : <<a>> # <<>> /\ Len(<<a>>) = 1 /\ <<a>>[1] = a /\ Head(<<a>>) = a /\ Last(<<a>>) = a /\ Tail(<<a>>) = <<>>
BY DEF Last

LEMMA TwoSteps ==
  \A a, b : /\ <<a, b>> # <<>> /\ Len(<<a, b>>) = 2 /\ <<a, b>>[1] = a /\ <<a, b>>[2] = b
            /\ Head(<<a, b>>) = a /\ Last(<<a, b>>) = b /\ Tail(<<a, b>>) = <<b>>
BY DEF Last

LEMMA HeadsForValue ==
  ASSUME NEW d, todo'[d] # <<>>, Last(todo'[d]).op = "gather",
         Info(Last(todo'[d]).entry, disk'[d]) = Value(conf'[d], disk'[d]), Value(conf'[d], disk'[d]) # None
  PROVE  Informed(d)'
<1>1. Heading(d)' = Value(conf'[d], disk'[d])
  BY DEF Heading
<1> QED
  BY <1>1 DEF Informed, Alike

\* The first value a watcher reads.
LEMMA KeepsAtFirstRead ==
  ASSUME FTypes, NEW d \in Devices, Keeps(d), FirstRead(d), d \notin irregular'
  PROVE  Keeps(d)'
<1> DEFINE entry == LookupEntry(conf[d])
           step == GatherStep(entry, None, ~initial[d])
           info == Value(conf[d], disk[d])
<1>1. /\ watch[d] = "new" /\ watch' = [watch EXCEPT ![d] = "running"]
      /\ todo' = [todo EXCEPT ![d] = IF Lookup(conf[d]) = "entry" THEN <<step>> ELSE <<>>]
      /\ Lookup(conf[d]) # "malformed"
      /\ UNCHANGED <<conf, disk, baseline, initial, declared>>
  BY DEF FirstRead
<1>2. /\ watch'[d] = "running" /\ DOMAIN todo = Devices
      /\ baseline[d] = None /\ initial[d] \in BOOLEAN
  BY <1>1 DEF FTypes, WatchersTypeOK, DeviceTypes
<1>3. Says(declared, d, info)
  BY <1>1 DEF Keeps
<1>4. CASE Lookup(conf[d]) = "entry"
  <2>1. todo'[d] = <<step>>
    BY <1>1, <1>2, <1>4
  <2>2. step.op = "gather" /\ step.entry = entry /\ step.old = None /\ step.suppress = ~initial[d]
    BY DEF GatherStep
  <2>3. info = Info(entry, disk[d]) /\ info # None
    BY <1>4, ValueTypes DEF FTypes, DeviceTypes
  <2> HIDE DEF step, info, entry
  <2>4. Asking(d)'
    BY <1>1, <1>2, <1>3, <2>1, <2>2, <2>3, OneStep DEF Asking, Asks
  <2>5. Informed(d)'
    BY <1>1, <2>1, <2>2, <2>3, OneStep DEF Informed, Heading, Alike, info
  <2> QED
    BY <1>2, <2>4, <2>5 DEF Keeps
<1>5. CASE Lookup(conf[d]) # "entry"
  <2>1. todo'[d] = <<>> /\ info = None
    BY <1>1, <1>2, <1>5 DEF Value
  <2> HIDE DEF info
  <2>2. AtRest(d)'
    BY <1>1, <1>2, <1>3, <2>1 DEF AtRest
  <2>3. Informed(d)'
    BY <1>1, <1>2, <2>1 DEF Informed, Heading, Alike, info
  <2> QED
    BY <1>2, <2>2, <2>3 DEF Keeps
<1> QED
  BY <1>4, <1>5

\* The next one.
LEMMA KeepsAtRead ==
  ASSUME FTypes, NEW d \in Devices, Keeps(d), d \notin stamped, Read(d)
  PROVE  Keeps(d)'
<1> DEFINE lookup == Lookup(conf[d])
           entry == IF lookup = "entry" THEN LookupEntry(conf[d]) ELSE None
           old == baseline[d]
           suppress == d \in stamped
           info == Value(conf[d], disk[d])
<1>1. /\ watch[d] = "running" /\ todo[d] = <<>>
      /\ todo' = [todo EXCEPT ![d] = Steps(old, lookup, entry, suppress)]
      /\ baseline' = [baseline EXCEPT ![d] = IF lookup = "malformed" THEN @ ELSE None]
      /\ UNCHANGED <<watch, conf, disk, declared>>
  BY DEF Read, watcherVars
<1>2. /\ watch'[d] = "running" /\ ~suppress
      /\ todo'[d] = Steps(old, lookup, entry, suppress)
      /\ baseline'[d] = IF lookup = "malformed" THEN old ELSE None
  BY <1>1 DEF FTypes
<1>3. Says(declared, d, old)
  <2>1. Len(todo[d]) = 0
    BY <1>1
  <2> QED
    BY <1>1, <2>1 DEF Keeps, AtRest, Removing, Asking, Adding
<1>4. /\ lookup \in {"absent", "malformed", "entry"}
      /\ lookup = "entry" => info = Info(entry, disk[d]) /\ info # None
      /\ lookup # "entry" => info = None
  BY ValueTypes DEF FTypes, DeviceTypes, Value
<1> DEFINE unmount == IF suppress \/ old = None THEN <<>> ELSE <<RemoveMount(old)>>
<1>5. RemoveMount(old).op = "remove_mount" /\ RemoveMount(old).mount_point = old.mount_point
  BY DEF RemoveMount
<1>6. \A o : /\ GatherStep(entry, o, suppress).op = "gather" /\ GatherStep(entry, o, suppress).entry = entry
             /\ GatherStep(entry, o, suppress).old = o /\ GatherStep(entry, o, suppress).suppress = suppress
  BY DEF GatherStep
<1>7. CASE lookup = "malformed"
  <2>1. todo'[d] = <<>>
    BY <1>2, <1>7 DEF Steps
  <2>2. AtRest(d)' /\ Informed(d)'
    BY <1>1, <1>2, <1>3, <1>7, <2>1 DEF AtRest, Informed
  <2> QED
    BY <1>2, <2>2 DEF Keeps
<1>8. CASE lookup = "absent"
  <2>1. todo'[d] = unmount /\ info = None /\ baseline'[d] = None
    BY <1>2, <1>4, <1>8 DEF Steps
  <2> HIDE DEF lookup, entry
  <2>2. CASE old = None
    <3>1. AtRest(d)' /\ Informed(d)'
      BY <1>1, <1>2, <1>3, <2>1, <2>2 DEF AtRest, Informed, Heading, Alike
    <3> QED
      BY <1>2, <3>1 DEF Keeps
  <2>3. CASE old # None
    <3>1. todo'[d] = <<RemoveMount(old)>>
      BY <1>2, <2>1, <2>3
    <3>2. Places(declared', d) = {RemoveMount(old).mount_point}
      BY <1>1, <1>3, <1>5, <2>3 DEF Says
    <3>3. Removing(d)'
      BY <1>5, <2>1, <3>1, <3>2, OneStep DEF Removing
    <3>4. Informed(d)'
      BY <1>1, <1>5, <2>1, <3>1, OneStep DEF Informed, Heading, Alike
    <3> QED
      BY <1>2, <3>3, <3>4 DEF Keeps
  <2> QED
    BY <2>2, <2>3
<1>9. CASE lookup = "entry" /\ old # None /\ old.mount_point = entry.mount_point
  <2> DEFINE step == GatherStep(entry, old, suppress)
  <2>1. todo'[d] = <<step>>
    BY <1>2, <1>9 DEF Steps
  <2>2. step.op = "gather" /\ step.entry = entry /\ step.old = old /\ ~step.suppress
    BY <1>2, <1>6
  <2> HIDE DEF step
  <2>3. Asking(d)'
    <3>1. todo'[d][1] = step /\ Len(todo'[d]) = 1
      BY <2>1, OneStep
    <3>2. declared' = declared
      BY <1>1
    <3>3. old # None /\ old.mount_point = entry.mount_point
      BY <1>9
    <3>4. Says(declared', d, old)
      BY <1>3, <3>2
    <3> HIDE DEF old, entry, suppress
    <3>5. /\ ~step.suppress /\ step.old # None
          /\ Says(declared', d, step.old) /\ step.old.mount_point = step.entry.mount_point
      BY <2>2, <3>3, <3>4
    <3> QED
      BY <2>2, <3>1, <3>5 DEF Asking
  <2>4. Informed(d)'
    <3>1. todo'[d] # <<>> /\ Last(todo'[d]) = step
      BY <2>1, OneStep
    <3>2. Info(entry, disk'[d]) = Value(conf'[d], disk'[d]) /\ Value(conf'[d], disk'[d]) # None
      BY <1>1, <1>4, <1>9
    <3> HIDE DEF entry
    <3> QED
      BY <2>2, <3>1, <3>2, HeadsForValue
  <2> QED
    BY <1>2, <2>3, <2>4 DEF Keeps
<1>10. CASE lookup = "entry" /\ ~(old # None /\ old.mount_point = entry.mount_point)
  <2> DEFINE step == GatherStep(entry, None, suppress)
  <2>1. todo'[d] = unmount \o <<step>> /\ baseline'[d] = None
    BY <1>2, <1>10 DEF Steps
  <2>2. step.op = "gather" /\ step.entry = entry /\ step.old = None /\ ~step.suppress
    BY <1>2, <1>6
  <2> HIDE DEF step
  <2>3. CASE old = None
    <3>1. todo'[d] = <<step>>
      BY <2>1, <2>3, SeqOfTwo
    <3>2. Asking(d)'
      BY <1>1, <1>3, <2>2, <2>3, <3>1, OneStep DEF Asking, Asks, Says
    <3>3. Informed(d)'
      <4>1. todo'[d] # <<>> /\ Last(todo'[d]) = step
        BY <3>1, OneStep
      <4>2. Info(entry, disk'[d]) = Value(conf'[d], disk'[d]) /\ Value(conf'[d], disk'[d]) # None
        BY <1>1, <1>4, <1>10
      <4> HIDE DEF entry
      <4> QED
        BY <2>2, <4>1, <4>2, HeadsForValue
    <3> QED
      BY <1>2, <3>2, <3>3 DEF Keeps
  <2>4. CASE old # None
    <3>1. todo'[d] = <<RemoveMount(old), step>>
      BY <1>2, <2>1, <2>4, SeqOfTwo
    <3>2. Places(declared', d) = {RemoveMount(old).mount_point}
      BY <1>1, <1>3, <1>5, <2>4 DEF Says
    <3>3. Removing(d)'
      BY <1>5, <2>2, <3>1, <3>2, TwoSteps DEF Removing, Asks
    <3>4. Informed(d)'
      <4>1. todo'[d] # <<>> /\ Last(todo'[d]) = step
        BY <3>1, TwoSteps
      <4>2. Info(entry, disk'[d]) = Value(conf'[d], disk'[d]) /\ Value(conf'[d], disk'[d]) # None
        BY <1>1, <1>4, <1>10
      <4> HIDE DEF entry
      <4> QED
        BY <2>2, <4>1, <4>2, HeadsForValue
    <3> QED
      BY <1>2, <3>3, <3>4 DEF Keeps
  <2> QED
    BY <2>3, <2>4
<1> QED
  BY <1>4, <1>7, <1>8, <1>9, <1>10


\* At rest or not, from the first step that is left.
LEMMA WhereAWatcherIs ==
  ASSUME NEW d, Keeps(d), AreSteps(d, todo[d]), Working(d)
  PROVE  /\ Head(todo[d]).op = "gather" => Asking(d) /\ todo[d] = <<Head(todo[d])>>
         /\ Head(todo[d]).op # "gather" => Removing(d) \/ Adding(d)
         /\ Len(todo[d]) = 1 => todo[d] = <<Head(todo[d])>>
         /\ Len(todo[d]) = 2 => todo[d] = <<Head(todo[d]), todo[d][2]>>
         /\ todo[d][1] = Head(todo[d])
<1>1. todo[d] # <<>> /\ (Removing(d) \/ Asking(d) \/ Adding(d))
  BY DEF Working, Keeps, AtRest
<1>2. CASE \E a : todo[d] = <<a>> /\ IsStep(d, a)
  <2>1. /\ Len(todo[d]) = 1 /\ todo[d] = <<Head(todo[d])>> /\ todo[d][1] = Head(todo[d])
    BY <1>2, OneStep
  <2> QED
    BY <1>1, <2>1 DEF Removing, Asking, Adding, Adds
<1>3. CASE \E a, b : todo[d] = <<a, b>> /\ IsStep(d, a) /\ IsStep(d, b)
  <2>1. /\ Len(todo[d]) = 2 /\ todo[d] = <<Head(todo[d]), todo[d][2]>> /\ todo[d][1] = Head(todo[d])
    BY <1>3, TwoSteps
  <2>2. Removing(d)
    BY <1>1, <2>1 DEF Asking, Adding
  <2> QED
    BY <2>1, <2>2 DEF Removing
<1> QED
  BY <1>1, <1>2, <1>3 DEF AreSteps

\* What the entry now says of the device is gathered.
LEMMA KeepsAtGather ==
  ASSUME ~Spaced, FTypes, NEW d \in Devices, Keeps(d), Gather(d)
  PROVE  Keeps(d)'
<1> DEFINE step == Head(todo[d])
           fresh == Info(step.entry, disk[d])
           old == step.old
<1>1. /\ Working(d) /\ step.op = "gather" /\ watch[d] = "running"
      /\ UNCHANGED <<watch, initial, conf, disk, unread, declared>>
      /\ baseline' = [baseline EXCEPT ![d] = fresh]
      /\ todo' = [todo EXCEPT ![d] =
           CASE step.suppress -> <<>>
             [] ~step.suppress /\ old = None -> <<ReportMount(fresh, d \in Luks)>>
             [] OTHER -> Remounted(d, old, fresh)]
  BY DEF Gather, Working, watcherVars, deviceState
<1>2. AreSteps(d, todo[d]) /\ disk[d] \in Disks(d)
  BY DEF FTypes, DeviceTypes
<1>3. /\ Asking(d) /\ todo[d] = <<step>>
  BY <1>1, <1>2, WhereAWatcherIs
<1>4. /\ step.entry \in Entries(d) /\ step.suppress \in BOOLEAN /\ old \in Infos(d) \cup {None}
  BY <1>1, <1>2, StepTaken DEF IsStep, IsCall, Working
<1>5. /\ baseline'[d] = fresh
      /\ todo'[d] = CASE step.suppress -> <<>>
                      [] ~step.suppress /\ old = None -> <<ReportMount(fresh, d \in Luks)>>
                      [] OTHER -> Remounted(d, old, fresh)
  BY <1>1 DEF FTypes
<1>6. Heading(d) = fresh
  <2>1. todo[d] # <<>> /\ Last(todo[d]) = step
    BY <1>3, OneStep
  <2> QED
    BY <1>1, <2>1 DEF Heading
<1>7. d \notin unread => Lookup(conf[d]) = "malformed" \/ Alike(Value(conf[d], disk[d]), fresh)
  BY <1>1, <1>6 DEF Keeps, Informed
<1>8. /\ fresh \in Infos(d) /\ fresh # None
      /\ fresh.mount_point = step.entry.mount_point /\ fresh.options \in Seq(Segments)
  <2>1. /\ fresh \in Infos(d)
        /\ fresh = [mount_point |-> step.entry.mount_point, options |-> step.entry.options, disk |-> disk[d]]
    BY <1>2, <1>4, InfoTypes
  <2> QED
    BY <2>1, NoneApart DEF Infos
<1>9. /\ todo[d][1] = step
      /\ \/ Asks(step) /\ (Places(declared, d) = {} \/ (initial[d] /\ Says(declared, d, fresh)))
         \/ step.suppress /\ Says(declared, d, fresh)
         \/ /\ ~step.suppress /\ old # None
            /\ Says(declared, d, old) /\ old.mount_point = step.entry.mount_point
  BY <1>3, OneStep DEF Asking
<1> HIDE DEF step, fresh, old
<1>10. ASSUME todo'[d] = <<>> \/ Last(todo'[d]).op # "gather" PROVE Informed(d)'
  <2>1. Heading(d)' = fresh
    BY <1>5, <1>10 DEF Heading
  <2> QED
    BY <1>1, <1>7, <2>1 DEF Informed
<1>11. CASE step.suppress
  <2>1. todo'[d] = <<>>
    BY <1>5, <1>11
  <2>2. Says(declared, d, fresh)
    BY <1>9, <1>11 DEF Asks
  <2>3. AtRest(d)'
    BY <1>1, <1>5, <2>1, <2>2 DEF AtRest
  <2> QED
    BY <1>1, <1>10, <2>1, <2>3 DEF Keeps
<1>12. CASE ~step.suppress /\ old = None
  <2> DEFINE call == ReportMount(fresh, d \in Luks)
  <2>1. todo'[d] = <<call>>
    BY <1>5, <1>12
  <2>2. Adds(call, fresh)
    BY <1>8 DEF ReportMount, AddMount, Adds
  <2> HIDE DEF call
  <2>3. Places(declared, d) = {} \/ (initial[d] /\ Says(declared, d, fresh))
    BY <1>9, <1>12
  <2>4. Places(declared, d) \subseteq {fresh.mount_point} /\ (initial[d] \/ ~Says(declared, d, fresh))
    BY <1>8, <2>3 DEF Says
  <2>5. Adding(d)'
    BY <1>1, <1>5, <2>1, <2>2, <2>4, OneStep DEF Adding
  <2>6. Last(todo'[d]).op # "gather"
    BY <2>1, <2>2, OneStep DEF Adds
  <2> QED
    BY <1>1, <1>10, <2>5, <2>6 DEF Keeps
<1>13. CASE ~step.suppress /\ old # None
  <2>1. todo'[d] = Remounted(d, old, fresh)
    BY <1>5, <1>13
  <2>2. Says(declared, d, old) /\ old.mount_point = fresh.mount_point
    BY <1>8, <1>9, <1>13 DEF Asks, old
  <2>3. old \in Infos(d) /\ old.options \in Seq(Segments)
    BY <1>4, <1>13 DEF Infos
  <2>4. CASE fresh.disk # old.disk
    <3> DEFINE first == RemoveMount(old)
               call == ReportMount(fresh, d \in Luks)
    <3>1. todo'[d] = <<first, call>>
      BY <2>1, <2>4 DEF Remounted
    <3>2. first.op = "remove_mount" /\ first.mount_point = old.mount_point /\ Adds(call, fresh)
      BY <1>8 DEF RemoveMount, ReportMount, AddMount, Adds
    <3> HIDE DEF first, call
    <3>3. Places(declared, d) = {old.mount_point}
      BY <1>13, <2>2 DEF Says
    <3>4. Removing(d)'
      <4>1. /\ todo'[d] # <<>> /\ Head(todo'[d]) = first /\ todo'[d][2] = call /\ Len(todo'[d]) = 2
        BY <3>1, TwoSteps
      <4>2. Places(declared', d) = {first.mount_point} /\ baseline'[d] = fresh
        BY <1>1, <1>5, <3>2, <3>3
      <4> QED
        BY <3>2, <4>1, <4>2 DEF Removing
    <3>5. Last(todo'[d]).op # "gather"
      BY <3>1, <3>2, TwoSteps DEF Adds
    <3> QED
      BY <1>1, <1>10, <3>4, <3>5 DEF Keeps
  <2>5. CASE fresh.disk = old.disk /\ ~SameOptions(old.options, fresh.options)
    <3> DEFINE call == ReportOptionsChanged(old, fresh.options)
    <3>1. todo'[d] = <<call>>
      BY <2>1, <2>5 DEF Remounted
    <3>2. Adds(call, fresh)
      <4> DEFINE j == [old EXCEPT !.options = fresh.options]
      <4>1. j.mount_point = old.mount_point /\ j.disk = old.disk /\ j.options = fresh.options
        BY <2>3 DEF Infos
      <4>2. call = AddMount(j, FALSE)
        BY DEF ReportOptionsChanged
      <4> HIDE DEF j, call
      <4> QED
        BY <1>8, <2>2, <2>5, <4>1, <4>2 DEF AddMount, Adds
    <3> HIDE DEF call
    <3>3. Names(old.options) # Names(fresh.options)
      BY <1>8, <2>3, <2>5, OptionsAlike
    <3>4. Places(declared, d) \subseteq {fresh.mount_point} /\ ~Says(declared, d, fresh)
      BY <1>8, <1>13, <2>2, <3>3 DEF Says
    <3>5. Adding(d)'
      BY <1>1, <1>5, <3>1, <3>2, <3>4, OneStep DEF Adding
    <3>6. Last(todo'[d]).op # "gather"
      BY <3>1, <3>2, OneStep DEF Adds
    <3> QED
      BY <1>1, <1>10, <3>5, <3>6 DEF Keeps
  <2>6. CASE fresh.disk = old.disk /\ SameOptions(old.options, fresh.options)
    <3>1. todo'[d] = <<>>
      BY <2>1, <2>6 DEF Remounted
    <3>2. Names(old.options) = Names(fresh.options)
      BY <1>8, <2>3, <2>6, OptionsAlike
    <3>3. Says(declared, d, fresh)
      BY <1>8, <1>13, <2>2, <2>6, <3>2 DEF Says
    <3>4. AtRest(d)'
      BY <1>1, <1>5, <3>1, <3>3 DEF AtRest
    <3> QED
      BY <1>1, <1>10, <3>1, <3>4 DEF Keeps
  <2> QED
    BY <2>4, <2>5, <2>6
<1> QED
  BY <1>4, <1>11, <1>12, <1>13

\* A report is declared. It is not for nothing, a first report apart.
LEMMA KeepsAtReport ==
  ASSUME FTypes, NEW d \in Devices, Keeps(d), Report(d)
  PROVE  Keeps(d)' /\ (~initial[d] => declared' # declared)
<1> DEFINE call == Head(todo[d])
           next == todo[d][2]
           info == baseline[d]
<1>1. /\ Working(d) /\ call.op # "gather" /\ watch[d] = "running" /\ Commit(call)
      /\ todo' = [todo EXCEPT ![d] = Tail(@)]
      /\ UNCHANGED <<watch, initial, disk, baseline>>
  BY DEF Report, Working, watcherVars, Commit
<1>2. AreSteps(d, todo[d]) /\ todo'[d] = Tail(todo[d])
  BY <1>1 DEF FTypes, DeviceTypes
<1>3. /\ Removing(d) \/ Adding(d)
      /\ Len(todo[d]) = 1 => todo[d] = <<call>>
      /\ Len(todo[d]) = 2 => todo[d] = <<call, next>>
      /\ todo[d][1] = call
  BY <1>1, <1>2, WhereAWatcherIs
<1>4. IsCall(d, call)
  BY <1>1, <1>2, StepTaken DEF IsStep, Working
<1>5. d \notin unread' => d \notin unread /\ conf'[d] = conf[d]
  BY <1>1 DEF Commit
<1>6. info \in Infos(d) \cup {None}
  BY DEF FTypes, DeviceTypes
<1> HIDE DEF call, next
<1>7. Informed(d) /\ watch'[d] = "running"
  BY <1>1 DEF Keeps
<1>8. ASSUME Heading(d)' = Heading(d) PROVE Informed(d)'
  BY <1>1, <1>5, <1>7, <1>8 DEF Informed
<1>9. CASE Removing(d)
  <2>1. /\ call.op = "remove_mount" /\ Places(declared, d) = {call.mount_point}
        /\ \/ Len(todo[d]) = 1 /\ info = None
           \/ Len(todo[d]) = 2 /\ (Asks(next) \/ Adds(next, info))
    BY <1>9 DEF Removing, call, next
  <2>2. Places(declared', d) = {}
    BY <1>1, <1>4, <2>1, CommitHere
  <2>3. declared' # declared
    BY <2>1, <2>2
  <2>4. CASE Len(todo[d]) = 1 /\ info = None
    <3>1. todo[d] = <<call>> /\ todo'[d] = <<>>
      BY <1>2, <1>3, <2>4, OneStep
    <3>2. AtRest(d)'
      BY <1>1, <2>2, <2>4, <3>1 DEF AtRest, Says
    <3>3. Heading(d)' = Heading(d)
      BY <1>1, <2>1, <3>1, OneStep DEF Heading
    <3> QED
      BY <1>7, <1>8, <2>3, <3>2, <3>3 DEF Keeps
  <2>5. CASE Len(todo[d]) = 2
    <3>1. todo[d] = <<call, next>> /\ todo'[d] = <<next>>
      <4>1. todo[d] = <<call, next>> /\ Tail(<<call, next>>) = <<next>>
        BY <1>3, <2>5, TwoSteps
      <4> QED
        BY <1>2, <4>1
    <3>2. Heading(d)' = Heading(d)
      <4>1. todo[d] # <<>> /\ todo'[d] # <<>> /\ Last(todo[d]) = next /\ Last(todo'[d]) = next
        BY <3>1, OneStep, TwoSteps
      <4> QED
        BY <1>1, <4>1 DEF Heading
    <3>3. Len(todo'[d]) = 1 /\ todo'[d][1] = next
      BY <3>1, OneStep
    <3>4. CASE Asks(next)
      <4>1. next.op = "gather"
        BY <3>4 DEF Asks
      <4>2. Asking(d)'
        BY <2>2, <3>3, <3>4, <4>1 DEF Asking
      <4> QED
        BY <1>7, <1>8, <2>3, <3>2, <4>2 DEF Keeps
    <3>5. CASE Adds(next, info)
      <4>1. ~Says(declared', d, info)
        BY <2>2, <3>5 DEF Adds, Says
      <4>2. Adding(d)'
        BY <1>1, <2>2, <3>3, <3>5, <4>1 DEF Adding
      <4> QED
        BY <1>7, <1>8, <2>3, <3>2, <4>2 DEF Keeps
    <3> QED
      BY <2>1, <2>5, <3>4, <3>5
  <2> QED
    BY <2>1, <2>4, <2>5
<1>10. CASE Adding(d)
  <2>1. /\ Len(todo[d]) = 1 /\ Adds(call, info)
        /\ Places(declared, d) \subseteq {info.mount_point}
        /\ initial[d] \/ ~Says(declared, d, info)
    BY <1>3, <1>10 DEF Adding
  <2>2. todo[d] = <<call>> /\ todo'[d] = <<>>
    BY <1>2, <1>3, <2>1, OneStep
  <2>3. /\ call.op = "add_mount" /\ call.mount_point = info.mount_point /\ info # None
        /\ call.entry.disk = info.disk /\ call.entry.options = OptionList(info.options)
    BY <2>1 DEF Adds
  <2>4. Places(declared', d) = {info.mount_point} /\ declared'[info.mount_point] = call.entry
    BY <1>1, <1>4, <2>1, <2>3, CommitHere
  <2>5. Says(declared', d, info)
    BY <2>3, <2>4 DEF Says, Names
  <2>6. AtRest(d)'
    BY <1>1, <2>2, <2>5 DEF AtRest
  <2>7. Heading(d)' = Heading(d)
    BY <1>1, <2>2, <2>3, OneStep DEF Heading
  <2>8. ~initial[d] => declared' # declared
    BY <2>1, <2>5
  <2> QED
    BY <1>7, <1>8, <2>6, <2>7, <2>8 DEF Keeps
<1> QED
  BY <1>3, <1>9, <1>10


--------------------------------------------------------------------------------
(* The loop *)

LEMMA RInitHolds == ASSUME OwnPlaces, Init PROVE RInv
<1>1. FTypes
  BY FInitTypes
<1>2. /\ calls = <<>> /\ report = None /\ stamped = {} /\ irregular = {}
      /\ \A d \in Devices : watch[d] = "none" /\ Lookup(conf[d]) # "malformed"
  BY FstabAssumption DEF Init, WatchersInit
<1>3. ASSUME NEW d \in Devices PROVE Says(declared, d, Value(conf[d], disk[d]))
  <2> DEFINE here(m) == {e \in Devices : Lookup(conf[e]) = "entry" /\ LookupEntry(conf[e]).mount_point = m}
             of(m) == CHOOSE e \in here(m) : TRUE
             info(e) == Value(conf[e], disk[e])
  <2>1. \A e \in Devices :
          /\ info(e) \in Infos(e) \cup {None}
          /\ info(e) # None <=> Lookup(conf[e]) = "entry"
          /\ Lookup(conf[e]) = "entry" =>
               /\ info(e) = Info(LookupEntry(conf[e]), disk[e])
               /\ info(e).mount_point = LookupEntry(conf[e]).mount_point
    BY <1>1, ValueTypes DEF FTypes, DeviceTypes, Value
  <2>2. ASSUME NEW m \in MountPoints, here(m) # {}
        PROVE  /\ of(m) \in Devices /\ info(of(m)) # None /\ info(of(m)).mount_point = m
               /\ declared[m] # None
               /\ declared[m].disk = info(of(m)).disk /\ declared[m].options = OptionList(info(of(m)).options)
    <3>1. of(m) \in here(m)
      BY <2>2
    <3>2. declared[m] = ReportMount(Info(LookupEntry(conf[of(m)]), disk[of(m)]), of(m) \in Luks).entry
      BY <2>2 DEF Init
    <3> DEFINE e == of(m)
    <3> HIDE DEF e
    <3>3. e \in Devices /\ Lookup(conf[e]) = "entry" /\ LookupEntry(conf[e]).mount_point = m
      BY <3>1 DEF e
    <3>4. declared[m] = ReportMount(info(e), e \in Luks).entry
      BY <2>1, <3>2, <3>3 DEF e
    <3>5. info(e) \in Infos(e) /\ info(e) # None /\ info(e).mount_point = m
      BY <2>1, <3>3
    <3> HIDE DEF info
    <3>6. declared[m] = [disk |-> info(e).disk, options |-> OptionList(info(e).options), luks |-> e \in Luks]
      BY <3>4 DEF ReportMount, AddMount
    <3>7. declared[m] # None
      <4>1. IsDeclared(e, declared[m])
        <5>1. \A luks \in Locks(e) : IsCall(e, ReportMount(info(e), luks))
          BY <3>5, CallTypes
        <5>2. (e \in Luks) \in Locks(e)
          BY LockTypes
        <5>3. IsCall(e, ReportMount(info(e), e \in Luks))
          BY <5>1, <5>2
        <5> QED
          BY <3>4, <5>3 DEF IsCall, ReportMount, AddMount
      <4> QED
        BY <3>3, <4>1, NoneApart
    <3> QED
      BY <3>3, <3>5, <3>6, <3>7 DEF e
  <2>3. ASSUME NEW m \in MountPoints, here(m) = {} PROVE declared[m] = None
    BY <2>3 DEF Init
  <2> HIDE DEF of
  <2>4. ASSUME NEW m \in Places(declared, d)
        PROVE  of(m) = d /\ info(d) # None /\ info(d).mount_point = m
    <3>1. m \in MountPoints /\ declared[m] # None /\ declared[m].disk \in Disks(d)
      BY DEF Places
    <3>2. here(m) # {}
      BY <2>3, <3>1
    <3> HIDE DEF here
    <3>3. /\ of(m) \in Devices /\ info(of(m)) # None /\ info(of(m)).mount_point = m
          /\ declared[m].disk = info(of(m)).disk
      BY <2>2, <3>1, <3>2
    <3>4. info(of(m)).disk \in Disks(of(m))
      BY <2>1, <3>3 DEF Infos
    <3>5. of(m) = d
      BY <3>1, <3>3, <3>4, DisksApart
    <3> QED
      BY <3>3, <3>5
  <2>5. ASSUME info(d) # None
        PROVE  LET m == info(d).mount_point IN m \in Places(declared, d) /\ of(m) = d
    <3> DEFINE m == info(d).mount_point
    <3>1. info(d) \in Infos(d) /\ m \in Dirs(d) /\ d \in here(m)
      BY <2>1, <2>5 DEF Infos
    <3>2. m \in MountPoints /\ here(m) # {}
      BY <3>1 DEF Dirs
    <3> HIDE DEF here
    <3>3. /\ of(m) \in Devices /\ info(of(m)) # None /\ info(of(m)).mount_point = m
          /\ declared[m] # None /\ declared[m].disk = info(of(m)).disk
      BY <2>2, <3>2
    <3>4. m \in Dirs(of(m)) /\ info(of(m)).disk \in Disks(of(m))
      BY <2>1, <3>3 DEF Infos
    <3>5. of(m) = d
      BY <3>1, <3>3, <3>4 DEF OwnPlaces
    <3> QED
      BY <3>2, <3>3, <3>4, <3>5 DEF Places
  <2>6. CASE info(d) = None
    <3>1. Places(declared, d) = {}
      BY <2>4, <2>6
    <3> QED
      BY <2>6, <3>1 DEF Says
  <2>7. CASE info(d) # None
    <3> DEFINE m == info(d).mount_point
    <3>1. m \in Places(declared, d) /\ of(m) = d
      BY <2>5, <2>7
    <3>2. Places(declared, d) = {m}
      BY <2>4, <3>1
    <3>3. m \in MountPoints /\ here(m) # {}
      BY <2>3, <3>1 DEF Places
    <3> HIDE DEF here
    <3>4. declared[m].disk = info(of(m)).disk /\ declared[m].options = OptionList(info(of(m)).options)
      BY <2>2, <3>3
    <3> QED
      BY <2>7, <3>1, <3>2, <3>4 DEF Says, Names
  <2> QED
    BY <2>6, <2>7
<1> QED
  BY <1>2, <1>3 DEF RInv, Apart, Keeps


\* One step per action: what it does to the devices that are still regular after it.
LEMMA RInductive == ASSUME NoVolumes, OwnPlaces, ~Spaced, FTypes, RInv, [Next]_vars PROVE RInv'
<1> DEFINE Regular(d) == d \in Devices /\ d \notin irregular'
<1>0. ASSUME Apart', irregular \subseteq irregular',
             \A d : Regular(d) /\ d \notin irregular /\ Keeps(d) => Keeps(d)'
      PROVE  RInv'
  BY <1>0 DEF RInv
<1>1. CASE UNCHANGED vars
  <2>1. \A d : UNCHANGED <<Local(d), declared>>
    BY <1>1 DEF vars, watcherVars, deviceState, watcherState, Local
  <2>2. Apart' /\ irregular' = irregular
    BY <1>1 DEF vars, monitorState, history, RInv, Apart
  <2> QED
    BY <1>0, <2>1, <2>2, LeftAlone
<1>2. CASE Appear
  <2>1. /\ UNCHANGED <<conf, disk, baseline, todo, unread, stamped, calls, report, declared, irregular>>
        /\ \A d \in Devices :
             \/ watch'[d] = watch[d] /\ initial'[d] = initial[d]
             \/ watch[d] # "running" /\ watch'[d] = "new"
    BY <1>2 DEF Appear, ListDevices, Subscribe, OnAdded, Spawn, Alive, deviceState, watcherState, monitorState, history,
                FTypes, WatchersTypeOK
  <2>2. ASSUME NEW d \in Devices, Keeps(d) PROVE Keeps(d)'
    <3>1. CASE watch'[d] = watch[d] /\ initial'[d] = initial[d]
      BY <2>1, <2>2, <3>1, LeftAlone DEF Local
    <3>2. CASE watch[d] # "running" /\ watch'[d] = "new"
      BY <2>1, <2>2, <3>2 DEF Keeps
    <3> QED
      BY <2>1, <3>1, <3>2
  <2>3. Apart'
    BY <2>1 DEF RInv, Apart
  <2> QED
    BY <1>0, <2>1, <2>2, <2>3
<1>3. CASE Disappear
  <2> DEFINE e == Head(removed)
  <2>1. /\ removed # <<>> /\ watch' = [watch EXCEPT ![e] = "none"]
        /\ todo' = [todo EXCEPT ![e] = <<>>] /\ baseline' = [baseline EXCEPT ![e] = None]
        /\ irregular' = irregular \cup (IF e \in unread \/ todo[e] # <<>> \/ Lookup(conf[e]) = "malformed" THEN {e} ELSE {})
        /\ UNCHANGED <<initial, conf, disk, unread, stamped, calls, report, declared>>
    BY <1>3 DEF Disappear, OnRemoved, deviceState, monitorState
  <2>2. e \in Devices
    BY <2>1 DEF FTypes, WatchersTypeOK
  <2> HIDE DEF e
  <2>3. ASSUME NEW d, Regular(d), Keeps(d) PROVE Keeps(d)'
    <3>1. CASE d = e
      <4>1. d \notin unread /\ todo[d] = <<>> /\ Lookup(conf[d]) # "malformed"
        BY <2>1, <2>3, <3>1
      <4>2. watch'[d] = "none"
        BY <2>1, <2>2, <3>1 DEF FTypes, WatchersTypeOK
      <4> QED
        BY <2>1, <2>3, <4>1, <4>2, LeftUnwatched
    <3>2. CASE d # e
      <4>1. watch'[d] = watch[d] /\ baseline'[d] = baseline[d] /\ todo'[d] = todo[d]
        BY <2>1, <2>3, <3>2 DEF FTypes, WatchersTypeOK
      <4> QED
        BY <2>1, <2>3, <4>1, LeftAlone DEF Local
    <3> QED
      BY <3>1, <3>2
  <2>4. Apart' /\ irregular \subseteq irregular'
    BY <2>1 DEF RInv, Apart
  <2> QED
    BY <1>0, <2>3, <2>4
<1>4. CASE Restart
  <2>1. /\ watch' = [d \in Devices |-> "none"] /\ stamped' = {} /\ calls' = <<>> /\ report' = None
        /\ irregular' = irregular \cup CutShort /\ UNCHANGED <<conf, disk, declared>>
    BY <1>4 DEF Restart, StartAgain
  <2>2. ASSUME NEW d, Regular(d), Keeps(d) PROVE Keeps(d)'
    <3>1. d \notin unread /\ todo[d] = <<>> /\ Lookup(conf[d]) # "malformed"
      BY <2>1, <2>2 DEF CutShort
    <3> QED
      BY <2>1, <2>2, <3>1, LeftUnwatched
  <2>3. Apart' /\ irregular \subseteq irregular'
    BY <2>1 DEF Apart
  <2> QED
    BY <1>0, <2>2, <2>3
<1>5. CASE Stamp
  <2>1. /\ calls # <<>> /\ calls' = Tail(calls) /\ stamped' = stamped \cup {Head(calls).path}
        /\ report' # None => report'.path = Head(calls).path
        /\ UNCHANGED <<watch, initial, conf, disk, baseline, todo, unread, declared, irregular>>
    BY <1>5 DEF Stamp, watcherVars, deviceState, watcherState, history
  <2>2. ASSUME NEW d \in Devices, Keeps(d) PROVE Keeps(d)'
    BY <2>1, <2>2, LeftAlone DEF Local
  <2>3. /\ Head(calls).path \in irregular
        /\ \A i \in DOMAIN Tail(calls) : Tail(calls)[i].path \in irregular
    <3>1. /\ Head(calls) = calls[1] /\ Len(calls) \in Nat \ {0} /\ DOMAIN calls = 1 .. Len(calls)
          /\ DOMAIN Tail(calls) = 1 .. Len(calls) - 1
          /\ \A i \in 1 .. Len(calls) - 1 : Tail(calls)[i] = calls[i + 1]
      BY <2>1 DEF FTypes
    <3> QED
      BY <3>1 DEF RInv, Apart
  <2>4. Apart'
    BY <2>1, <2>3 DEF RInv, Apart
  <2> QED
    BY <1>0, <2>1, <2>2, <2>4
<1>6. CASE Declare
  <2>0. PICK e \in Devices : \E left : report = [path |-> e, left |-> left] /\ AreCalls(e, left)
    BY <1>6 DEF Declare, FTypes
  <2>1. PICK left : report = [path |-> e, left |-> left] /\ AreCalls(e, left)
    BY <2>0
  <2> DEFINE call == Head(left)
  <2>2. /\ Commit(call) /\ report.left = left /\ report.path = e /\ report # None
        /\ report' = None \/ report' = [report EXCEPT !.left = Tail(left)]
        /\ UNCHANGED <<watch, initial, baseline, todo, stamped, calls, irregular>>
    BY <1>6, <2>1 DEF Declare, Remaining, watcherVars, watcherState
  <2>3. e \in Devices /\ e \in irregular
    BY <2>2 DEF FTypes, RInv, Apart
  <2>4. IsCall(e, call)
    <3>1. \A x : Head(<<x>>) = x /\ \A y : Head(<<x, y>>) = x
      BY OneStep, TwoSteps
    <3> QED
      BY <2>1, <3>1 DEF AreCalls
  <2> HIDE DEF call
  <2>5. ASSUME NEW d, Regular(d), Keeps(d) PROVE Keeps(d)'
    <3>1. d \in Devices /\ d # e
      BY <2>2, <2>3, <2>5
    <3> QED
      BY <2>2, <2>3, <2>4, <2>5, <3>1, KeepsThroughRebuild
  <2>6. Apart'
    <3>1. report' # None => report'.path = e
      BY <2>1, <2>2
    <3> QED
      BY <2>2, <2>3, <3>1 DEF RInv, Apart
  <2> QED
    BY <1>0, <2>2, <2>5, <2>6
<1>7. ASSUME irregular' = Devices PROVE RInv'
  <2>1. FTypes'
    BY FTypesKept
  <2>2. \A i \in DOMAIN calls' : calls'[i].path \in Devices
    <3> SUFFICES ASSUME NEW i \in DOMAIN calls' PROVE calls'[i].path \in Devices
      OBVIOUS
    <3>1. calls'[i] \in AuthorisedCalls
      BY <2>1 DEF FTypes
    <3> QED
      BY <3>1 DEF AuthorisedCalls
  <2>3. stamped' \subseteq Devices /\ (report' # None => report'.path \in Devices)
    BY <2>1 DEF FTypes
  <2> QED
    BY <1>7, <2>2, <2>3 DEF RInv, Apart
<1>8. CASE DeclareFails \/ \E d \in Devices : WatchFails(d) \/ ReportFails(d)
  BY <1>7, <1>8 DEF DeclareFails, WatchFails, ReportFails, Fault
<1>9. ASSUME NEW e \in Devices, FirstRead(e) PROVE RInv'
  <2>1. /\ watch' = [watch EXCEPT ![e] = "running"] /\ unread' = unread \ {e}
        /\ \A d \in Devices : d # e => todo'[d] = todo[d]
        /\ irregular \subseteq irregular'
        /\ UNCHANGED <<initial, conf, disk, baseline, stamped, calls, report, declared>>
    BY <1>9 DEF FirstRead, monitorState, FTypes
  <2>2. ASSUME NEW d, Regular(d), Keeps(d) PROVE Keeps(d)'
    <3>1. CASE d = e
      BY <1>9, <2>2, <3>1, KeepsAtFirstRead
    <3>2. CASE d # e
      <4>1. watch'[d] = watch[d] /\ todo'[d] = todo[d]
        BY <2>1, <2>2, <3>2 DEF FTypes, WatchersTypeOK
      <4> QED
        BY <2>1, <2>2, <3>2, <4>1, LeftAlone DEF Local
    <3> QED
      BY <3>1, <3>2
  <2>3. Apart'
    BY <2>1 DEF RInv, Apart
  <2> QED
    BY <1>0, <2>1, <2>2, <2>3
<1>10. ASSUME NEW e \in Devices, Read(e) \/ Gather(e) PROVE RInv'
  <2>1. /\ \A d \in Devices : d # e =>
             todo'[d] = todo[d] /\ baseline'[d] = baseline[d] /\ (d \in unread' <=> d \in unread)
        /\ UNCHANGED <<watch, initial, conf, disk, stamped, calls, report, declared, irregular>>
    BY <1>10 DEF Read, Gather, watcherVars, deviceState, monitorState, FTypes
  <2>2. ASSUME NEW d, Regular(d), d \notin irregular, Keeps(d) PROVE Keeps(d)'
    <3>1. CASE d = e
      <4>1. d \notin stamped
        BY <2>2 DEF RInv, Apart
      <4> QED
        BY <1>10, <2>2, <3>1, <4>1, KeepsAtRead, KeepsAtGather
    <3>2. CASE d # e
      BY <2>1, <2>2, <3>2, LeftAlone DEF Local
    <3> QED
      BY <3>1, <3>2
  <2>3. Apart'
    BY <2>1 DEF RInv, Apart
  <2> QED
    BY <1>0, <2>1, <2>2, <2>3
<1>11. ASSUME NEW e \in Devices, Report(e) PROVE RInv'
  <2> DEFINE call == Head(todo[e])
  <2>1. /\ todo[e] # <<>> /\ call.op # "gather" /\ Commit(call)
        /\ \A d \in Devices : d # e => todo'[d] = todo[d]
        /\ UNCHANGED <<watch, initial, baseline, stamped, calls, report, irregular>>
    BY <1>11 DEF Report, Working, watcherVars, monitorState, FTypes
  <2>2. IsCall(e, call)
    BY <2>1, StepTaken DEF FTypes, DeviceTypes, IsStep
  <2> HIDE DEF call
  <2>3. ASSUME NEW d, Regular(d), Keeps(d) PROVE Keeps(d)'
    <3>1. CASE d = e
      BY <1>11, <2>3, <3>1, KeepsAtReport
    <3>2. CASE d # e
      BY <2>1, <2>2, <2>3, <3>2, KeepsThroughRebuild
    <3> QED
      BY <3>1, <3>2
  <2>4. Apart'
    BY <2>1 DEF RInv, Apart
  <2> QED
    BY <1>0, <2>1, <2>3, <2>4
<1>12. ASSUME NEW e \in Devices, Expire(e) \/ Come(e) PROVE RInv'
  <2>1. /\ stamped' \subseteq stamped
        /\ UNCHANGED <<watch, initial, conf, disk, baseline, todo, unread, calls, report, declared, irregular>>
    BY <1>12 DEF Expire, Come, Plug, Unplug, watcherVars, deviceState, watcherState, monitorState, history
  <2>2. ASSUME NEW d \in Devices, Keeps(d) PROVE Keeps(d)'
    BY <2>1, <2>2, LeftAlone DEF Local
  <2>3. Apart'
    BY <2>1 DEF RInv, Apart
  <2> QED
    BY <1>0, <2>1, <2>2, <2>3
<1>13. ASSUME NEW e \in Devices, NEW c, Changes(e, c), irregular \subseteq irregular', Apart',
              e \in irregular' \/ watch[e] = "running",
              e \in irregular' \/ disk' = disk \/ todo[e] = <<>>,
              \A d \in Devices : d # e => disk'[d] = disk[d]
       PROVE  RInv'
  <2>1. /\ unread' = unread \cup {e} /\ \A d \in Devices : d # e => conf'[d] = conf[d]
        /\ UNCHANGED <<watch, initial, baseline, todo, declared>>
    BY <1>13 DEF Changes, watcherVars, watcherState, FTypes
  <2>2. ASSUME NEW d, Regular(d), Keeps(d) PROVE Keeps(d)'
    <3>1. CASE d = e
      <4>1. watch[d] = "running" /\ (disk' = disk \/ todo[d] = <<>>)
        BY <1>13, <2>2, <3>1
      <4>2. d \in unread' /\ Informed(d)'
        BY <2>1, <3>1 DEF Informed
      <4>3. (AtRest(d) <=> AtRest(d)') /\ (Removing(d) <=> Removing(d)') /\ (Adding(d) <=> Adding(d)')
        BY <2>1 DEF AtRest, Removing, Adding
      <4>4. Asking(d) => Asking(d)'
        <5>1. CASE disk' = disk
          BY <2>1, <5>1 DEF Asking
        <5>2. CASE todo[d] = <<>>
          <6>1. Len(todo[d]) = 0
            BY <5>2
          <6> QED
            BY <6>1 DEF Asking
        <5> QED
          BY <4>1, <5>1, <5>2
      <4> QED
        BY <2>1, <2>2, <4>1, <4>2, <4>3, <4>4 DEF Keeps
    <3>2. CASE d # e
      BY <1>13, <2>1, <2>2, <3>2, LeftAlone DEF Local
    <3> QED
      BY <3>1, <3>2
  <2> QED
    BY <1>0, <1>13, <2>2
<1>14. ASSUME NEW e \in Devices, Remake(e) PROVE RInv'
  <2>1. /\ Changes(e, conf[e]) /\ UNCHANGED <<calls, irregular, report, stamped>>
        /\ watch[e] = "running" /\ todo[e] = <<>>
        /\ \A d \in Devices : d # e => disk'[d] = disk[d]
    BY <1>14 DEF Remake, Changes, history, FTypes
  <2>2. Apart'
    BY <2>1 DEF RInv, Apart
  <2> QED
    BY <1>13, <2>1, <2>2
<1>15. ASSUME NEW e \in Devices, NEW c \in Configurations[e], Edit(e, c) PROVE RInv'
  <2>1. /\ Changes(e, c) /\ UNCHANGED <<calls, disk, report, stamped>>
        /\ irregular \subseteq irregular' /\ (watch[e] = "running" \/ e \in irregular')
    BY <1>15 DEF Edit, Changes
  <2>2. Apart'
    BY <2>1 DEF RInv, Apart
  <2> QED
    BY <1>13, <2>1, <2>2
<1>16. ASSUME NEW e \in Devices, NEW c \in Configurations[e], Call(e, c) PROVE RInv'
  <2>1. /\ Changes(e, c) /\ UNCHANGED <<disk, report, stamped>> /\ irregular' = irregular \cup {e}
        /\ calls' = calls \/ \E i : calls' = Append(calls, [path |-> e, intent |-> i])
    BY <1>16 DEF Call, Changes
  <2>2. \A i \in DOMAIN calls' : calls'[i].path \in irregular'
    <3>1. CASE calls' = calls
      BY <2>1, <3>1 DEF RInv, Apart
    <3>2. CASE \E i : calls' = Append(calls, [path |-> e, intent |-> i])
      <4>1. PICK i : calls' = Append(calls, [path |-> e, intent |-> i])
        BY <3>2
      <4> DEFINE call == [path |-> e, intent |-> i]
      <4>2. call.path = e
        OBVIOUS
      <4>3. calls \in Seq(AuthorisedCalls)
        BY DEF FTypes
      <4> HIDE DEF call
      <4>4. /\ DOMAIN Append(calls, call) = 1 .. Len(calls) + 1 /\ Len(calls) \in Nat /\ DOMAIN calls = 1 .. Len(calls)
            /\ \A j \in 1 .. Len(calls) : Append(calls, call)[j] = calls[j]
            /\ Append(calls, call)[Len(calls) + 1] = call
        BY <4>3
      <4>5. calls' = Append(calls, call)
        BY <4>1 DEF call
      <4>6. \A j \in 1 .. Len(calls) : calls[j].path \in irregular
        BY <4>4 DEF RInv, Apart
      <4>7. ASSUME NEW j \in 1 .. Len(calls) + 1 PROVE Append(calls, call)[j].path \in irregular \cup {e}
        <5>1. CASE j = Len(calls) + 1
          BY <4>2, <4>4, <5>1
        <5>2. CASE j # Len(calls) + 1
          <6>1. j \in 1 .. Len(calls)
            BY <4>4, <5>2
          <6> QED
            BY <4>4, <4>6, <6>1
        <5> QED
          BY <5>1, <5>2
      <4> QED
        BY <2>1, <4>4, <4>5, <4>7
    <3> QED
      BY <2>1, <3>1, <3>2
  <2>3. Apart'
    BY <2>1, <2>2 DEF RInv, Apart
  <2> QED
    BY <1>13, <2>1, <2>3
<1> QED
  BY <1>1, <1>2, <1>3, <1>4, <1>5, <1>6, <1>8, <1>9, <1>10, <1>11, <1>12, <1>14, <1>15, <1>16 DEF Next

\* mod.rs, Coalescing: "the reports always converge on the current configuration". As
\* long as a device's own watcher is the only one to report about it, and whatever the
\* other devices, their watchers and the monitor are at: once the watcher has dealt with
\* the last value, what is declared of the device's disks is what the first fstab item
\* of that value says.
LastValueDeclared ==
  \A d \in Devices \ (unread \cup irregular) :
    watch[d] = "running" /\ todo[d] = <<>> /\ Lookup(conf[d]) # "malformed" =>
      Says(declared, d, Value(conf[d], disk[d]))

LEMMA RInvDeclares == RInv => LastValueDeclared
<1> SUFFICES ASSUME RInv, NEW d \in Devices \ (unread \cup irregular), watch[d] = "running", todo[d] = <<>>,
                    Lookup(conf[d]) # "malformed"
             PROVE  Says(declared, d, Value(conf[d], disk[d]))
  BY DEF LastValueDeclared
<1>1. Len(todo[d]) = 0
  OBVIOUS
<1>2. Says(declared, d, baseline[d])
  BY <1>1 DEF RInv, Keeps, AtRest, Removing, Asking, Adding
<1>3. Alike(Value(conf[d], disk[d]), baseline[d])
  BY DEF RInv, Keeps, Informed, Heading
<1> QED
  BY <1>2, <1>3, AlikeSays

THEOREM LastValueIsDeclared == ASSUME NoVolumes, OwnPlaces, ~Spaced PROVE Spec => []LastValueDeclared
<1>1. Init => FTypes /\ RInv
  BY FInitTypes, RInitHolds
<1>2. (FTypes /\ RInv) /\ [Next]_vars => (FTypes /\ RInv)'
  BY FTypesKept, RInductive
<1> QED
  BY <1>1, <1>2, RInvDeclares, PTL DEF Spec

\* mount_info.rs, same_options: "a needless nixos-rebuild". For any plain devices that
\* have their own mount points: as long as nothing but its watcher reports about a device,
\* no report of that watcher leaves the configuration as it was, whatever is merged,
\* relinked after another's rebuild, or written in another order; first reports apart.
THEOREM NoReportIsForNothing == ASSUME NoVolumes, OwnPlaces, ~Spaced PROVE Spec => NoNeedlessRebuild
<1>1. Init => FTypes /\ RInv
  BY FInitTypes, RInitHolds
<1>2. (FTypes /\ RInv) /\ [Next]_vars => (FTypes /\ RInv)'
  BY FTypesKept, RInductive
<1>3. FTypes /\ RInv => \A d \in Devices \ irregular : Report(d) /\ ~initial[d] => declared' # declared
  BY KeepsAtReport DEF RInv
<1>4. FTypes /\ RInv /\ [Next]_vars
        => [\A d \in Devices \ irregular : Report(d) /\ ~initial[d] => declared' # declared]_vars
  BY <1>3
<1> QED
  BY <1>1, <1>2, <1>4, PTL DEF Spec, NoNeedlessRebuild

--------------------------------------------------------------------------------
(* What a watcher, the monitor and a rebuild are converging to *)

\* Whoever edits /etc/fstab gives a device one item at most, an fstab one: of several the
\* first is read but each is an authorised call, and an update to an item of another
\* kind has no intent. A rebuild may leave several.
OneItem ==
  \A d \in Devices : \A c \in Configurable(d) :
    Len(c) <= 1 /\ \A i \in DOMAIN c : c[i].kind = "fstab"

\* The other steps of a watcher; the entry it adds is of the disk that is there.
Drops(step) == step.op = "remove_mount"
Trusts(step) == step.op = "gather" /\ step.suppress
Compares(step) ==
  /\ step.op = "gather" /\ ~step.suppress
  /\ step.old # None /\ step.old.mount_point = step.entry.mount_point
AddsNow(k, info, step) == Adds(step, info) /\ info.disk = k

Place(step) == IF step.op = "gather" THEN step.entry.mount_point ELSE step.mount_point

\* The steps s that a watcher can have left, with the baseline info, on the disk k.
Shape(k, info, s) ==
  \/ s = <<>>
  \/ /\ Len(s) = 1
     /\ \/ Drops(s[1]) /\ info = None
        \/ Asks(s[1]) \/ Trusts(s[1]) \/ Compares(s[1]) \/ AddsNow(k, info, s[1])
  \/ Len(s) = 2 /\ Drops(s[1]) /\ (Asks(s[2]) \/ AddsNow(k, info, s[2]))

\* What is declared of d where the steps it has left lead to the value they come from.
Position(ms, d, k, info, s) ==
  \/ s = <<>> /\ Says(ms, d, info)
  \/ /\ Len(s) = 1
     /\ \/ (Drops(s[1]) \/ Asks(s[1]) \/ AddsNow(k, info, s[1])) /\ Places(ms, d) \subseteq {Place(s[1])}
        \/ Trusts(s[1]) /\ Says(ms, d, Info(s[1].entry, k))
        \/ Compares(s[1]) /\ (Says(ms, d, s[1].old) \/ Says(ms, d, Info(s[1].entry, k)))
  \/ Len(s) = 2 /\ Places(ms, d) \subseteq {Place(s[1]), Place(s[2])}

HeadsFor(k, info, s) ==
  IF s # <<>> /\ Last(s).op = "gather" THEN Info(Last(s).entry, k) ELSE info

\* A call or a report of the monitor is about d.
Busy(d) == (\E i \in DOMAIN calls : calls[i].path = d) \/ (report # None /\ report.path = d)

\* Nothing is declared of the disk that was there before; the value is a rebuild's.
Current(d) == \A m \in Places(declared, d) : declared[m].disk = disk[d]
Relinked(d) == conf[d] = Generated(declared, disk[d])

\* Of any device.
Ordinary(d) ==
  /\ Shape(disk[d], baseline[d], todo[d])
  /\ watch[d] = "running" => Informed(d)
  /\ Len(conf[d]) > 1 => Relinked(d)
  /\ \A i \in DOMAIN conf[d] : conf[d][i].kind = "fstab"

Watched(d) ==
  /\ d \notin unread => Len(conf[d]) <= 1
  /\ \/ d \in unread \cap stamped
     \/ Position(declared, d, disk[d], baseline[d], todo[d])
     \/ Busy(d) /\ Current(d)

Unwatched(d) ==
  /\ Lookup(conf[d]) # "malformed" /\ Current(d)
  /\ Relinked(d) \/ Says(declared, d, Value(conf[d], disk[d])) \/ Busy(d)

Fits(d) == IF watch[d] = "running" THEN Watched(d) ELSE Unwatched(d)

\* What the monitor has left to add is of the disk that is there.
ReportsNow ==
  report # None =>
    \A i \in DOMAIN report.left : report.left[i].op = "add_mount" => report.left[i].entry.disk = disk[report.path]

Accounted(d) == Ordinary(d) /\ (d \notin excused => Fits(d))

CInv == ReportsNow /\ \A d \in Devices : Accounted(d)

--------------------------------------------------------------------------------
(* The entries of a rebuild *)

\* One fstab item, to be read, for each place that is declared of the disk.
LEMMA GeneratedItems ==
  ASSUME NoVolumes, NEW ms, DeclaredTypes(ms), NEW d \in Devices, NEW k \in Disks(d)
  PROVE  LET c == Generated(ms, k)
         IN  /\ \A i \in DOMAIN c : c[i].kind = "fstab" /\ c[i].dir \in Declares(ms, k) /\ ItemEntry(c[i]) # None
             /\ \A m \in Declares(ms, k) : \E i \in DOMAIN c : c[i].dir = m
             /\ \A i, j \in DOMAIN c : c[i].dir = c[j].dir => i = j
             /\ Len(c) \in Nat /\ DOMAIN c = 1 .. Len(c)
<1> DEFINE item(m) == [kind |-> "fstab", dir |-> m,
                       opts |-> [i \in DOMAIN ms[m].options |-> [name |-> ms[m].options[i], padded |-> FALSE]]]
           S == {item(m) : m \in Declares(ms, k)}
           c == Generated(ms, k)
<1>1. Declares(ms, k) \subseteq MountPoints
  BY DEF Declares
<1>2. c = SetToSeq(S) /\ IsFiniteSet(S)
  BY <1>1, AllListed, GeneratedLists
<1>3. c \in Seq(ItemsOf(d))
  BY GeneratedTypes
<1>4. ASSUME NEW m \in Declares(ms, k)
      PROVE  item(m).kind = "fstab" /\ item(m).dir = m
  OBVIOUS
<1>5. \A x \in S : \E m \in Declares(ms, k) : x = item(m)
  OBVIOUS
<1>6. \A m \in Declares(ms, k) : item(m) \in S
  OBVIOUS
<1>7. ASSUME NEW x \in S PROVE x.opts # None /\ x.dir # None
  <2>1. PICK m \in Declares(ms, k) : x = item(m)
    BY <1>5
  <2>2. m \in MountPoints /\ ms[m] # None
    BY DEF Declares
  <2>3. PICK e \in Devices : IsDeclared(e, ms[m])
    BY <2>2 DEF DeclaredTypes
  <2>4. ms[m].options \in Seq(Named)
    BY <2>3 DEF IsDeclared
  <2> DEFINE n == Len(ms[m].options)
             opts == [i \in DOMAIN ms[m].options |-> [name |-> ms[m].options[i], padded |-> FALSE]]
  <2>5. DOMAIN ms[m].options = 1 .. n /\ n \in Nat /\ \A i \in 1 .. n : ms[m].options[i] \in Named
    BY <2>4
  <2>6. \A i \in 1 .. n : [name |-> ms[m].options[i], padded |-> FALSE] \in Opts
    BY <2>5 DEF Named, Opts
  <2>7. opts \in [1 .. n -> Opts]
    BY <2>5, <2>6
  <2>8. x.opts = opts /\ x.dir = m
    BY <2>1
  <2> HIDE DEF opts, n
  <2>9. opts \in Seq(Opts)
    BY <2>5, <2>7
  <2> QED
    BY <2>2, <2>8, <2>9, NoneAssumption, FstabAssumption
<1> DEFINE n == Cardinality(S)
<1> HIDE DEF item, S, c
<1>8. /\ n \in Nat /\ c \in [1 .. n -> S] /\ IsInjective(c)
      /\ \A x \in S : \E i \in 1 .. n : c[i] = x
  BY <1>2, SetToSeqLists
<1> HIDE DEF n
<1>9. DOMAIN c = 1 .. n /\ Len(c) = n
  BY <1>3, <1>8
<1>10. ASSUME NEW i \in DOMAIN c
       PROVE  c[i].kind = "fstab" /\ c[i].dir \in Declares(ms, k) /\ ItemEntry(c[i]) # None /\ c[i] = item(c[i].dir)
  <2>1. c[i] \in S
    BY <1>8
  <2>2. PICK m \in Declares(ms, k) : c[i] = item(m)
    BY <1>5, <2>1
  <2>3. c[i].kind = "fstab" /\ c[i].dir = m /\ c[i].opts # None /\ c[i].dir # None
    BY <1>4, <1>7, <2>1, <2>2
  <2>4. ItemEntry(c[i]) = [mount_point |-> c[i].dir, options |-> c[i].opts]
    BY <2>3 DEF ItemEntry, FstabDetails
  <2>5. ItemEntry(c[i]) \in [mount_point : MountPoints, options : Seq(Opts)]
    <3>1. c[i] \in ItemsOf(d)
      BY <1>3
    <3>2. c[i].dir \in MountPoints \cup {None} /\ c[i].opts \in Seq(Opts) \cup {None}
      BY <3>1 DEF ItemsOf, Items
    <3> QED
      BY <2>3, <2>4, <3>2
  <2> QED
    BY <2>2, <2>3, <2>5, NoneAssumption
<1>11. \A i, j \in DOMAIN c : c[i].dir = c[j].dir => i = j
  BY <1>8, <1>10 DEF IsInjective
<1>12. \A m \in Declares(ms, k) : \E i \in DOMAIN c : c[i].dir = m
  BY <1>4, <1>6, <1>8, <1>9
<1> QED
  BY <1>8, <1>9, <1>10, <1>11, <1>12 DEF c

\* So it can be read, and it has one item at most where one place at most is declared.
LEMMA GeneratedReads ==
  ASSUME NoVolumes, NEW ms, DeclaredTypes(ms), NEW d \in Devices, NEW k \in Disks(d)
  PROVE  /\ Lookup(Generated(ms, k)) # "malformed"
         /\ Len(Generated(ms, k)) <= 1 <=> \E m : Declares(ms, k) \subseteq {m}
<1> DEFINE c == Generated(ms, k)
<1>1. /\ \A i \in DOMAIN c : c[i].kind = "fstab" /\ c[i].dir \in Declares(ms, k) /\ ItemEntry(c[i]) # None
      /\ \A m \in Declares(ms, k) : \E i \in DOMAIN c : c[i].dir = m
      /\ \A i, j \in DOMAIN c : c[i].dir = c[j].dir => i = j
      /\ Len(c) \in Nat /\ DOMAIN c = 1 .. Len(c)
  BY GeneratedItems
<1> HIDE DEF c
<1>2. FstabPlaces(c) = 1 .. Len(c)
  BY <1>1 DEF FstabPlaces
<1>3. Lookup(c) # "malformed"
  <2>1. CASE Len(c) = 0
    <3>1. FstabPlaces(c) = {}
      BY <1>2, <2>1
    <3> QED
      BY <3>1 DEF Lookup
  <2>2. CASE Len(c) # 0
    <3>1. \E x \in 1 .. Len(c) : \A y \in 1 .. Len(c) : x <= y
      <4>1. 1 \in 1 .. Len(c) /\ \A y \in 1 .. Len(c) : 1 <= y
        BY <1>1, <2>2
      <4> QED
        BY <4>1
    <3>2. Min(FstabPlaces(c)) \in DOMAIN c
      BY <1>1, <1>2, <3>1 DEF Min
    <3>3. LookupEntry(c) # None
      BY <1>1, <3>2 DEF LookupEntry, ItemEntry
    <3> QED
      BY <3>3 DEF Lookup
  <2> QED
    BY <2>1, <2>2
<1>4. ASSUME Len(c) <= 1 PROVE \E m : Declares(ms, k) \subseteq {m}
  <2>1. \A i, j \in DOMAIN c : i = j
    BY <1>1, <1>4
  <2>2. \A m, n \in Declares(ms, k) : m = n
    BY <1>1, <2>1
  <2>3. CASE Declares(ms, k) = {}
    BY <2>3
  <2>4. CASE Declares(ms, k) # {}
    <3>1. PICK m : m \in Declares(ms, k)
      BY <2>4
    <3>2. Declares(ms, k) \subseteq {m}
      BY <2>2, <3>1
    <3> QED
      BY <3>2
  <2> QED
    BY <2>3, <2>4
<1>5. ASSUME NEW m, Declares(ms, k) \subseteq {m} PROVE Len(c) <= 1
  <2> SUFFICES ASSUME Len(c) > 1 PROVE FALSE
    BY <1>1
  <2>1. 1 \in DOMAIN c /\ 2 \in DOMAIN c
    BY <1>1
  <2>2. c[1].dir = m /\ c[2].dir = m
    BY <1>1, <1>5, <2>1
  <2>3. 1 = 2
    BY <1>1, <2>1, <2>2
  <2> QED
    BY <2>3
<1> QED
  BY <1>3, <1>4, <1>5 DEF c

LEMMA GeneratedAgrees ==
  ASSUME NoVolumes, NEW ms, DeclaredTypes(ms), NEW d \in Devices, NEW k \in Disks(d),
         Len(Generated(ms, k)) <= 1, \A p \in Places(ms, d) : ms[p].disk = k
  PROVE  Says(ms, d, Value(Generated(ms, k), k))
<1>1. Places(ms, d) \subseteq Declares(ms, k)
  BY DEF Places, Declares
<1>2. PICK m : Declares(ms, k) \subseteq {m}
  BY GeneratedReads
<1> QED
  BY <1>1, <1>2, GeneratedSays

\* What says all that is declared of a device: one place at most, of the disk it is on.
LEMMA SaysOnePlace ==
  ASSUME NoVolumes, NEW ms, DeclaredTypes(ms), NEW d \in Devices, NEW k \in Disks(d), NEW info, Says(ms, d, info)
  PROVE  /\ Len(Generated(ms, k)) <= 1
         /\ info = None \/ info.disk = k => \A p \in Places(ms, d) : ms[p].disk = k
<1>1. Declares(ms, k) \subseteq Places(ms, d)
  BY DEF Declares, Places
<1>2. \E m : Places(ms, d) \subseteq {m}
  BY DEF Says
<1>3. \E m : Declares(ms, k) \subseteq {m}
  BY <1>1, <1>2
<1>4. info = None \/ info.disk = k => \A p \in Places(ms, d) : ms[p].disk = k
  BY DEF Says
<1> QED
  BY <1>3, <1>4, GeneratedReads

--------------------------------------------------------------------------------
(* Where the steps of a watcher lead *)

LEMMA ShapeOfNone ==
  ASSUME NEW k, NEW info PROVE Shape(k, info, <<>>) /\ HeadsFor(k, info, <<>>) = info
BY DEF Shape, HeadsFor

LEMMA ShapeOfOne ==
  ASSUME NEW k, NEW info, NEW a
  PROVE  /\ Shape(k, info, <<a>>) <=>
              \/ Drops(a) /\ info = None
              \/ Asks(a) \/ Trusts(a) \/ Compares(a) \/ AddsNow(k, info, a)
         /\ HeadsFor(k, info, <<a>>) = IF a.op = "gather" THEN Info(a.entry, k) ELSE info
<1>1. <<a>> # <<>> /\ Len(<<a>>) = 1 /\ <<a>>[1] = a /\ Last(<<a>>) = a
  BY OneStep
<1> QED
  BY <1>1 DEF Shape, HeadsFor

LEMMA ShapeOfTwo ==
  ASSUME NEW k, NEW info, NEW a, NEW b
  PROVE  /\ Shape(k, info, <<a, b>>) <=> Drops(a) /\ (Asks(b) \/ AddsNow(k, info, b))
         /\ HeadsFor(k, info, <<a, b>>) = IF b.op = "gather" THEN Info(b.entry, k) ELSE info
<1>1. <<a, b>> # <<>> /\ Len(<<a, b>>) = 2 /\ <<a, b>>[1] = a /\ <<a, b>>[2] = b /\ Last(<<a, b>>) = b
  BY TwoSteps
<1> QED
  BY <1>1 DEF Shape, HeadsFor

LEMMA PositionOfNone ==
  ASSUME NEW ms, NEW d, NEW k, NEW info
  PROVE  Position(ms, d, k, info, <<>>) <=> Says(ms, d, info)
<1>1. Len(<<>>) = 0
  OBVIOUS
<1> QED
  BY <1>1 DEF Position

LEMMA PositionOfOne ==
  ASSUME NEW ms, NEW d, NEW k, NEW info, NEW a
  PROVE  Position(ms, d, k, info, <<a>>) <=>
           \/ (Drops(a) \/ Asks(a) \/ AddsNow(k, info, a)) /\ Places(ms, d) \subseteq {Place(a)}
           \/ Trusts(a) /\ Says(ms, d, Info(a.entry, k))
           \/ Compares(a) /\ (Says(ms, d, a.old) \/ Says(ms, d, Info(a.entry, k)))
<1>1. <<a>> # <<>> /\ Len(<<a>>) = 1 /\ <<a>>[1] = a
  BY OneStep
<1> QED
  BY <1>1 DEF Position

LEMMA PositionOfTwo ==
  ASSUME NEW ms, NEW d, NEW k, NEW info, NEW a, NEW b
  PROVE  Position(ms, d, k, info, <<a, b>>) <=> Places(ms, d) \subseteq {Place(a), Place(b)}
<1>1. <<a, b>> # <<>> /\ Len(<<a, b>>) = 2 /\ <<a, b>>[1] = a /\ <<a, b>>[2] = b
  BY TwoSteps
<1> QED
  BY <1>1 DEF Position

\* What the steps of a watcher are about.
LEMMA StepsAbout ==
  ASSUME NEW d \in Devices, NEW k \in Disks(d), NEW a, IsStep(d, a)
  PROVE  /\ a.op = "gather" =>
              /\ a.entry \in Entries(d) /\ a.old \in Infos(d) \cup {None} /\ a.suppress \in BOOLEAN
              /\ Info(a.entry, k) \in Infos(d) /\ Info(a.entry, k) # None
              /\ Info(a.entry, k).mount_point = a.entry.mount_point /\ Info(a.entry, k).disk = k
         /\ a.op # "gather" => IsCall(d, a)
<1>1. CASE a.op = "gather"
  <2>1. a.entry \in Entries(d) /\ a.old \in Infos(d) \cup {None} /\ a.suppress \in BOOLEAN
    BY <1>1 DEF IsStep, IsCall
  <2>2. /\ Info(a.entry, k) \in Infos(d)
        /\ Info(a.entry, k) = [mount_point |-> a.entry.mount_point, options |-> a.entry.options, disk |-> k]
    BY <2>1, InfoTypes
  <2> QED
    BY <1>1, <2>1, <2>2, NoneApart
<1>2. CASE a.op # "gather"
  BY <1>2 DEF IsStep
<1> QED
  BY <1>1, <1>2

\* What they lead to, already declared, is something they can start from.
LEMMA DeclaredIsPosition ==
  ASSUME NEW ms, NEW d \in Devices, NEW k \in Disks(d), NEW info, NEW s, AreSteps(d, s), Shape(k, info, s),
         Says(ms, d, HeadsFor(k, info, s))
  PROVE  Position(ms, d, k, info, s)
<1>1. CASE s = <<>>
  BY <1>1, ShapeOfNone, PositionOfNone
<1>2. ASSUME NEW a, s = <<a>>, IsStep(d, a) PROVE Position(ms, d, k, info, s)
  <2>1. /\ \/ Drops(a) /\ info = None
           \/ Asks(a) \/ Trusts(a) \/ Compares(a) \/ AddsNow(k, info, a)
        /\ Says(ms, d, IF a.op = "gather" THEN Info(a.entry, k) ELSE info)
    BY <1>2, ShapeOfOne
  <2>2. CASE a.op = "gather"
    <3>1. /\ Info(a.entry, k) # None /\ Info(a.entry, k).mount_point = a.entry.mount_point
      BY <1>2, <2>2, StepsAbout
    <3>2. Asks(a) \/ Trusts(a) \/ Compares(a)
      BY <2>1, <2>2 DEF Drops, AddsNow, Adds
    <3>3. Says(ms, d, Info(a.entry, k))
      BY <2>1, <2>2
    <3>4. Places(ms, d) \subseteq {Place(a)}
      BY <2>2, <3>1, <3>3 DEF Says, Place
    <3> QED
      BY <1>2, <3>2, <3>3, <3>4, PositionOfOne
  <2>3. CASE a.op # "gather"
    <3>1. (Drops(a) /\ info = None) \/ AddsNow(k, info, a)
      BY <2>1, <2>3 DEF Asks, Trusts, Compares
    <3>2. Places(ms, d) \subseteq {Place(a)}
      BY <2>1, <2>3, <3>1 DEF Says, AddsNow, Adds, Place
    <3> QED
      BY <1>2, <3>1, <3>2, PositionOfOne
  <2> QED
    BY <2>2, <2>3
<1>3. ASSUME NEW a, NEW b, s = <<a, b>>, IsStep(d, a), IsStep(d, b) PROVE Position(ms, d, k, info, s)
  <2>1. /\ Asks(b) \/ AddsNow(k, info, b)
        /\ Says(ms, d, IF b.op = "gather" THEN Info(b.entry, k) ELSE info)
    BY <1>3, ShapeOfTwo
  <2>2. b.op = "gather" => Info(b.entry, k) # None /\ Info(b.entry, k).mount_point = b.entry.mount_point
    BY <1>3, StepsAbout
  <2>3. Places(ms, d) \subseteq {Place(b)}
    BY <2>1, <2>2 DEF Says, AddsNow, Adds, Asks, Place
  <2> QED
    BY <1>3, <2>3, PositionOfTwo
<1> QED
  BY <1>1, <1>2, <1>3 DEF AreSteps

\* Something they can start from stays so when what is added is the place they lead to,
\* and it stays said when nothing else is declared.
LEMMA StillPosition ==
  ASSUME NEW before, NEW ms, NEW d \in Devices, NEW k \in Disks(d), NEW info, NEW s, AreSteps(d, s),
         Shape(k, info, s), Position(before, d, k, info, s),
         NEW places, places = IF HeadsFor(k, info, s) = None THEN {} ELSE {HeadsFor(k, info, s).mount_point},
         Places(ms, d) \subseteq Places(before, d) \cup places,
         Places(ms, d) \subseteq places => Says(ms, d, HeadsFor(k, info, s))
  PROVE  Position(ms, d, k, info, s)
<1>0. ASSUME Places(before, d) \subseteq places PROVE Position(ms, d, k, info, s)
  <2>1. Says(ms, d, HeadsFor(k, info, s))
    BY <1>0
  <2> QED
    BY <2>1, DeclaredIsPosition
<1>1. CASE s = <<>>
  <2>1. Says(before, d, info) /\ HeadsFor(k, info, s) = info
    BY <1>1, ShapeOfNone, PositionOfNone
  <2>2. Places(before, d) \subseteq places
    BY <2>1 DEF Says
  <2> QED
    BY <1>0, <2>2
<1>2. ASSUME NEW a, s = <<a>>, IsStep(d, a) PROVE Position(ms, d, k, info, s)
  <2>1. /\ \/ Drops(a) /\ info = None
           \/ Asks(a) \/ Trusts(a) \/ Compares(a) \/ AddsNow(k, info, a)
        /\ HeadsFor(k, info, s) = IF a.op = "gather" THEN Info(a.entry, k) ELSE info
        /\ \/ (Drops(a) \/ Asks(a) \/ AddsNow(k, info, a)) /\ Places(before, d) \subseteq {Place(a)}
           \/ Trusts(a) /\ Says(before, d, Info(a.entry, k))
           \/ Compares(a) /\ (Says(before, d, a.old) \/ Says(before, d, Info(a.entry, k)))
    BY <1>2, ShapeOfOne, PositionOfOne
  <2>2. CASE a.op = "gather"
    <3>1. /\ Info(a.entry, k) # None /\ Info(a.entry, k).mount_point = a.entry.mount_point
      BY <1>2, <2>2, StepsAbout
    <3>2. places = {a.entry.mount_point}
      BY <2>1, <2>2, <3>1
    <3>3. Places(before, d) \subseteq {a.entry.mount_point}
      BY <2>1, <2>2, <3>1 DEF Says, Place, Compares, Drops, AddsNow, Adds
    <3> QED
      BY <1>0, <3>2, <3>3
  <2>3. CASE a.op # "gather"
    <3>1. (Drops(a) /\ info = None) \/ AddsNow(k, info, a)
      BY <2>1, <2>3 DEF Asks, Trusts, Compares
    <3>2. places \subseteq {Place(a)} /\ Places(before, d) \subseteq {Place(a)}
      BY <2>1, <2>3, <3>1 DEF AddsNow, Adds, Place, Trusts, Compares
    <3>3. Places(ms, d) \subseteq {Place(a)}
      BY <3>2
    <3> QED
      BY <1>2, <3>1, <3>3, PositionOfOne
  <2> QED
    BY <2>2, <2>3
<1>3. ASSUME NEW a, NEW b, s = <<a, b>>, IsStep(d, a), IsStep(d, b) PROVE Position(ms, d, k, info, s)
  <2>1. /\ Asks(b) \/ AddsNow(k, info, b)
        /\ HeadsFor(k, info, s) = IF b.op = "gather" THEN Info(b.entry, k) ELSE info
        /\ Places(before, d) \subseteq {Place(a), Place(b)}
    BY <1>3, ShapeOfTwo, PositionOfTwo
  <2>2. b.op = "gather" => Info(b.entry, k) # None /\ Info(b.entry, k).mount_point = b.entry.mount_point
    BY <1>3, StepsAbout
  <2>3. places \subseteq {Place(b)}
    BY <2>1, <2>2 DEF AddsNow, Adds, Asks, Place
  <2>4. Places(ms, d) \subseteq {Place(a), Place(b)}
    BY <2>1, <2>3
  <2> QED
    BY <1>3, <2>4, PositionOfTwo
<1> QED
  BY <1>1, <1>2, <1>3 DEF AreSteps

\* The match on a value, from what its baseline said.
LEMMA ReadPosition ==
  ASSUME NEW d \in Devices, NEW k \in Disks(d), NEW old \in Infos(d) \cup {None},
         NEW lookup \in {"absent", "malformed", "entry"}, NEW entry, NEW suppress,
         NEW info, info = IF lookup = "malformed" THEN old ELSE None
  PROVE  LET s == Steps(old, lookup, entry, suppress)
         IN  /\ Shape(k, info, s)
             /\ HeadsFor(k, info, s) = IF lookup = "entry" THEN Info(entry, k) ELSE info
             /\ \A ms : ~suppress /\ Says(ms, d, old) => Position(ms, d, k, info, s)
<1> DEFINE s == Steps(old, lookup, entry, suppress)
           unmount == IF suppress \/ old = None THEN <<>> ELSE <<RemoveMount(old)>>
           drop == RemoveMount(old)
           ask(o) == GatherStep(entry, o, suppress)
<1> SUFFICES ASSUME NEW ms
             PROVE  /\ Shape(k, info, s)
                    /\ HeadsFor(k, info, s) = IF lookup = "entry" THEN Info(entry, k) ELSE info
                    /\ ~suppress /\ Says(ms, d, old) => Position(ms, d, k, info, s)
  OBVIOUS
<1>0. s = Steps(old, lookup, entry, suppress)
  OBVIOUS
<1> HIDE DEF s
<1>1. drop.op = "remove_mount" /\ drop.mount_point = old.mount_point
  BY DEF RemoveMount
<1>2. \A o : ask(o).op = "gather" /\ ask(o).entry = entry /\ ask(o).old = o /\ ask(o).suppress = suppress
  BY DEF GatherStep
<1>3. CASE lookup = "malformed"
  <2>1. s = <<>> /\ info = old
    BY <1>0, <1>3 DEF Steps
  <2> QED
    BY <1>3, <2>1, ShapeOfNone, PositionOfNone
<1>4. CASE lookup = "absent"
  <2>1. s = unmount /\ info = None
    BY <1>0, <1>4 DEF Steps
  <2>2. CASE suppress \/ old = None
    <3>1. s = <<>>
      BY <2>1, <2>2
    <3>2. ~suppress /\ Says(ms, d, old) => Says(ms, d, info)
      BY <2>1, <2>2
    <3> QED
      BY <1>4, <2>1, <3>1, <3>2, ShapeOfNone, PositionOfNone
  <2>3. CASE ~suppress /\ old # None
    <3>1. s = <<drop>>
      BY <2>1, <2>3
    <3>2. Drops(drop) /\ (Says(ms, d, old) => Places(ms, d) \subseteq {Place(drop)})
      BY <1>1, <2>3 DEF Drops, Place, Says
    <3> HIDE DEF drop
    <3>3. Shape(k, info, s) /\ HeadsFor(k, info, s) = None
      BY <1>1, <2>1, <3>1, <3>2, ShapeOfOne
    <3>4. Says(ms, d, old) => Position(ms, d, k, info, s)
      BY <3>1, <3>2, PositionOfOne
    <3> QED
      BY <1>4, <3>3, <3>4
  <2> QED
    BY <2>2, <2>3
<1>5. CASE lookup = "entry" /\ old # None /\ old.mount_point = entry.mount_point
  <2>1. s = <<ask(old)>>
    BY <1>0, <1>5 DEF Steps
  <2>2. IF suppress THEN Trusts(ask(old)) ELSE Compares(ask(old))
    BY <1>2, <1>5 DEF Trusts, Compares
  <2>3. ask(old).op = "gather" /\ ask(old).entry = entry /\ ask(old).old = old
    BY <1>2
  <2> HIDE DEF ask
  <2>4. Shape(k, info, s) /\ HeadsFor(k, info, s) = Info(entry, k)
    BY <2>1, <2>2, <2>3, ShapeOfOne
  <2>5. ~suppress /\ Says(ms, d, old) => Position(ms, d, k, info, s)
    BY <2>1, <2>2, <2>3, PositionOfOne
  <2> QED
    BY <1>5, <2>4, <2>5
<1>6. CASE lookup = "entry" /\ ~(old # None /\ old.mount_point = entry.mount_point)
  <2>1. s = unmount \o <<ask(None)>> /\ info = None
    BY <1>0, <1>6 DEF Steps
  <2>2. IF suppress THEN Trusts(ask(None)) ELSE Asks(ask(None))
    BY <1>2 DEF Trusts, Asks
  <2>3. ask(None).op = "gather" /\ ask(None).entry = entry
    BY <1>2
  <2>4. CASE suppress \/ old = None
    <3>1. s = <<ask(None)>>
      BY <2>1, <2>4, SeqOfTwo
    <3>2. old = None /\ Says(ms, d, old) => Places(ms, d) \subseteq {Place(ask(None))}
      BY DEF Says
    <3> HIDE DEF ask
    <3>3. Shape(k, info, s) /\ HeadsFor(k, info, s) = Info(entry, k)
      BY <2>2, <2>3, <3>1, ShapeOfOne
    <3>4. ~suppress /\ Says(ms, d, old) => Position(ms, d, k, info, s)
      BY <2>2, <2>4, <3>1, <3>2, PositionOfOne
    <3> QED
      BY <1>6, <3>3, <3>4
  <2>5. CASE ~suppress /\ old # None
    <3>1. s = <<drop, ask(None)>>
      BY <2>1, <2>5, SeqOfTwo
    <3>2. Drops(drop) /\ (Says(ms, d, old) => Places(ms, d) \subseteq {Place(drop), Place(ask(None))})
      BY <1>1, <2>5 DEF Drops, Place, Says
    <3> HIDE DEF ask, drop
    <3>3. Shape(k, info, s) /\ HeadsFor(k, info, s) = Info(entry, k)
      BY <2>2, <2>3, <2>5, <3>1, <3>2, ShapeOfTwo
    <3>4. Says(ms, d, old) => Position(ms, d, k, info, s)
      BY <3>1, <3>2, PositionOfTwo
    <3> QED
      BY <1>6, <3>3, <3>4
  <2> QED
    BY <2>4, <2>5
<1> QED
  BY <1>3, <1>4, <1>5, <1>6

\* What is asked of the device.
LEMMA GatherPosition ==
  ASSUME NEW d \in Devices, NEW k \in Disks(d), NEW info, NEW s, AreSteps(d, s),
         Shape(k, info, s), s # <<>>, Head(s).op = "gather"
  PROVE  LET step == Head(s)
             fresh == Info(step.entry, k)
             next == CASE step.suppress -> <<>>
                       [] ~step.suppress /\ step.old = None -> <<ReportMount(fresh, d \in Luks)>>
                       [] OTHER -> Remounted(d, step.old, fresh)
         IN  /\ HeadsFor(k, info, s) = fresh /\ HeadsFor(k, fresh, next) = fresh
             /\ Shape(k, fresh, next)
             /\ \A ms : ~Spaced /\ Position(ms, d, k, info, s) => Position(ms, d, k, fresh, next)
<1> DEFINE step == Head(s)
           fresh == Info(step.entry, k)
           old == step.old
           next == CASE step.suppress -> <<>>
                     [] ~step.suppress /\ step.old = None -> <<ReportMount(fresh, d \in Luks)>>
                     [] OTHER -> Remounted(d, step.old, fresh)
<1> SUFFICES ASSUME NEW ms
             PROVE  /\ HeadsFor(k, info, s) = fresh /\ HeadsFor(k, fresh, next) = fresh
                    /\ Shape(k, fresh, next)
                    /\ ~Spaced /\ Position(ms, d, k, info, s) => Position(ms, d, k, fresh, next)
  OBVIOUS
<1>0. next = CASE step.suppress -> <<>>
               [] ~step.suppress /\ old = None -> <<ReportMount(fresh, d \in Luks)>>
               [] OTHER -> Remounted(d, old, fresh)
  OBVIOUS
<1> HIDE DEF next
<1>1. IsStep(d, step) /\ step.op = "gather"
  BY StepTaken
<1>2. s = <<step>>
  <2>1. CASE Len(s) = 1
    BY <2>1, StepTaken
  <2>2. CASE Len(s) # 1
    <3>0. \E b : s = <<Head(s), b>> /\ Tail(s) = <<b>> /\ IsStep(d, b)
      BY <2>2, StepTaken
    <3>1. PICK b : s = <<Head(s), b>>
      BY <3>0
    <3> HIDE DEF step
    <3>2. Drops(step)
      BY <3>1, ShapeOfTwo DEF step
    <3> QED
      BY <1>1, <3>2 DEF Drops
  <2> QED
    BY <2>1, <2>2
<1> HIDE DEF step
<1>3. /\ old \in Infos(d) \cup {None} /\ step.suppress \in BOOLEAN
      /\ fresh \in Infos(d) /\ fresh # None /\ fresh.disk = k /\ fresh.mount_point = step.entry.mount_point
  BY <1>1, StepsAbout
<1>4. /\ HeadsFor(k, info, s) = fresh
      /\ Asks(step) \/ Trusts(step) \/ Compares(step)
      /\ Position(ms, d, k, info, s) =>
           \/ Asks(step) /\ Places(ms, d) \subseteq {fresh.mount_point}
           \/ Trusts(step) /\ Says(ms, d, fresh)
           \/ Compares(step) /\ (Says(ms, d, old) \/ Says(ms, d, fresh))
  <2>1. /\ HeadsFor(k, info, s) = fresh
        /\ \/ Drops(step) /\ info = None
           \/ Asks(step) \/ Trusts(step) \/ Compares(step) \/ AddsNow(k, info, step)
        /\ Position(ms, d, k, info, s) <=>
             \/ (Drops(step) \/ Asks(step) \/ AddsNow(k, info, step)) /\ Places(ms, d) \subseteq {Place(step)}
             \/ Trusts(step) /\ Says(ms, d, fresh)
             \/ Compares(step) /\ (Says(ms, d, step.old) \/ Says(ms, d, fresh))
    BY <1>1, <1>2, ShapeOfOne, PositionOfOne
  <2>2. ~Drops(step) /\ ~AddsNow(k, info, step) /\ Place(step) = fresh.mount_point
    BY <1>1, <1>3 DEF Drops, AddsNow, Adds, Place
  <2> QED
    BY <2>1, <2>2
<1> HIDE DEF fresh, old
<1>5. CASE step.suppress
  <2>1. next = <<>> /\ Trusts(step)
    BY <1>0, <1>4, <1>5 DEF Asks, Compares
  <2>2. Position(ms, d, k, info, s) => Says(ms, d, fresh)
    BY <1>4, <1>5 DEF Asks, Compares
  <2> QED
    BY <1>4, <2>1, <2>2, ShapeOfNone, PositionOfNone
<1>6. CASE ~step.suppress /\ old = None
  <2> DEFINE call == ReportMount(fresh, d \in Luks)
  <2>1. next = <<call>>
    BY <1>0, <1>6
  <2>2. AddsNow(k, fresh, call) /\ call.op # "gather" /\ Place(call) = fresh.mount_point
    BY <1>3 DEF ReportMount, AddMount, Adds, AddsNow, Place
  <2>3. Position(ms, d, k, info, s) => Places(ms, d) \subseteq {fresh.mount_point}
    BY <1>4, <1>6 DEF Trusts, Compares, old
  <2> HIDE DEF call
  <2> QED
    BY <1>4, <2>1, <2>2, <2>3, ShapeOfOne, PositionOfOne
<1>7. CASE ~step.suppress /\ old # None
  <2>1. next = Remounted(d, old, fresh)
    BY <1>0, <1>7
  <2>2. old \in Infos(d) /\ old.mount_point = fresh.mount_point
    BY <1>3, <1>4, <1>7 DEF Asks, Trusts, Compares, old
  <2>3. Position(ms, d, k, info, s) => Says(ms, d, old) \/ Says(ms, d, fresh)
    BY <1>4, <1>7 DEF Asks, Trusts, old
  <2>4. Position(ms, d, k, info, s) => Places(ms, d) \subseteq {fresh.mount_point}
    BY <1>3, <1>7, <2>2, <2>3 DEF Says
  <2>5. CASE fresh.disk # old.disk
    <3> DEFINE first == RemoveMount(old)
               call == ReportMount(fresh, d \in Luks)
    <3>1. next = <<first, call>>
      BY <2>1, <2>5 DEF Remounted
    <3>2. /\ Drops(first) /\ AddsNow(k, fresh, call) /\ call.op # "gather" /\ Place(call) = fresh.mount_point
      BY <1>3 DEF RemoveMount, ReportMount, AddMount, Adds, AddsNow, Drops, Place
    <3> HIDE DEF first, call
    <3>3. Position(ms, d, k, info, s) => Places(ms, d) \subseteq {Place(first), Place(call)}
      BY <2>4, <3>2
    <3>4. Shape(k, fresh, next) /\ HeadsFor(k, fresh, next) = fresh
      BY <3>1, <3>2, ShapeOfTwo
    <3>5. Position(ms, d, k, info, s) => Position(ms, d, k, fresh, next)
      BY <3>1, <3>3, PositionOfTwo
    <3> QED
      BY <1>4, <3>4, <3>5
  <2>6. CASE fresh.disk = old.disk /\ ~SameOptions(old.options, fresh.options)
    <3> DEFINE call == ReportOptionsChanged(old, fresh.options)
               j == [old EXCEPT !.options = fresh.options]
    <3>1. next = <<call>>
      BY <2>1, <2>6 DEF Remounted
    <3>2. j.mount_point = old.mount_point /\ j.disk = old.disk /\ j.options = fresh.options
      BY <2>2 DEF Infos
    <3>3. call = AddMount(j, FALSE)
      BY DEF ReportOptionsChanged
    <3> HIDE DEF call, j
    <3>4. AddsNow(k, fresh, call) /\ call.op # "gather" /\ Place(call) = fresh.mount_point
      BY <1>3, <2>2, <2>6, <3>2, <3>3 DEF AddMount, Adds, AddsNow, Place
    <3> QED
      BY <1>4, <2>4, <3>1, <3>4, ShapeOfOne, PositionOfOne
  <2>7. CASE fresh.disk = old.disk /\ SameOptions(old.options, fresh.options)
    <3>1. next = <<>>
      BY <2>1, <2>7 DEF Remounted
    <3>2. ~Spaced => Names(old.options) = Names(fresh.options)
      <4>1. old.options \in Seq(Segments) /\ fresh.options \in Seq(Segments)
        BY <1>3, <2>2 DEF Infos
      <4> QED
        BY <2>7, <4>1, OptionsAlike
    <3>3. ~Spaced /\ Position(ms, d, k, info, s) => Says(ms, d, fresh)
      BY <1>3, <1>7, <2>2, <2>3, <2>7, <3>2 DEF Says
    <3> QED
      BY <1>4, <3>1, <3>3, ShapeOfNone, PositionOfNone
  <2> QED
    BY <2>5, <2>6, <2>7
<1> QED
  BY <1>3, <1>5, <1>6, <1>7

\* A step that has been reported, or has failed to be.
LEMMA TakenShape ==
  ASSUME NEW d \in Devices, NEW k \in Disks(d), NEW info, NEW s, AreSteps(d, s),
         Shape(k, info, s), s # <<>>, Head(s).op # "gather"
  PROVE  /\ IsCall(d, Head(s)) /\ (Head(s).op = "add_mount" => Head(s).entry.disk = k)
         /\ Shape(k, info, Tail(s)) /\ HeadsFor(k, info, Tail(s)) = HeadsFor(k, info, s)
         /\ \/ /\ s = <<Head(s)>> /\ Tail(s) = <<>>
               /\ (Drops(Head(s)) /\ info = None) \/ AddsNow(k, info, Head(s))
            \/ \E b : /\ s = <<Head(s), b>> /\ Tail(s) = <<b>> /\ IsStep(d, b)
                      /\ Drops(Head(s)) /\ (Asks(b) \/ AddsNow(k, info, b))
<1> DEFINE call == Head(s)
<1>1. IsStep(d, call) /\ IsCall(d, call) /\ call.op # "gather"
  BY StepTaken DEF IsStep
<1>2. CASE Len(s) = 1
  <2>1. s = <<call>> /\ Tail(s) = <<>>
    BY <1>2, StepTaken
  <2> HIDE DEF call
  <2>2. (Drops(call) /\ info = None) \/ AddsNow(k, info, call)
    BY <1>1, <2>1, ShapeOfOne DEF Asks, Trusts, Compares
  <2>3. Shape(k, info, Tail(s)) /\ HeadsFor(k, info, Tail(s)) = HeadsFor(k, info, s)
    BY <1>1, <2>1, ShapeOfNone, ShapeOfOne
  <2>4. call.op = "add_mount" => call.entry.disk = k
    BY <2>2 DEF Drops, AddsNow, Adds
  <2> QED
    BY <1>1, <2>1, <2>2, <2>3, <2>4 DEF call
<1>3. CASE Len(s) # 1
  <2>0. \E b : s = <<call, b>> /\ Tail(s) = <<b>> /\ IsStep(d, b)
    BY <1>3, StepTaken
  <2> HIDE DEF call
  <2>1. PICK b : s = <<call, b>> /\ Tail(s) = <<b>> /\ IsStep(d, b)
    BY <2>0
  <2>2. Drops(call) /\ (Asks(b) \/ AddsNow(k, info, b))
    BY <2>1, ShapeOfTwo
  <2>3. Shape(k, info, Tail(s)) /\ HeadsFor(k, info, Tail(s)) = HeadsFor(k, info, s)
    BY <2>1, <2>2, ShapeOfOne, ShapeOfTwo
  <2>4. call.op # "add_mount"
    BY <2>2 DEF Drops
  <2> QED
    BY <1>1, <2>1, <2>2, <2>3, <2>4 DEF call
<1> QED
  BY <1>2, <1>3

LEMMA TakenPosition ==
  ASSUME NEW d \in Devices, NEW k \in Disks(d), NEW info, NEW s, AreSteps(d, s),
         Shape(k, info, s), s # <<>>, Head(s).op # "gather",
         NEW before, NEW ms, Position(before, d, k, info, s),
         Head(s).op = "remove_mount" => Places(ms, d) = Places(before, d) \ {Head(s).mount_point},
         Head(s).op = "add_mount" =>
           /\ Places(ms, d) = Places(before, d) \cup {Head(s).mount_point}
           /\ ms[Head(s).mount_point] = Head(s).entry
  PROVE  Position(ms, d, k, info, Tail(s))
<1> DEFINE call == Head(s)
<1>1. /\ IsCall(d, call) /\ call.op # "gather"
      /\ \/ /\ s = <<call>> /\ Tail(s) = <<>>
            /\ (Drops(call) /\ info = None) \/ AddsNow(k, info, call)
         \/ \E b : /\ s = <<call, b>> /\ Tail(s) = <<b>> /\ IsStep(d, b)
                   /\ Drops(call) /\ (Asks(b) \/ AddsNow(k, info, b))
  BY TakenShape
<1>2. /\ call.op = "remove_mount" => Places(ms, d) = Places(before, d) \ {call.mount_point}
      /\ call.op = "add_mount" =>
           Places(ms, d) = Places(before, d) \cup {call.mount_point} /\ ms[call.mount_point] = call.entry
  OBVIOUS
<1> HIDE DEF call
<1>3. Place(call) = call.mount_point
  BY <1>1 DEF Place
<1>4. CASE s = <<call>> /\ Tail(s) = <<>> /\ ((Drops(call) /\ info = None) \/ AddsNow(k, info, call))
  <2>1. Places(before, d) \subseteq {call.mount_point}
    BY <1>1, <1>3, <1>4, PositionOfOne DEF Trusts, Compares
  <2>2. CASE Drops(call) /\ info = None
    <3>1. Says(ms, d, info)
      BY <1>2, <2>1, <2>2 DEF Drops, Says
    <3> QED
      BY <1>4, <3>1, PositionOfNone
  <2>3. CASE AddsNow(k, info, call)
    <3>1. Says(ms, d, info)
      BY <1>2, <2>1, <2>3 DEF AddsNow, Adds, Says, Names
    <3> QED
      BY <1>4, <3>1, PositionOfNone
  <2> QED
    BY <1>4, <2>2, <2>3
<1>5. ASSUME NEW b, s = <<call, b>>, Tail(s) = <<b>>, IsStep(d, b), Drops(call), Asks(b) \/ AddsNow(k, info, b)
      PROVE  Position(ms, d, k, info, Tail(s))
  <2>1. Places(before, d) \subseteq {call.mount_point, Place(b)}
    BY <1>3, <1>5, PositionOfTwo
  <2>2. Places(ms, d) \subseteq {Place(b)}
    BY <1>2, <1>5, <2>1 DEF Drops
  <2> QED
    BY <1>5, <2>2, PositionOfOne
<1> QED
  BY <1>1, <1>4, <1>5

\* The value a rebuild leaves is of the place that is declared of the disk, if any.
LEMMA GeneratedPlace ==
  ASSUME NoVolumes, NEW ms, DeclaredTypes(ms), NEW d \in Devices, NEW k \in Disks(d), Len(Generated(ms, k)) <= 1
  PROVE  LET value == Value(Generated(ms, k), k)
         IN  Declares(ms, k) = IF value = None THEN {} ELSE {value.mount_point}
<1> DEFINE c == Generated(ms, k)
           value == Value(c, k)
<1>1. /\ \A i \in DOMAIN c : c[i].kind = "fstab" /\ c[i].dir \in Declares(ms, k) /\ ItemEntry(c[i]) # None
      /\ \A m \in Declares(ms, k) : \E i \in DOMAIN c : c[i].dir = m
      /\ Len(c) \in Nat /\ DOMAIN c = 1 .. Len(c)
  BY GeneratedItems
<1>2. c \in Seq(ItemsOf(d)) /\ Len(c) <= 1
  BY GeneratedTypes
<1>3. /\ Lookup(c) \in {"absent", "malformed", "entry"}
      /\ Lookup(c) = "entry" => value # None /\ value.mount_point = LookupEntry(c).mount_point
      /\ Lookup(c) # "entry" => value = None
  BY <1>2, ValueTypes DEF Value
<1>4. FstabPlaces(c) = 1 .. Len(c)
  BY <1>1 DEF FstabPlaces
<1> HIDE DEF c, value
<1>5. CASE Len(c) = 0
  <2>1. Lookup(c) = "absent"
    BY <1>4, <1>5 DEF Lookup
  <2>2. Declares(ms, k) = {}
    BY <1>1, <1>5
  <2> QED
    BY <1>3, <2>1, <2>2 DEF c, value
<1>6. CASE Len(c) = 1
  <2>1. DOMAIN c = {1} /\ FstabPlaces(c) = {1}
    BY <1>1, <1>4, <1>6
  <2>2. Min({1}) = 1
    <3>1. \E x \in {1} : \A y \in {1} : x <= y
      OBVIOUS
    <3> QED
      BY <3>1 DEF Min
  <2>3. LookupEntry(c) = ItemEntry(c[1]) /\ LookupEntry(c) # None
    BY <1>1, <2>1, <2>2 DEF LookupEntry, ItemEntry
  <2>4. LookupEntry(c).mount_point = c[1].dir
    BY <2>3 DEF LookupEntry, FstabDetails, ItemEntry
  <2>5. Lookup(c) = "entry"
    BY <2>1, <2>3 DEF Lookup
  <2>6. Declares(ms, k) = {c[1].dir}
    <3>1. c[1].dir \in Declares(ms, k)
      BY <1>1, <2>1
    <3>2. \A m \in Declares(ms, k) : m = c[1].dir
      BY <1>1, <2>1
    <3> QED
      BY <3>1, <3>2
  <2> QED
    BY <1>3, <2>4, <2>5, <2>6 DEF c, value
<1> QED
  BY <1>1, <1>2, <1>5, <1>6

--------------------------------------------------------------------------------
(* Of any device *)

LEMMA OrdinaryAlone ==
  ASSUME NEW d \in Devices, Ordinary(d), conf'[d] = conf[d], disk'[d] = disk[d], declared' = declared,
         \/ /\ baseline'[d] = baseline[d] /\ todo'[d] = todo[d]
            /\ watch'[d] = "running" => watch[d] = "running" /\ (d \in unread => d \in unread')
         \/ todo'[d] = <<>> /\ watch'[d] # "running"
  PROVE  Ordinary(d)'
<1>1. Len(conf'[d]) > 1 => Relinked(d)'
  BY DEF Ordinary, Relinked
<1>2. CASE /\ baseline'[d] = baseline[d] /\ todo'[d] = todo[d]
           /\ watch'[d] = "running" => watch[d] = "running" /\ (d \in unread => d \in unread')
  <2>1. watch'[d] = "running" => Informed(d)'
    BY <1>2 DEF Ordinary, Informed, Heading
  <2> QED
    BY <1>1, <1>2, <2>1 DEF Ordinary
<1>3. CASE todo'[d] = <<>> /\ watch'[d] # "running"
  BY <1>1, <1>3, ShapeOfNone DEF Ordinary
<1> QED
  BY <1>2, <1>3

\* A watcher takes its next step.
LEMMA OrdinaryMoved ==
  ASSUME NEW d \in Devices, Ordinary(d), conf'[d] = conf[d], disk'[d] = disk[d], declared' = declared,
         Shape(disk[d], baseline'[d], todo'[d]),
         NEW info, HeadsFor(disk[d], baseline'[d], todo'[d]) = info,
         d \in unread' \/ Lookup(conf[d]) = "malformed" \/ Alike(Value(conf[d], disk[d]), info)
  PROVE  Ordinary(d)'
<1>1. Len(conf'[d]) > 1 => Relinked(d)'
  BY DEF Ordinary, Relinked
<1>2. Heading(d)' = info
  BY DEF Heading, HeadsFor
<1>3. Informed(d)'
  BY <1>2 DEF Informed
<1> QED
  BY <1>1, <1>3 DEF Ordinary

\* A rebuild, whoever asked for it.
LEMMA OrdinaryRebuilt ==
  ASSUME NoVolumes, FTypes, NEW d \in Devices, Ordinary(d), NEW e \in Devices, NEW call, IsCall(e, call), Commit(call),
         watch'[d] = watch[d], baseline'[d] = baseline[d],
         \/ todo'[d] = todo[d]
         \/ todo[d] # <<>> /\ Head(todo[d]).op # "gather" /\ todo'[d] = Tail(todo[d])
  PROVE  Ordinary(d)'
<1> DEFINE k == disk[d]
           ms == declared'
<1>1. /\ disk' = disk /\ conf'[d] = Generated(ms, k)
      /\ d \notin unread' => d \notin unread /\ conf'[d] = conf[d]
  BY DEF Commit
<1>2. k \in Disks(d) /\ AreSteps(d, todo[d])
  BY DEF FTypes, DeviceTypes
<1>3. /\ Shape(k, baseline[d], todo'[d])
      /\ HeadsFor(k, baseline[d], todo'[d]) = HeadsFor(k, baseline[d], todo[d])
  BY <1>2, TakenShape DEF Ordinary
<1>4. Heading(d)' = Heading(d)
  BY <1>1, <1>3 DEF Heading, HeadsFor
<1>5. watch'[d] = "running" => Informed(d)'
  BY <1>1, <1>4 DEF Ordinary, Informed
<1>6. Relinked(d)'
  BY <1>1 DEF Relinked
<1>7. \A i \in DOMAIN conf'[d] : conf'[d][i].kind = "fstab"
  <2>1. DeclaredTypes(ms)
    BY CommitTypes
  <2> HIDE DEF ms, k
  <2>2. LET c == Generated(ms, k) IN \A i \in DOMAIN c : c[i].kind = "fstab"
    BY <1>2, <2>1, GeneratedItems
  <2> QED
    BY <1>1, <2>2
<1> QED
  BY <1>1, <1>3, <1>5, <1>6, <1>7 DEF Ordinary

LEMMA OrdinaryAtFirstRead ==
  ASSUME FTypes, NEW d \in Devices, Ordinary(d), FirstRead(d) PROVE Ordinary(d)'
<1> DEFINE entry == LookupEntry(conf[d])
           step == GatherStep(entry, None, ~initial[d])
<1>1. /\ todo' = [todo EXCEPT ![d] = IF Lookup(conf[d]) = "entry" THEN <<step>> ELSE <<>>]
      /\ watch[d] = "new" /\ UNCHANGED <<conf, disk, baseline, declared>>
  BY DEF FirstRead
<1>2. /\ baseline[d] = None /\ initial[d] \in BOOLEAN
      /\ todo'[d] = IF Lookup(conf[d]) = "entry" THEN <<step>> ELSE <<>>
  BY <1>1 DEF FTypes, WatchersTypeOK, DeviceTypes
<1>3. CASE Lookup(conf[d]) = "entry"
  <2>1. step.op = "gather" /\ step.entry = entry /\ (Asks(step) \/ Trusts(step))
    BY <1>2 DEF GatherStep, Asks, Trusts
  <2>2. Value(conf[d], disk[d]) = Info(entry, disk[d])
    BY <1>3 DEF Value
  <2>3. Info(entry, disk[d]) # None
    BY <1>3, <2>2, ValueTypes DEF FTypes, DeviceTypes
  <2> HIDE DEF step, entry
  <2>4. Shape(disk[d], None, <<step>>) /\ HeadsFor(disk[d], None, <<step>>) = Info(entry, disk[d])
    BY <2>1, ShapeOfOne
  <2> QED
    BY <1>1, <1>2, <1>3, <2>2, <2>3, <2>4, OrdinaryMoved DEF Alike
<1>4. CASE Lookup(conf[d]) # "entry"
  <2>1. Value(conf[d], disk[d]) = None
    BY <1>4 DEF Value
  <2> QED
    BY <1>1, <1>2, <1>4, <2>1, ShapeOfNone, OrdinaryMoved DEF Alike
<1> QED
  BY <1>3, <1>4

LEMMA OrdinaryAtRead ==
  ASSUME FTypes, NEW d \in Devices, Ordinary(d), Read(d) PROVE Ordinary(d)'
<1> DEFINE lookup == Lookup(conf[d])
           entry == IF lookup = "entry" THEN LookupEntry(conf[d]) ELSE None
           suppress == d \in stamped
           next == Steps(baseline[d], lookup, entry, suppress)
           info == IF lookup = "malformed" THEN baseline[d] ELSE None
<1>1. todo'[d] = next /\ baseline'[d] = info /\ UNCHANGED <<conf, disk, declared>>
  BY DEF Read, FTypes
<1>2. /\ disk[d] \in Disks(d) /\ baseline[d] \in Infos(d) \cup {None} /\ conf[d] \in Seq(ItemsOf(d))
      /\ suppress \in BOOLEAN
  BY DEF FTypes, DeviceTypes
<1>3. /\ lookup \in {"absent", "malformed", "entry"}
      /\ Value(conf[d], disk[d]) = IF lookup = "entry" THEN Info(entry, disk[d]) ELSE None
      /\ lookup = "entry" => Value(conf[d], disk[d]) # None
  BY <1>2, ValueTypes DEF Value
<1>0. info = IF lookup = "malformed" THEN baseline[d] ELSE None
  OBVIOUS
<1> HIDE DEF lookup, entry, suppress, info
<1>4. /\ Shape(disk[d], info, next)
      /\ HeadsFor(disk[d], info, next) = IF lookup = "entry" THEN Info(entry, disk[d]) ELSE info
  BY <1>0, <1>2, <1>3, ReadPosition
<1>5. lookup # "malformed" => HeadsFor(disk[d], info, next) = Value(conf[d], disk[d])
  BY <1>0, <1>3, <1>4
<1> HIDE DEF next
<1> QED
  BY <1>1, <1>3, <1>4, <1>5, OrdinaryMoved DEF Alike, lookup

LEMMA OrdinaryAtGather ==
  ASSUME FTypes, NEW d \in Devices, Ordinary(d), Gather(d) PROVE Ordinary(d)'
<1> DEFINE step == Head(todo[d])
           fresh == Info(step.entry, disk[d])
           next == CASE step.suppress -> <<>>
                     [] ~step.suppress /\ step.old = None -> <<ReportMount(fresh, d \in Luks)>>
                     [] OTHER -> Remounted(d, step.old, fresh)
<1>1. /\ todo'[d] = next /\ baseline'[d] = fresh /\ UNCHANGED <<conf, disk, unread, declared>>
      /\ watch[d] = "running" /\ todo[d] # <<>> /\ step.op = "gather"
  BY DEF Gather, Working, FTypes, deviceState
<1>2. disk[d] \in Disks(d) /\ AreSteps(d, todo[d]) /\ Shape(disk[d], baseline[d], todo[d])
  BY DEF FTypes, DeviceTypes, Ordinary
<1>3. /\ HeadsFor(disk[d], baseline[d], todo[d]) = fresh /\ HeadsFor(disk[d], fresh, next) = fresh
      /\ Shape(disk[d], fresh, next)
  BY <1>1, <1>2, GatherPosition
<1>4. d \in unread \/ Lookup(conf[d]) = "malformed" \/ Alike(Value(conf[d], disk[d]), fresh)
  BY <1>1, <1>3 DEF Ordinary, Informed, Heading, HeadsFor
<1> HIDE DEF next, fresh
<1> QED
  BY <1>1, <1>3, <1>4, OrdinaryMoved

\* A report is told apart from no report.
LEMMA ReportApart ==
  ASSUME NEW d \in Devices, NEW left, AreCalls(d, left) PROVE [path |-> d, left |-> left] # None
<1> DEFINE declarations == [disk : [device : Devices, fs : {1, 2}], options : Seq(STRING), luks : BOOLEAN]
           adds == [op : {"add_mount"}, mount_point : MountPoints, entry : declarations]
           removes == [op : {"remove_mount"}, mount_point : MountPoints]
           these == adds \cup removes
<1>1. None \notin [path : Devices, left : Seq(these)]
  BY NoneAssumption
<1>2. ASSUME NEW call, IsCall(d, call) PROVE call \in these
  <2>1. Seq(Named) \subseteq Seq(STRING)
    BY DEF Named
  <2>2. Dirs(d) \subseteq MountPoints /\ Disks(d) \subseteq [device : Devices, fs : {1, 2}]
    BY DEF Dirs, Disks
  <2>3. [disk : Disks(d), options : Seq(Named), luks : Locks(d)] \subseteq declarations
    BY <2>1, <2>2, LockTypes
  <2>4. IsRecorded(d, call)
    BY <1>2 DEF IsCall
  <2> HIDE DEF declarations
  <2> QED
    BY <2>2, <2>3, <2>4 DEF IsRecorded
<1> HIDE DEF these
<1>3. left \in Seq(these)
  <2>1. CASE \E a : left = <<a>> /\ IsCall(d, a)
    BY <1>2, <2>1
  <2>2. CASE \E a, b : left = <<a, b>> /\ IsCall(d, a) /\ IsCall(d, b)
    BY <1>2, <2>2
  <2> QED
    BY <2>1, <2>2 DEF AreCalls
<1> QED
  BY <1>1, <1>3


--------------------------------------------------------------------------------
(* Of a device whose changes have all been reported *)

\* Nothing happens to it.
LEMMA FitsAlone ==
  ASSUME NEW d \in Devices, Fits(d), watch'[d] = "running" <=> watch[d] = "running",
         conf'[d] = conf[d], disk'[d] = disk[d], baseline'[d] = baseline[d], todo'[d] = todo[d],
         declared' = declared, d \in unread' <=> d \in unread,
         d \in unread \cap stamped => d \in stamped', Busy(d) => Busy(d)'
  PROVE  Fits(d)'
<1>1. (Current(d) => Current(d)') /\ (Relinked(d) => Relinked(d)')
  BY DEF Current, Relinked
<1> QED
  BY <1>1 DEF Fits, Watched, Unwatched

\* Its watcher, if it has one, is ended, with nothing left to read or to report.
LEMMA FitsUnwatched ==
  ASSUME NoVolumes, FTypes, NEW d \in Devices, Ordinary(d), Fits(d), d \notin unread, todo[d] = <<>>,
         Lookup(conf[d]) # "malformed", watch'[d] # "running", conf'[d] = conf[d], disk'[d] = disk[d],
         declared' = declared, Busy(d) => Busy(d)'
  PROVE  Fits(d)'
<1> DEFINE value == Value(conf[d], disk[d])
<1>1. (Current(d) => Current(d)') /\ (Relinked(d) => Relinked(d)')
  BY DEF Current, Relinked
<1>2. CASE watch[d] # "running"
  BY <1>1, <1>2 DEF Fits, Unwatched
<1>3. CASE watch[d] = "running" /\ Busy(d) /\ Current(d)
  BY <1>1, <1>3 DEF Fits, Unwatched
<1>4. CASE watch[d] = "running" /\ Position(declared, d, disk[d], baseline[d], todo[d])
  <2>1. Says(declared, d, baseline[d])
    BY <1>4, PositionOfNone
  <2>2. Alike(value, baseline[d])
    BY <1>4 DEF Ordinary, Informed, Heading
  <2>3. Says(declared, d, value)
    BY <2>1, <2>2, AlikeSays
  <2>4. value = None \/ value.disk = disk[d]
    BY ValueTypes DEF FTypes, DeviceTypes
  <2> HIDE DEF value
  <2>5. Current(d)
    BY <2>3, <2>4, SaysOnePlace DEF Current, FTypes, DeviceTypes
  <2> QED
    BY <1>1, <1>4, <2>3, <2>5 DEF Fits, Unwatched, value
<1> QED
  BY <1>2, <1>3, <1>4 DEF Fits, Watched

\* Another's library call.
LEMMA FitsThroughRebuild ==
  ASSUME NoVolumes, OwnPlaces, FTypes, NEW d \in Devices, Fits(d), NEW e \in Devices, d # e,
         NEW call, IsCall(e, call), Commit(call),
         watch'[d] = watch[d], baseline'[d] = baseline[d], todo'[d] = todo[d], stamped' = stamped,
         Busy(d) => Busy(d)'
  PROVE  Fits(d)'
<1> DEFINE ms == declared'
           k == disk[d]
<1>1. /\ Places(ms, d) = Places(declared, d)
      /\ \A m \in Places(declared, d) : ms[m] = declared[m]
      /\ \A info : Says(ms, d, info) <=> Says(declared, d, info)
  BY CommitElsewhere
<1>2. /\ disk' = disk /\ conf'[d] = Generated(ms, k)
      /\ unread \subseteq unread' /\ (d \notin unread' => d \notin unread /\ conf'[d] = conf[d])
  BY DEF Commit
<1>3. Current(d) => Current(d)'
  BY <1>1, <1>2 DEF Current
<1>4. Relinked(d)'
  BY <1>2 DEF Relinked
<1>5. Lookup(conf'[d]) # "malformed"
  <2>1. DeclaredTypes(ms) /\ k \in Disks(d)
    BY CommitTypes DEF FTypes, DeviceTypes
  <2> HIDE DEF ms, k
  <2> QED
    BY <1>2, <2>1, GeneratedReads
<1> HIDE DEF ms
<1>6. Position(declared, d, k, baseline[d], todo[d]) => Position(ms, d, k, baseline[d], todo[d])
  BY <1>1 DEF Position
<1> QED
  BY <1>2, <1>3, <1>4, <1>5, <1>6 DEF Fits, Watched, Unwatched, ms

\* What is declared of it is the value it was read from.
LEMMA ReadFits ==
  ASSUME FTypes', NEW d \in Devices, Ordinary(d)', watch'[d] = "running", d \notin unread',
         Lookup(conf'[d]) # "malformed", Says(declared', d, Value(conf'[d], disk'[d]))
  PROVE  Position(declared', d, disk'[d], baseline'[d], todo'[d])
<1> DEFINE ms == declared'
           k == disk'[d]
           info == baseline'[d]
           s == todo'[d]
<1>1. k \in Disks(d) /\ AreSteps(d, s) /\ Shape(k, info, s)
  BY DEF FTypes, DeviceTypes, Ordinary
<1>2. Alike(Value(conf'[d], k), HeadsFor(k, info, s))
  BY DEF Ordinary, Informed, Heading, HeadsFor
<1>3. Says(ms, d, HeadsFor(k, info, s))
  BY <1>2 DEF Says, Alike
<1> HIDE DEF ms, k, info, s
<1>4. Position(ms, d, k, info, s)
  BY <1>1, <1>3, DeclaredIsPosition
<1> QED
  BY <1>4 DEF ms, k, info, s

\* What a rebuild leaves of a device one place is declared of can be read in full.
LEMMA OneItemLeft ==
  ASSUME NoVolumes, NEW d \in Devices, NEW k \in Disks(d), NEW c, NEW ms, DeclaredTypes(ms),
         Len(c) > 1 => c = Generated(ms, k), NEW info, Says(ms, d, info), c \in Seq(ItemsOf(d))
  PROVE  Len(c) <= 1
<1>1. Len(Generated(ms, k)) <= 1
  BY SaysOnePlace
<1> QED
  BY <1>1

\* In step, whatever it was before.
LEMMA InStepFits ==
  ASSUME NoVolumes, FTypes', NEW d \in Devices, Ordinary(d)', InStep(d)' PROVE Fits(d)'
<1> DEFINE ms == declared'
           k == disk'[d]
           info == baseline'[d]
           here == UNION {Declares(ms, j) : j \in Disks(d)}
<1>1. here = Places(ms, d)
  BY DEF Declares, Places
<1>2. /\ watch'[d] = "running" /\ todo'[d] = <<>>
      /\ here = IF info = None THEN {} ELSE {info.mount_point}
      /\ \A m \in here : ms[m].disk = info.disk /\ ToSet(ms[m].options) = ToSet(OptionList(info.options))
  BY DEF InStep
<1>3. k \in Disks(d) /\ DeclaredTypes(ms) /\ conf'[d] \in Seq(ItemsOf(d))
  BY DEF FTypes, DeviceTypes, DeclaredTypes
<1>4. Len(conf'[d]) > 1 => conf'[d] = Generated(ms, k)
  BY DEF Ordinary, Relinked
<1> HIDE DEF ms, k, info, here
<1>5. Says(ms, d, info)
  BY <1>1, <1>2 DEF Says, Names
<1>6. Position(ms, d, k, info, <<>>)
  BY <1>5, PositionOfNone
<1>7. Len(conf'[d]) <= 1
  BY <1>3, <1>4, <1>5, OneItemLeft
<1> QED
  BY <1>2, <1>6, <1>7 DEF Fits, Watched, ms, k, info

\* A change that stops being excused is one that is in step.
LEMMA AccountedFor ==
  ASSUME NoVolumes, FTypes', NEW d \in Devices, Ordinary(d)', d \notin excused' => d \notin excused \/ InStep(d)',
         d \notin excused /\ d \notin excused' => Fits(d)'
  PROVE  Accounted(d)'
BY InStepFits DEF Accounted

LEMMA AccountedAlone ==
  ASSUME NoVolumes, FTypes', NEW d \in Devices, Accounted(d), d \notin excused' => d \notin excused \/ InStep(d)',
         watch'[d] = "running" <=> watch[d] = "running",
         conf'[d] = conf[d], disk'[d] = disk[d], baseline'[d] = baseline[d], todo'[d] = todo[d],
         declared' = declared, d \in unread' <=> d \in unread,
         d \in unread \cap stamped => d \in stamped', Busy(d) => Busy(d)'
  PROVE  Accounted(d)'
<1>1. Ordinary(d)'
  BY OrdinaryAlone DEF Accounted
<1>2. d \notin excused => Fits(d)'
  BY FitsAlone DEF Accounted
<1> QED
  BY <1>1, <1>2, AccountedFor

LEMMA AccountedThroughRebuild ==
  ASSUME NoVolumes, OwnPlaces, FTypes, FTypes', NEW d \in Devices, Accounted(d), NEW late \in SUBSET (Devices \ {d}), Excuse(late), NEW e \in Devices, d # e,
         NEW call, IsCall(e, call), Commit(call),
         watch'[d] = watch[d], baseline'[d] = baseline[d], todo'[d] = todo[d], stamped' = stamped,
         Busy(d) => Busy(d)'
  PROVE  Accounted(d)'
<1>1. Ordinary(d)'
  BY OrdinaryRebuilt DEF Accounted
<1>2. d \notin excused => Fits(d)'
  BY FitsThroughRebuild DEF Accounted
<1>3. d \notin excused' => d \notin excused \/ InStep(d)'
  BY DEF Excuse
<1> QED
  BY <1>1, <1>2, <1>3, AccountedFor

--------------------------------------------------------------------------------
(* The steps of its watcher *)

LEMMA AccountedAtFirstRead ==
  ASSUME NoVolumes, FTypes, FTypes', RInv, NEW d \in Devices, Accounted(d), FirstRead(d)
  PROVE  Accounted(d)'
<1> DEFINE ms == declared
           k == disk[d]
           c == conf[d]
<1>1. /\ watch[d] = "new" /\ watch'[d] = "running" /\ d \notin unread'
      /\ UNCHANGED <<conf, disk, declared, calls, report>>
      /\ excused' = excused \cup (IF Lookup(c) = "malformed" \/ Several(d) THEN {d} ELSE {})
  BY DEF FirstRead, FTypes, WatchersTypeOK, monitorState
<1>2. Ordinary(d)'
  BY OrdinaryAtFirstRead DEF Accounted
<1>3. k \in Disks(d) /\ DeclaredTypes(ms) /\ c \in Seq(ItemsOf(d))
  BY DEF FTypes, DeviceTypes
<1>4. Len(c) > 1 => c = Generated(ms, k)
  BY DEF Accounted, Ordinary, Relinked
<1>5. ASSUME d \notin excused, d \notin excused' PROVE Fits(d)'
  <2>1. Lookup(c) # "malformed" /\ ~Several(d)
    BY <1>1, <1>5
  <2>2. Unwatched(d)
    BY <1>1, <1>5 DEF Accounted, Fits
  <2>3. Len(c) <= 1
    <3>1. CASE d \in irregular
      <4>1. ~(Len(c) > 1) /\ Len(c) \in Nat
        BY <1>3, <2>1, <3>1 DEF Several
      <4> QED
        BY <4>1
    <3>2. CASE d \notin irregular
      <4>1. Says(ms, d, Value(c, k))
        BY <1>1, <3>2 DEF RInv, Keeps
      <4> HIDE DEF ms, c, k
      <4> QED
        BY <1>3, <1>4, <4>1, OneItemLeft
    <3> QED
      BY <3>1, <3>2
  <2>4. CASE Busy(d)
    <3>1. Busy(d)' /\ Current(d)'
      BY <1>1, <2>2, <2>4 DEF Unwatched, Current, Busy
    <3> QED
      BY <1>1, <2>3, <3>1 DEF Fits, Watched
  <2>5. CASE ~Busy(d)
    <3>1. Says(ms, d, Value(c, k))
      <4>1. CASE Relinked(d)
        <5>1. c = Generated(ms, k) /\ \A p \in Places(ms, d) : ms[p].disk = k
          BY <2>2, <4>1 DEF Unwatched, Relinked, Current
        <5> HIDE DEF ms, c, k
        <5>2. Len(Generated(ms, k)) <= 1
          BY <2>3, <5>1
        <5>3. Says(ms, d, Value(Generated(ms, k), k))
          BY <1>3, <5>1, <5>2, GeneratedAgrees
        <5> QED
          BY <5>1, <5>3
      <4>2. CASE ~Relinked(d)
        BY <2>2, <2>5, <4>2 DEF Unwatched
      <4> QED
        BY <4>1, <4>2
    <3>2. Lookup(conf'[d]) # "malformed" /\ Says(declared', d, Value(conf'[d], disk'[d]))
      BY <1>1, <2>1, <3>1
    <3>3. Position(declared', d, disk'[d], baseline'[d], todo'[d])
      BY <1>1, <1>2, <3>2, ReadFits
    <3> QED
      BY <1>1, <2>3, <3>3 DEF Fits, Watched
  <2> QED
    BY <2>4, <2>5
<1>6. d \notin excused' => d \notin excused
  BY <1>1
<1> QED
  BY <1>2, <1>5, <1>6, AccountedFor

LEMMA AccountedAtRead ==
  ASSUME NoVolumes, FTypes, FTypes', RInv, NEW d \in Devices, Accounted(d), Read(d)
  PROVE  Accounted(d)'
<1> DEFINE ms == declared
           k == disk[d]
           c == conf[d]
           old == baseline[d]
           lookup == Lookup(c)
           entry == IF lookup = "entry" THEN LookupEntry(c) ELSE None
           suppress == d \in stamped
           info == IF lookup = "malformed" THEN old ELSE None
<1>1. /\ watch[d] = "running" /\ todo[d] = <<>> /\ UNCHANGED <<watch, conf, disk, declared, calls, report>>
      /\ d \notin unread' /\ Excuse(IF d \in stamped \/ Several(d) THEN {d} ELSE {})
      /\ todo'[d] = Steps(old, lookup, entry, suppress) /\ baseline'[d] = info
  BY DEF Read, FTypes, watcherVars, monitorState
<1>2. Ordinary(d)'
  BY OrdinaryAtRead DEF Accounted
<1>3. /\ k \in Disks(d) /\ DeclaredTypes(ms) /\ c \in Seq(ItemsOf(d)) /\ old \in Infos(d) \cup {None}
      /\ lookup \in {"absent", "malformed", "entry"}
  BY ValueTypes DEF FTypes, DeviceTypes
<1>4. Len(c) > 1 => c = Generated(ms, k)
  BY DEF Accounted, Ordinary, Relinked
<1>5. ASSUME d \notin excused, ~(d \in stamped \/ Several(d)) PROVE Fits(d)'
  <2>1. Watched(d)
    BY <1>1, <1>5 DEF Accounted, Fits
  <2>2. Len(c) <= 1
    <3>1. CASE d \in irregular
      <4>1. ~(Len(c) > 1) /\ Len(c) \in Nat
        BY <1>3, <1>5, <3>1 DEF Several
      <4> QED
        BY <4>1
    <3>2. CASE d \notin irregular
      <4>0. Len(todo[d]) = 0
        BY <1>1
      <4>1. Says(ms, d, old)
        BY <1>1, <3>2, <4>0 DEF RInv, Keeps, AtRest, Removing, Asking, Adding
      <4> HIDE DEF ms, c, k, old
      <4> QED
        BY <1>3, <1>4, <4>1, OneItemLeft
    <3> QED
      BY <3>1, <3>2
  <2>3. CASE Busy(d) /\ Current(d)
    <3>1. Busy(d)' /\ Current(d)'
      BY <1>1, <2>3 DEF Current, Busy
    <3> QED
      BY <1>1, <2>2, <3>1 DEF Fits, Watched
  <2>4. CASE ~(Busy(d) /\ Current(d))
    <3>1. Position(ms, d, k, old, <<>>)
      BY <1>1, <1>5, <2>1, <2>4 DEF Watched
    <3>2. Says(ms, d, old) /\ ~suppress
      BY <1>5, <3>1, PositionOfNone
    <3> HIDE DEF ms, k, old, lookup, entry, suppress
    <3>3. info = IF lookup = "malformed" THEN old ELSE None
      OBVIOUS
    <3> HIDE DEF info
    <3>4. \A n : ~suppress /\ Says(n, d, old) => Position(n, d, k, info, Steps(old, lookup, entry, suppress))
      BY <1>3, <3>3, ReadPosition
    <3>5. Position(ms, d, k, info, Steps(old, lookup, entry, suppress))
      BY <3>2, <3>4
    <3>6. Position(declared', d, disk'[d], baseline'[d], todo'[d])
      BY <1>1, <3>5 DEF ms, k
    <3> QED
      BY <1>1, <2>2, <3>6 DEF Fits, Watched
  <2> QED
    BY <2>3, <2>4
<1>6. /\ d \notin excused' => d \notin excused \/ InStep(d)'
      /\ d \notin excused' => InStep(d)' \/ ~(d \in stamped \/ Several(d))
  BY <1>1 DEF Excuse
<1>7. d \notin excused /\ d \notin excused' => Fits(d)'
  BY <1>2, <1>5, <1>6, InStepFits
<1> QED
  BY <1>2, <1>6, <1>7, AccountedFor

LEMMA AccountedAtGather ==
  ASSUME NoVolumes, ~Spaced, FTypes, FTypes', NEW d \in Devices, Accounted(d), Gather(d)
  PROVE  Accounted(d)'
<1> DEFINE ms == declared
           k == disk[d]
           info == baseline[d]
           s == todo[d]
           step == Head(s)
           fresh == Info(step.entry, k)
           next == CASE step.suppress -> <<>>
                     [] ~step.suppress /\ step.old = None -> <<ReportMount(fresh, d \in Luks)>>
                     [] OTHER -> Remounted(d, step.old, fresh)
<1>1. /\ todo'[d] = next /\ baseline'[d] = fresh /\ watch[d] = "running" /\ s # <<>> /\ step.op = "gather"
      /\ UNCHANGED <<watch, conf, disk, unread, declared, calls, report, stamped>> /\ Excuse({})
  BY DEF Gather, Working, FTypes, watcherVars, deviceState, monitorState
<1>2. Ordinary(d)'
  BY OrdinaryAtGather DEF Accounted
<1>3. k \in Disks(d) /\ AreSteps(d, s) /\ Shape(k, info, s)
  BY DEF FTypes, DeviceTypes, Accounted, Ordinary
<1>4. Position(ms, d, k, info, s) => Position(ms, d, k, fresh, next)
  <2> HIDE DEF ms, k, info, s
  <2> QED
    BY <1>1, <1>3, GatherPosition
<1> HIDE DEF next, fresh
<1>5. Position(declared, d, disk[d], baseline[d], todo[d]) => Position(declared', d, disk'[d], baseline'[d], todo'[d])
  BY <1>1, <1>4
<1>6. Current(d) => Current(d)'
  BY <1>1 DEF Current
<1>7. ASSUME d \notin excused PROVE Fits(d)'
  BY <1>1, <1>5, <1>6, <1>7 DEF Accounted, Fits, Watched, Busy
<1>8. d \notin excused' => d \notin excused \/ InStep(d)'
  BY <1>1 DEF Excuse
<1> QED
  BY <1>2, <1>7, <1>8, AccountedFor

LEMMA AccountedAtReport ==
  ASSUME NoVolumes, FTypes, FTypes', NEW d \in Devices, Accounted(d), Report(d)
  PROVE  Accounted(d)'
<1> DEFINE k == disk[d]
           info == baseline[d]
           s == todo[d]
           call == Head(s)
           ms == declared'
<1>1. /\ Commit(call) /\ s # <<>> /\ call.op # "gather" /\ todo'[d] = Tail(s) /\ watch[d] = "running"
      /\ UNCHANGED <<watch, disk, baseline, calls, report, stamped>> /\ Excuse({})
      /\ unread \subseteq unread' /\ (d \notin unread' => d \notin unread /\ conf'[d] = conf[d])
  BY DEF Report, Commit, Working, FTypes, watcherVars, monitorState
<1>2. k \in Disks(d) /\ AreSteps(d, s) /\ Shape(k, info, s)
  BY DEF FTypes, DeviceTypes, Accounted, Ordinary
<1> HIDE DEF k, info, s
<1>3. IsCall(d, call) /\ (call.op = "add_mount" => call.entry.disk = k)
  BY <1>1, <1>2, TakenShape
<1>4. /\ call.op = "remove_mount" => Places(ms, d) = Places(declared, d) \ {call.mount_point}
      /\ call.op = "add_mount" =>
           Places(ms, d) = Places(declared, d) \cup {call.mount_point} /\ ms[call.mount_point] = call.entry
      /\ \A m \in MountPoints : m # call.mount_point => ms[m] = declared[m]
  BY <1>1, <1>3, CommitPlaces
<1>5. Ordinary(d)'
  BY <1>1, <1>3, OrdinaryRebuilt DEF Accounted, s
<1> HIDE DEF ms
<1>6. Position(declared, d, k, info, s) => Position(ms, d, k, info, Tail(s))
  BY <1>1, <1>2, <1>4, TakenPosition
<1>7. Current(d) => Current(d)'
  <2> SUFFICES ASSUME \A m \in Places(declared, d) : declared[m].disk = k, NEW m \in Places(ms, d)
               PROVE  ms[m].disk = k
    BY <1>1 DEF Current, ms, k
  <2>1. m \in MountPoints
    BY DEF Places
  <2> QED
    BY <1>3, <1>4, <2>1 DEF IsCall
<1>8. ASSUME d \notin excused PROVE Fits(d)'
  <2>1. Watched(d)
    BY <1>1, <1>8 DEF Accounted, Fits
  <2>2. Position(declared, d, disk[d], baseline[d], todo[d]) => Position(declared', d, disk'[d], baseline'[d], todo'[d])
    BY <1>1, <1>6 DEF k, info, s, ms
  <2> QED
    BY <1>1, <1>7, <2>1, <2>2 DEF Fits, Watched, Busy
<1>9. d \notin excused' => d \notin excused \/ InStep(d)'
  BY <1>1 DEF Excuse
<1> QED
  BY <1>5, <1>8, <1>9, AccountedFor

\* The monitor's report about the device.
LEMMA AccountedAtDeclare ==
  ASSUME NoVolumes, FTypes, FTypes', NEW d \in Devices, Accounted(d), NEW call, IsCall(d, call), Commit(call),
         call.op = "add_mount" => call.entry.disk = disk[d], Excuse({d} \ stamped),
         UNCHANGED <<watch, baseline, todo, stamped>>
  PROVE  Accounted(d)'
<1> DEFINE k == disk[d]
           info == baseline[d]
           s == todo[d]
           ms == declared'
           c == Generated(ms, k)
<1>1. /\ disk' = disk /\ conf'[d] = c /\ unread \subseteq unread'
      /\ d \notin unread' => d \notin unread /\ conf'[d] = conf[d]
  BY DEF Commit
<1>2. k \in Disks(d) /\ AreSteps(d, s) /\ Shape(k, info, s) /\ DeclaredTypes(ms)
  BY CommitTypes DEF FTypes, DeviceTypes, Accounted, Ordinary
<1>3. /\ call.op = "remove_mount" => Places(ms, d) = Places(declared, d) \ {call.mount_point}
      /\ call.op = "add_mount" =>
           Places(ms, d) = Places(declared, d) \cup {call.mount_point} /\ ms[call.mount_point] = call.entry
      /\ \A m \in MountPoints : m # call.mount_point => ms[m] = declared[m]
  BY CommitPlaces
<1>4. Ordinary(d)'
  BY OrdinaryRebuilt DEF Accounted
<1> HIDE DEF ms, k
<1>5. Lookup(c) # "malformed"
  BY <1>2, GeneratedReads
<1>6. Current(d) => Current(d)'
  <2> SUFFICES ASSUME \A m \in Places(declared, d) : declared[m].disk = k, NEW m \in Places(ms, d)
               PROVE  ms[m].disk = k
    BY <1>1 DEF Current, ms, k
  <2>1. m \in MountPoints
    BY DEF Places
  <2> QED
    BY <1>3, <2>1 DEF IsCall, k
<1>7. Relinked(d)'
  BY <1>1 DEF Relinked, ms, k
<1>8. ASSUME d \notin excused, watch[d] = "running", d \notin unread' PROVE Watched(d)'
  <2> DEFINE value == Value(c, k)
             to == HeadsFor(k, info, s)
             places == IF to = None THEN {} ELSE {to.mount_point}
  <2>1. c = conf[d] /\ d \notin unread /\ Len(c) <= 1
    BY <1>1, <1>8 DEF Accounted, Fits, Watched
  <2>2. Alike(value, to)
    BY <1>5, <1>8, <2>1 DEF Accounted, Ordinary, Informed, Heading, HeadsFor, k
  <2>3. Declares(ms, k) = IF value = None THEN {} ELSE {value.mount_point}
    BY <1>2, <2>1, GeneratedPlace
  <2> HIDE DEF value, c, to
  <2>4. Declares(ms, k) = places
    BY <2>2, <2>3 DEF Alike
  <2>5. ASSUME \A p \in Places(ms, d) : ms[p].disk = k PROVE Says(ms, d, to)
    <3>1. Says(ms, d, value)
      BY <1>2, <2>1, <2>5, GeneratedAgrees DEF value, c
    <3> QED
      BY <2>2, <3>1 DEF Says, Alike
  <2>6. CASE Position(declared, d, k, info, s)
    <3>1. Places(ms, d) \subseteq Places(declared, d) \cup places
      <4>1. CASE call.op = "remove_mount"
        BY <1>3, <4>1
      <4>2. CASE call.op = "add_mount"
        <5>1. call.mount_point \in Places(ms, d) /\ ms[call.mount_point].disk = k
          BY <1>3, <4>2 DEF k
        <5>2. call.mount_point \in places
          BY <2>4, <5>1 DEF Declares, Places
        <5> QED
          BY <1>3, <4>2, <5>2
      <4> QED
        BY <4>1, <4>2 DEF IsCall
    <3>2. Places(ms, d) \subseteq places => Says(ms, d, to)
      <4>1. \A p \in places : ms[p].disk = k
        BY <2>4 DEF Declares
      <4> QED
        BY <2>5, <4>1
    <3> HIDE DEF info, s
    <3>3. places = IF to = None THEN {} ELSE {to.mount_point}
      OBVIOUS
    <3> HIDE DEF places
    <3>4. Position(ms, d, k, info, s)
      BY <1>2, <2>6, <3>1, <3>2, <3>3, StillPosition DEF to
    <3>5. Position(declared', d, disk'[d], baseline'[d], todo'[d])
      BY <1>1, <3>4 DEF ms, k, info, s
    <3> QED
      BY <1>1, <2>1, <3>5 DEF Watched
  <2>7. CASE Current(d)
    <3>1. \A p \in Places(ms, d) : ms[p].disk = k
      BY <1>1, <1>6, <2>7 DEF Current, ms, k
    <3>2. Says(ms, d, to)
      BY <2>5, <3>1
    <3> HIDE DEF info, s
    <3>3. Position(ms, d, k, info, s)
      BY <1>2, <3>2, DeclaredIsPosition DEF to
    <3>4. Position(declared', d, disk'[d], baseline'[d], todo'[d])
      BY <1>1, <3>3 DEF ms, k, info, s
    <3> QED
      BY <1>1, <2>1, <3>4 DEF Watched
  <2> QED
    BY <1>8, <2>1, <2>6, <2>7 DEF Accounted, Fits, Watched, k
<1>9. ASSUME d \notin excused, d \in stamped PROVE Fits(d)'
  <2>1. CASE watch[d] = "running" /\ d \notin unread'
    BY <1>8, <1>9, <2>1 DEF Fits
  <2>2. CASE watch[d] = "running" /\ d \in unread'
    BY <1>1, <1>9, <2>2 DEF Fits, Watched
  <2>3. CASE watch[d] # "running"
    BY <1>1, <1>5, <1>6, <1>7, <1>9, <2>3 DEF Accounted, Fits, Unwatched
  <2> QED
    BY <2>1, <2>2, <2>3
<1>10. d \notin excused' => (d \notin excused /\ d \in stamped) \/ InStep(d)'
  BY DEF Excuse
<1>11. d \notin excused' => Fits(d)'
  BY <1>4, <1>9, <1>10, InStepFits
<1> QED
  BY <1>4, <1>11 DEF Accounted

--------------------------------------------------------------------------------
(* The changes of a device's configuration *)

\* One item at most: what it says.
LEMMA OneItemSays ==
  ASSUME NEW d \in Devices, NEW c \in Seq(ItemsOf(d)), Len(c) <= 1, \A i \in DOMAIN c : c[i].kind = "fstab",
         Lookup(c) # "malformed", NEW k \in Disks(d)
  PROVE  \/ c = <<>> /\ Value(c, k) = None
         \/ \E item \in ItemsOf(d) :
              /\ c = <<item>> /\ ItemEntry(item) \in Entries(d) /\ ItemEntry(item) # None
              /\ Value(c, k) = Info(ItemEntry(item), k)
              /\ Value(c, k) # None /\ FstabPlaces(c) = {1}
<1>1. Len(c) \in Nat /\ DOMAIN c = 1 .. Len(c)
  OBVIOUS
<1>2. CASE Len(c) = 0
  <2>1. c = <<>>
    BY <1>2
  <2>2. FstabPlaces(c) = {}
    BY <1>1, <1>2 DEF FstabPlaces
  <2> QED
    BY <2>1, <2>2 DEF Value, Lookup
<1>3. CASE Len(c) = 1
  <2> DEFINE item == c[1]
  <2>1. c = <<item>> /\ item \in ItemsOf(d) /\ DOMAIN c = {1}
    BY <1>1, <1>3
  <2>2. FstabPlaces(c) = {1} /\ item.kind = "fstab"
    BY <1>1, <1>3 DEF FstabPlaces
  <2>3. Min({1}) = 1
    <3>1. \E x \in {1} : \A y \in {1} : x <= y
      OBVIOUS
    <3> QED
      BY <3>1 DEF Min
  <2>4. LookupEntry(c) = ItemEntry(item)
    BY <2>2, <2>3 DEF LookupEntry, ItemEntry
  <2>5. Lookup(c) = "entry" /\ ItemEntry(item) # None
    BY <2>2, <2>4 DEF Lookup
  <2>6. LookupEntry(c) \in Entries(d) /\ Value(c, k) = Info(LookupEntry(c), k) /\ Value(c, k) # None
    BY <2>5, ValueTypes
  <2> QED
    BY <2>1, <2>2, <2>4, <2>5, <2>6
<1> QED
  BY <1>1, <1>2, <1>3

\* An authorised call that asks for nothing leaves what the configuration says.
LEMMA NoIntent ==
  ASSUME ~Spaced, NEW d \in Devices, NEW k \in Disks(d),
         NEW old \in Seq(ItemsOf(d)), Len(old) <= 1, \A i \in DOMAIN old : old[i].kind = "fstab",
         Lookup(old) # "malformed",
         NEW new \in Seq(ItemsOf(d)), Len(new) <= 1, \A i \in DOMAIN new : new[i].kind = "fstab",
         Lookup(new) # "malformed", old # new,
         NEW member, member = CASE old = <<>> -> "AddConfigurationItem"
                                [] new = <<>> -> "RemoveConfigurationItem"
                                [] OTHER -> "UpdateConfigurationItem",
         Intent(member, old \o new) = None
  PROVE  Alike(Value(new, k), Value(old, k))
<1>0. \A e \in Entries(d) : e \in [mount_point : MountPoints, options : Seq(Opts)]
  <2>1. Seq(Segments) \subseteq Seq(Opts) /\ Dirs(d) \subseteq MountPoints
    BY DEF Segments, Dirs
  <2> QED
    BY <2>1 DEF Entries
<1>1. ASSUME NEW e \in Entries(d)
      PROVE  /\ Mount(e) # None /\ Unmount(e) # None
             /\ \A f \in Entries(d) : Move(e, f) # None /\ Options(e, f.options) # None
  <2>1. Mount(e) # None /\ Unmount(e) # None
    BY <1>0, NoneAssumption DEF Mount, Unmount
  <2>2. ASSUME NEW f \in Entries(d) PROVE Move(e, f) # None /\ Options(e, f.options) # None
    <3>1. f.options \in Seq(Opts)
      BY <1>0
    <3> QED
      BY <1>0, <3>1, NoneAssumption DEF Move, Options
  <2> QED
    BY <2>1, <2>2
<1>2. ASSUME NEW items, DOMAIN items = {1}, Len(items) = 1, ItemEntry(items[1]) # None
      PROVE  /\ Intent("AddConfigurationItem", items) = Mount(ItemEntry(items[1]))
             /\ Intent("RemoveConfigurationItem", items) = Unmount(ItemEntry(items[1]))
  <2> DEFINE entry == [i \in DOMAIN items |-> ItemEntry(items[i])]
  <2>1. entry[1] = ItemEntry(items[1]) /\ None \notin ToSet(entry)
    BY <1>2 DEF ToSet
  <2> QED
    BY <1>2, <2>1 DEF Intent
<1>3. ASSUME NEW items, DOMAIN items = {1, 2}, Len(items) = 2, ItemEntry(items[1]) # None, ItemEntry(items[2]) # None
      PROVE  Intent("UpdateConfigurationItem", items) = Update(ItemEntry(items[1]), ItemEntry(items[2]))
  <2> DEFINE entry == [i \in DOMAIN items |-> ItemEntry(items[i])]
  <2>1. entry[1] = ItemEntry(items[1]) /\ entry[2] = ItemEntry(items[2]) /\ None \notin ToSet(entry)
    BY <1>3 DEF ToSet
  <2> QED
    BY <1>3, <2>1 DEF Intent
<1>4. /\ \A x : /\ <<x>> \o <<>> = <<x>> /\ <<>> \o <<x>> = <<x>> /\ <<x>> # <<>>
                /\ DOMAIN <<x>> = {1} /\ Len(<<x>>) = 1 /\ <<x>>[1] = x
      /\ \A x, y : /\ <<x>> \o <<y>> = <<x, y>> /\ DOMAIN <<x, y>> = {1, 2} /\ Len(<<x, y>>) = 2
                   /\ <<x, y>>[1] = x /\ <<x, y>>[2] = y
  <2>1. \A x : DOMAIN <<x>> = {1} /\ Len(<<x>>) = 1 /\ <<x>>[1] = x /\ <<x>> # <<>>
    OBVIOUS
  <2>2. \A x, y : DOMAIN <<x, y>> = {1, 2} /\ Len(<<x, y>>) = 2 /\ <<x, y>>[1] = x /\ <<x, y>>[2] = y
    <3>1. 1 .. 2 = {1, 2}
      OBVIOUS
    <3> QED
      BY <3>1
  <2>3. ASSUME NEW x PROVE <<x>> \o <<>> = <<x>>
    <3>1. /\ Len(<<x>> \o <<>>) = 1 /\ (<<x>> \o <<>>)[1] = x
          /\ <<x>> \o <<>> \in Seq({x})
      OBVIOUS
    <3> QED
      BY <3>1
  <2> QED
    BY <2>1, <2>2, <2>3, SeqOfTwo
<1>5. CASE old = <<>>
  <2>1. PICK x \in ItemsOf(d) : new = <<x>> /\ ItemEntry(x) \in Entries(d) /\ ItemEntry(x) # None
    BY <1>5, OneItemSays
  <2>2. old \o new = <<x>> /\ member = "AddConfigurationItem"
    BY <1>4, <1>5, <2>1
  <2>3. Intent(member, old \o new) = Mount(ItemEntry(x))
    <3> DEFINE items == old \o new
    <3>1. DOMAIN items = {1} /\ Len(items) = 1 /\ items[1] = x
      BY <1>4, <2>2
    <3> HIDE DEF items
    <3>2. Intent("AddConfigurationItem", items) = Mount(ItemEntry(x))
      BY <1>2, <2>1, <3>1
    <3> QED
      BY <2>2, <3>2 DEF items
  <2> QED
    BY <1>1, <2>1, <2>3
<1>6. CASE old # <<>> /\ new = <<>>
  <2>1. PICK x \in ItemsOf(d) : old = <<x>> /\ ItemEntry(x) \in Entries(d) /\ ItemEntry(x) # None
    BY <1>6, OneItemSays
  <2>2. old \o new = <<x>> /\ member = "RemoveConfigurationItem"
    BY <1>4, <1>6, <2>1
  <2>3. Intent(member, old \o new) = Unmount(ItemEntry(x))
    <3> DEFINE items == old \o new
    <3>1. DOMAIN items = {1} /\ Len(items) = 1 /\ items[1] = x
      BY <1>4, <2>2
    <3> HIDE DEF items
    <3>2. Intent("RemoveConfigurationItem", items) = Unmount(ItemEntry(x))
      BY <1>2, <2>1, <3>1
    <3> QED
      BY <2>2, <3>2 DEF items
  <2> QED
    BY <1>1, <2>1, <2>3
<1>7. CASE old # <<>> /\ new # <<>>
  <2>1. PICK x \in ItemsOf(d) : /\ old = <<x>> /\ ItemEntry(x) \in Entries(d) /\ ItemEntry(x) # None
                                /\ Value(old, k) = Info(ItemEntry(x), k) /\ Value(old, k) # None
    BY <1>7, OneItemSays
  <2>2. PICK y \in ItemsOf(d) : /\ new = <<y>> /\ ItemEntry(y) \in Entries(d) /\ ItemEntry(y) # None
                                /\ Value(new, k) = Info(ItemEntry(y), k) /\ Value(new, k) # None
    BY <1>7, OneItemSays
  <2>3. old \o new = <<x, y>> /\ member = "UpdateConfigurationItem"
    BY <1>4, <1>7, <2>1, <2>2
  <2> DEFINE e == ItemEntry(x)
             f == ItemEntry(y)
  <2>4. Update(e, f) = None
    <3> DEFINE items == old \o new
    <3>1. DOMAIN items = {1, 2} /\ Len(items) = 2 /\ items[1] = x /\ items[2] = y
      BY <1>4, <2>3
    <3>2. Intent("UpdateConfigurationItem", items) = None
      BY <2>3
    <3> HIDE DEF items
    <3> QED
      BY <1>3, <2>1, <2>2, <3>1, <3>2
  <2> HIDE DEF e, f
  <2>5. e \in Entries(d) /\ f \in Entries(d)
    BY <2>1, <2>2 DEF e, f
  <2>6. e.mount_point = f.mount_point /\ SameOptions(e.options, f.options)
    BY <1>1, <2>4, <2>5 DEF Update
  <2>7. e.options \in Seq(Segments) /\ f.options \in Seq(Segments)
    BY <2>5 DEF Entries
  <2>8. Names(e.options) = Names(f.options)
    BY <2>6, <2>7, OptionsAlike
  <2>9. Alike(Info(f, k), Info(e, k))
    BY <2>1, <2>2, <2>6, <2>8 DEF Alike, Info, e, f
  <2> QED
    BY <2>1, <2>2, <2>9 DEF e, f
<1> QED
  BY <1>5, <1>6, <1>7

LEMMA OrdinaryChanged ==
  ASSUME OneItem, FTypes, NEW d \in Devices, Ordinary(d), NEW c \in Configurations[d], Changes(d, c), disk' = disk
  PROVE  /\ Ordinary(d)' /\ conf'[d] = c /\ d \in unread' /\ UNCHANGED <<watch, baseline, todo, declared, stamped, report>>
         /\ Len(c) <= 1 /\ (\A i \in DOMAIN c : c[i].kind = "fstab") /\ c \in Seq(ItemsOf(d))
<1>1. /\ conf'[d] = c /\ d \in unread'
      /\ UNCHANGED <<watch, baseline, todo, declared, stamped, report>>
  BY DEF Changes, FTypes, watcherVars, watcherState
<1>2. Len(c) <= 1 /\ (\A i \in DOMAIN c : c[i].kind = "fstab") /\ c \in Seq(ItemsOf(d))
  BY ConfigurableItems DEF OneItem, Configurable
<1>3. Len(c) \in Nat /\ ~(Len(c) > 1)
  BY <1>2
<1>4. Informed(d)'
  BY <1>1 DEF Informed
<1> QED
  BY <1>1, <1>2, <1>3, <1>4 DEF Ordinary

LEMMA AccountedAtEdit ==
  ASSUME NoVolumes, OneItem, FTypes, FTypes', NEW d \in Devices, Accounted(d), NEW c \in Configurations[d], Edit(d, c)
  PROVE  Accounted(d)'
<1>1. /\ Changes(d, c) /\ UNCHANGED <<disk, calls>>
      /\ excused' = IF watch[d] = "running" THEN excused ELSE excused \cup {d}
  BY DEF Edit
<1>2. Ordinary(d)' /\ d \in unread' /\ UNCHANGED <<watch, baseline, todo, declared, stamped, report>>
  BY <1>1, OrdinaryChanged DEF Accounted
<1>3. ASSUME d \notin excused, d \notin excused' PROVE Fits(d)'
  <2>1. watch[d] = "running" /\ Watched(d)
    BY <1>1, <1>3 DEF Accounted, Fits
  <2>2. (Current(d) => Current(d)') /\ (Busy(d) => Busy(d)')
    BY <1>1, <1>2 DEF Current, Busy
  <2> QED
    BY <1>1, <1>2, <2>1, <2>2 DEF Fits, Watched
<1>4. d \notin excused' => d \notin excused
  BY <1>1
<1> QED
  BY <1>2, <1>3, <1>4, AccountedFor

\* An intent, or the same value.
LEMMA AccountedAtCall ==
  ASSUME NoVolumes, OneItem, ~Spaced, FTypes, FTypes', NEW d \in Devices, Accounted(d), NEW c \in Configurations[d], Call(d, c)
  PROVE  Accounted(d)'
<1> DEFINE member == CASE conf[d] = <<>> -> "AddConfigurationItem"
                       [] c = <<>> -> "RemoveConfigurationItem"
                       [] OTHER -> "UpdateConfigurationItem"
           intent == Intent(member, conf[d] \o c)
           call == [path |-> d, intent |-> intent]
           k == disk[d]
           ms == declared
<1>1. /\ Changes(d, c) /\ UNCHANGED <<disk, excused>>
      /\ Lookup(conf[d]) # "malformed" /\ Lookup(c) # "malformed" /\ c # conf[d] /\ Len(conf[d]) < 2
      /\ calls' = IF intent = None THEN calls ELSE Append(calls, call)
  BY DEF Call
<1>2. /\ Ordinary(d)' /\ d \in unread' /\ UNCHANGED <<watch, baseline, todo, declared, stamped, report>>
      /\ conf'[d] = c /\ Len(c) <= 1 /\ (\A i \in DOMAIN c : c[i].kind = "fstab") /\ c \in Seq(ItemsOf(d))
  BY <1>1, OrdinaryChanged DEF Accounted
<1>3. /\ conf[d] \in Seq(ItemsOf(d)) /\ (\A i \in DOMAIN conf[d] : conf[d][i].kind = "fstab")
      /\ k \in Disks(d) /\ DeclaredTypes(ms) /\ calls \in Seq(AuthorisedCalls)
  BY DEF FTypes, DeviceTypes, Accounted, Ordinary
<1>4. Len(conf[d]) <= 1
  BY <1>1, <1>3
<1>5. call.path = d
  OBVIOUS
<1> HIDE DEF call
<1>6. intent # None => Busy(d)'
  <2> SUFFICES ASSUME intent # None PROVE \E i \in DOMAIN calls' : calls'[i].path = d
    BY DEF Busy
  <2>1. calls' = Append(calls, call)
    BY <1>1
  <2>2. Len(calls) + 1 \in DOMAIN Append(calls, call) /\ Append(calls, call)[Len(calls) + 1] = call
    BY <1>3
  <2> QED
    BY <1>5, <2>1, <2>2
<1>7. Busy(d) => Busy(d)'
  <2>1. CASE intent # None
    BY <1>6, <2>1
  <2>2. CASE intent = None
    BY <1>1, <1>2, <2>2 DEF Busy
  <2> QED
    BY <2>1, <2>2
<1>8. intent = None => Alike(Value(c, k), Value(conf[d], k))
  <2> DEFINE old == conf[d]
  <2>1. /\ old \in Seq(ItemsOf(d)) /\ Len(old) <= 1 /\ (\A i \in DOMAIN old : old[i].kind = "fstab")
        /\ Lookup(old) # "malformed" /\ old # c
        /\ member = CASE old = <<>> -> "AddConfigurationItem"
                      [] c = <<>> -> "RemoveConfigurationItem"
                      [] OTHER -> "UpdateConfigurationItem"
    BY <1>1, <1>3, <1>4
  <2> HIDE DEF member, k
  <2> QED
    BY <1>1, <1>2, <1>3, <2>1, NoIntent
<1> HIDE DEF intent, member
<1>9. Current(d) => Current(d)'
  BY <1>1, <1>2 DEF Current
<1>10. ASSUME d \notin excused PROVE Fits(d)'
  <2>1. CASE watch[d] = "running"
    <3>1. Watched(d)
      BY <1>10, <2>1 DEF Accounted, Fits
    <3> QED
      BY <1>1, <1>2, <1>7, <1>9, <2>1, <3>1 DEF Fits, Watched
  <2>2. CASE watch[d] # "running"
    <3>1. Unwatched(d)
      BY <1>10, <2>2 DEF Accounted, Fits
    <3>2. CASE Busy(d) \/ intent # None
      BY <1>1, <1>2, <1>6, <1>7, <1>9, <2>2, <3>1, <3>2 DEF Fits, Unwatched
    <3>3. CASE ~Busy(d) /\ intent = None
      <4>1. Says(ms, d, Value(conf[d], k))
        <5>1. CASE Relinked(d)
          <6>1. conf[d] = Generated(ms, k) /\ \A p \in Places(ms, d) : ms[p].disk = k
            BY <3>1, <5>1 DEF Unwatched, Relinked, Current
          <6>2. Len(Generated(ms, k)) <= 1
            BY <1>4, <6>1
          <6> HIDE DEF ms, k
          <6>3. Says(ms, d, Value(Generated(ms, k), k))
            BY <1>3, <6>1, <6>2, GeneratedAgrees
          <6> QED
            BY <6>1, <6>3
        <5>2. CASE ~Relinked(d)
          BY <3>1, <3>3, <5>2 DEF Unwatched
        <5> QED
          BY <5>1, <5>2
      <4>2. Says(ms, d, Value(c, k))
        BY <1>8, <3>3, <4>1, AlikeSays
      <4> QED
        BY <1>1, <1>2, <1>9, <2>2, <3>1, <4>2 DEF Fits, Unwatched
    <3> QED
      BY <3>2, <3>3
  <2> QED
    BY <2>1, <2>2
<1> QED
  BY <1>1, <1>2, <1>10, AccountedFor

\* Made anew at rest, with nothing of it on its way.
LEMMA AccountedAtRemake ==
  ASSUME NoVolumes, FTypes, FTypes', NEW d \in Devices, Accounted(d), Remake(d)
  PROVE  Accounted(d)'
<1>1. /\ watch[d] = "running" /\ todo[d] = <<>> /\ d \notin unread /\ Len(conf[d]) < 2
      /\ report = None /\ calls = <<>> /\ excused' = excused
      /\ conf'[d] = conf[d] /\ d \in unread' /\ UNCHANGED <<watch, baseline, todo, declared>>
  BY DEF Remake, Changes, FTypes, watcherVars, watcherState, history
<1>2. ~Busy(d)
  BY <1>1 DEF Busy
<1>3. ~(Len(conf[d]) > 1)
  <2>1. conf[d] \in Seq(ItemsOf(d))
    BY DEF FTypes, DeviceTypes
  <2> QED
    BY <1>1, <2>1
<1>4. Informed(d)'
  BY <1>1 DEF Informed
<1>5. Ordinary(d)'
  BY <1>1, <1>3, <1>4, ShapeOfNone DEF Accounted, Ordinary
<1>6. ASSUME d \notin excused PROVE Fits(d)'
  <2>1. Says(declared, d, baseline[d])
    BY <1>1, <1>2, <1>6, PositionOfNone DEF Accounted, Fits, Watched
  <2>2. Position(declared', d, disk'[d], baseline'[d], todo'[d])
    BY <1>1, <2>1, PositionOfNone
  <2> QED
    BY <1>1, <2>2 DEF Fits, Watched
<1> QED
  BY <1>1, <1>5, <1>6, AccountedFor

--------------------------------------------------------------------------------
(* The loop *)

LEMMA CInitHolds == ASSUME NoVolumes, OwnPlaces, OneItem, Init PROVE CInv
<1>1. FTypes /\ RInv
  BY FInitTypes, RInitHolds
<1>2. /\ report = None /\ irregular = {} /\ excused = {}
      /\ \A d \in Devices : watch[d] = "none" /\ todo[d] = <<>> /\ conf[d] \in Configurable(d)
  BY DEF Init, WatchersInit, Configurable
<1>3. ASSUME NEW d \in Devices PROVE Accounted(d)
  <2> DEFINE value == Value(conf[d], disk[d])
  <2>1. /\ conf[d] \in Seq(ItemsOf(d)) /\ disk[d] \in Disks(d) /\ DeclaredTypes(declared)
        /\ Len(conf[d]) <= 1 /\ \A i \in DOMAIN conf[d] : conf[d][i].kind = "fstab"
    BY <1>1, <1>2 DEF FTypes, DeviceTypes, OneItem
  <2>2. ~(Len(conf[d]) > 1)
    BY <2>1
  <2>3. Lookup(conf[d]) # "malformed" /\ Says(declared, d, value)
    BY <1>1, <1>2 DEF RInv, Keeps
  <2>4. value = None \/ value.disk = disk[d]
    BY <2>1, ValueTypes
  <2> HIDE DEF value
  <2>5. Current(d)
    BY <2>1, <2>3, <2>4, SaysOnePlace DEF Current
  <2>6. Ordinary(d)
    BY <1>2, <2>1, <2>2, ShapeOfNone DEF Ordinary
  <2>7. Fits(d)
    BY <1>2, <2>3, <2>5 DEF Fits, Unwatched, value
  <2> QED
    BY <2>6, <2>7 DEF Accounted
<1> QED
  BY <1>2, <1>3 DEF CInv, ReportsNow

\* What an intent adds is of the disk that is there.
LEMMA LibraryCallsNow ==
  ASSUME NEW d, NEW intent \in Intents(d), NEW k, NEW luks
  PROVE  LET left == LibraryCalls(intent, k, luks)
         IN  \A i \in DOMAIN left : left[i].op = "add_mount" => left[i].entry.disk = k
<1> DEFINE Now(call) == call.op = "add_mount" => call.entry.disk = k
<1>1. /\ \A info, l : info.disk = k => Now(AddMount(info, l))
      /\ \A info : Now(RemoveMount(info))
      /\ \A e : Info(e, k).disk = k
  BY DEF AddMount, RemoveMount, Info
<1>2. \A e : /\ Now(ReportMount(Info(e, k), luks)) /\ Now(RemoveMount(Info(e, k)))
             /\ \A o : Now(ReportOptionsChanged(Info(e, k), o))
  <2>1. \A e, o : [Info(e, k) EXCEPT !.options = o].disk = k
    BY DEF Info
  <2> QED
    BY <1>1, <2>1 DEF ReportMount, ReportOptionsChanged
<1>3. /\ \A a : DOMAIN <<a>> = {1} /\ <<a>>[1] = a
      /\ \A a, b : DOMAIN <<a, b>> = {1, 2} /\ <<a, b>>[1] = a /\ <<a, b>>[2] = b
  <2>1. \A a : DOMAIN <<a>> = {1} /\ <<a>>[1] = a
    OBVIOUS
  <2>2. 1 .. 2 = {1, 2}
    OBVIOUS
  <2>3. \A a, b : DOMAIN <<a, b>> = {1, 2} /\ <<a, b>>[1] = a /\ <<a, b>>[2] = b
    BY <2>2
  <2> QED
    BY <2>1, <2>3
<1> HIDE DEF Now
<1> DEFINE left == LibraryCalls(intent, k, luks)
<1>4. \/ \E e : left = <<ReportMount(Info(e, k), luks)>>
      \/ \E e : left = <<RemoveMount(Info(e, k))>>
      \/ \E e, o : left = <<ReportOptionsChanged(Info(e, k), o)>>
      \/ \E e, f : left = <<RemoveMount(Info(e, k)), ReportMount(Info(f, k), luks)>>
  BY DEF Intents, LibraryCalls, Mount, Unmount, Options, Move
<1> HIDE DEF left
<1>5. \A i \in DOMAIN left : Now(left[i])
  <2>1. ASSUME NEW a, left = <<a>>, Now(a) PROVE \A i \in DOMAIN left : Now(left[i])
    BY <1>3, <2>1
  <2>2. ASSUME NEW a, NEW b, left = <<a, b>>, Now(a), Now(b) PROVE \A i \in DOMAIN left : Now(left[i])
    BY <1>3, <2>2
  <2> QED
    BY <1>2, <1>4, <2>1, <2>2
<1> QED
  BY <1>5 DEF Now, left

\* One step per action: what the monitor has left to add, then the device it is about,
\* then the others.
LEMMA CInductive == ASSUME NoVolumes, OwnPlaces, ~Spaced, OneItem, FTypes, RInv, CInv, [Next]_vars PROVE CInv'
<1>0. FTypes' /\ ReportsNow /\ \A d \in Devices : Accounted(d)
  BY FTypesKept DEF CInv
<1>1. ASSUME report' = report \/ report' = None, disk' = disk PROVE ReportsNow'
  BY <1>0, <1>1 DEF ReportsNow
<1>2. CASE UNCHANGED vars
  <2>1. UNCHANGED <<watch, conf, disk, baseline, todo, unread, declared, calls, report, stamped, excused>>
    BY <1>2 DEF vars, watcherVars, deviceState, watcherState, monitorState, history
  <2>2. ASSUME NEW d \in Devices PROVE Accounted(d)'
    BY <1>0, <2>1, AccountedAlone DEF Busy
  <2> QED
    BY <1>1, <2>1, <2>2 DEF CInv
<1>3. CASE Appear
  <2>1. /\ UNCHANGED <<conf, disk, baseline, todo, unread, declared, calls, report, stamped, excused>>
        /\ \A d \in Devices : watch'[d] = "running" <=> watch[d] = "running"
    BY <1>3 DEF Appear, ListDevices, Subscribe, OnAdded, Spawn, Alive, deviceState, watcherState, monitorState, history
  <2>2. ASSUME NEW d \in Devices PROVE Accounted(d)'
    BY <1>0, <2>1, AccountedAlone DEF Busy
  <2> QED
    BY <1>1, <2>1, <2>2 DEF CInv
<1>4. CASE Disappear
  <2> DEFINE e == Head(removed)
  <2>1. /\ removed # <<>> /\ watch' = [watch EXCEPT ![e] = "none"]
        /\ todo' = [todo EXCEPT ![e] = <<>>] /\ baseline' = [baseline EXCEPT ![e] = None]
        /\ excused' = excused \cup (IF e \in unread \/ todo[e] # <<>> \/ Lookup(conf[e]) = "malformed" THEN {e} ELSE {})
        /\ UNCHANGED <<conf, disk, unread, stamped, calls, report, declared>>
    BY <1>4 DEF Disappear, OnRemoved, deviceState, monitorState
  <2>2. e \in Devices
    BY <2>1 DEF FTypes, WatchersTypeOK
  <2> HIDE DEF e
  <2>3. ASSUME NEW d \in Devices PROVE Accounted(d)'
    <3>1. CASE d = e
      <4>1. watch'[d] # "running" /\ todo'[d] = <<>>
        BY <2>1, <3>1 DEF FTypes, WatchersTypeOK
      <4>2. Ordinary(d)'
        BY <1>0, <2>1, <4>1, OrdinaryAlone DEF Accounted
      <4>3. d \notin excused' => d \notin excused /\ d \notin unread /\ todo[d] = <<>> /\ Lookup(conf[d]) # "malformed"
        BY <2>1, <3>1
      <4>4. d \notin excused /\ d \notin excused' => Fits(d)'
        BY <1>0, <2>1, <4>1, <4>3, FitsUnwatched DEF Accounted, Busy
      <4> QED
        BY <1>0, <4>2, <4>3, <4>4, AccountedFor
    <3>2. CASE d # e
      <4>1. watch'[d] = watch[d] /\ baseline'[d] = baseline[d] /\ todo'[d] = todo[d]
        BY <2>1, <3>2 DEF FTypes, WatchersTypeOK
      <4> QED
        BY <1>0, <2>1, <4>1, AccountedAlone DEF Busy
    <3> QED
      BY <3>1, <3>2
  <2> QED
    BY <1>1, <2>1, <2>3 DEF CInv
<1>5. CASE Restart
  <2>1. /\ \A d \in Devices : watch'[d] = "none" /\ todo'[d] = <<>>
        /\ report' = None /\ excused' = excused \cup CutShort /\ UNCHANGED <<conf, disk, declared>>
    BY <1>5 DEF Restart, StartAgain
  <2>2. ASSUME NEW d \in Devices PROVE Accounted(d)'
    <3>1. Ordinary(d)'
      BY <1>0, <2>1, OrdinaryAlone DEF Accounted
    <3>2. d \notin excused' =>
            d \notin excused /\ d \notin unread /\ todo[d] = <<>> /\ Lookup(conf[d]) # "malformed" /\ ~Busy(d)
      BY <2>1 DEF CutShort, Busy
    <3>3. d \notin excused /\ d \notin excused' => Fits(d)'
      BY <1>0, <2>1, <3>2, FitsUnwatched DEF Accounted
    <3> QED
      BY <1>0, <3>1, <3>2, <3>3, AccountedFor
  <2> QED
    BY <1>1, <2>1, <2>2 DEF CInv
<1>6. CASE Stamp
  <2> DEFINE call == Head(calls)
             luks == call.path \in Luks
             left == LibraryCalls(call.intent, disk[call.path], luks)
  <2>0. luks \in Locks(call.path)
    BY LockTypes
  <2>1. /\ calls # <<>> /\ report = None /\ calls' = Tail(calls) /\ stamped' = stamped \cup {call.path}
        /\ report' = [path |-> call.path, left |-> left]
        /\ UNCHANGED <<watch, conf, disk, baseline, todo, unread, declared, excused>>
    BY <1>6 DEF Stamp, watcherVars, deviceState, watcherState, history
  <2>2. call \in AuthorisedCalls /\ calls \in Seq(AuthorisedCalls)
    BY <2>1 DEF FTypes
  <2>3. call.path \in Devices /\ call.intent \in Intents(call.path)
    BY <2>2 DEF AuthorisedCalls
  <2>4. disk[call.path] \in Disks(call.path)
    BY <2>3 DEF FTypes, DeviceTypes
  <2>5. /\ calls[1] = call /\ Len(calls) \in Nat \ {0} /\ DOMAIN calls = 1 .. Len(calls)
        /\ DOMAIN Tail(calls) = 1 .. Len(calls) - 1
        /\ \A i \in 1 .. Len(calls) - 1 : Tail(calls)[i] = calls[i + 1]
    BY <2>1, <2>2
  <2> HIDE DEF call, luks
  <2>6. AreCalls(call.path, left) /\ \A i \in DOMAIN left : left[i].op = "add_mount" => left[i].entry.disk = disk[call.path]
    BY <2>0, <2>3, <2>4, LibraryCallTypes, LibraryCallsNow
  <2> HIDE DEF left
  <2>7. report' # None
    BY <2>1, <2>3, <2>6, ReportApart
  <2>8. ReportsNow'
    BY <2>1, <2>6 DEF ReportsNow
  <2>9. ASSUME NEW d \in Devices, Busy(d) PROVE Busy(d)'
    <3>1. PICK i \in DOMAIN calls : calls[i].path = d
      BY <2>1, <2>9 DEF Busy
    <3>2. CASE i = 1
      BY <2>1, <2>5, <2>7, <3>1, <3>2 DEF Busy
    <3>3. CASE i # 1
      <4>1. i - 1 \in 1 .. Len(calls) - 1 /\ Tail(calls)[i - 1] = calls[i]
        BY <2>5, <3>3
      <4> QED
        BY <2>1, <2>5, <3>1, <4>1 DEF Busy
    <3> QED
      BY <3>2, <3>3
  <2>10. ASSUME NEW d \in Devices PROVE Accounted(d)'
    BY <1>0, <2>1, <2>9, AccountedAlone
  <2> QED
    BY <2>8, <2>10 DEF CInv
<1>7. CASE Declare
  <2>0. PICK e \in Devices : \E left : report = [path |-> e, left |-> left] /\ AreCalls(e, left)
    BY <1>7 DEF Declare, FTypes
  <2>1. PICK left : report = [path |-> e, left |-> left] /\ AreCalls(e, left)
    BY <2>0
  <2> DEFINE call == Head(left)
  <2>2. /\ Commit(call) /\ report.left = left /\ report.path = e /\ report # None /\ Excuse({e} \ stamped)
        /\ report' = None \/ (Len(left) # 1 /\ report' = [path |-> e, left |-> Tail(left)])
        /\ UNCHANGED <<watch, disk, baseline, todo, stamped, calls>>
    BY <1>7, <2>1 DEF Declare, Commit, Remaining, watcherVars, watcherState
  <2>3. e \in Devices
    BY DEF FTypes
  <2>4. /\ IsCall(e, call) /\ DOMAIN left # {} /\ call = left[1] /\ 1 \in DOMAIN left
        /\ Len(left) # 1 => DOMAIN Tail(left) = {1} /\ 2 \in DOMAIN left /\ Tail(left)[1] = left[2]
    <3>1. CASE \E x : left = <<x>> /\ IsCall(e, x)
      BY <3>1
    <3>2. CASE \E x, y : left = <<x, y>> /\ IsCall(e, x) /\ IsCall(e, y)
      <4>1. PICK x, y : left = <<x, y>> /\ IsCall(e, x) /\ IsCall(e, y)
        BY <3>2
      <4>2. 1 .. 2 = {1, 2}
        OBVIOUS
      <4>3. /\ Head(left) = x /\ Tail(left) = <<y>> /\ DOMAIN left = {1, 2}
            /\ left[1] = x /\ left[2] = y /\ DOMAIN <<y>> = {1} /\ <<y>>[1] = y
        BY <4>1, <4>2
      <4> QED
        BY <4>1, <4>3
    <3> QED
      BY <2>1, <3>1, <3>2 DEF AreCalls
  <2>5. \A i \in DOMAIN left : left[i].op = "add_mount" => left[i].entry.disk = disk[e]
    BY <1>0, <2>2 DEF ReportsNow
  <2> HIDE DEF call
  <2>6. ReportsNow'
    <3>1. CASE report' = None
      BY <3>1 DEF ReportsNow
    <3>2. CASE Len(left) # 1 /\ report' = [path |-> e, left |-> Tail(left)]
      <4>1. report'.path = e /\ report'.left = Tail(left)
        BY <3>2
      <4>2. \A i \in DOMAIN Tail(left) : Tail(left)[i] = left[2]
        BY <2>4, <3>2
      <4> QED
        BY <2>2, <2>4, <2>5, <3>2, <4>1, <4>2 DEF ReportsNow
    <3> QED
      BY <2>2, <3>1, <3>2
  <2>7. ASSUME NEW d \in Devices PROVE Accounted(d)'
    <3>1. CASE d = e
      BY <1>0, <2>0, <2>2, <2>4, <2>5, <3>1, AccountedAtDeclare
    <3>2. CASE d # e
      <4>1. Busy(d) => Busy(d)'
        BY <2>2, <3>2 DEF Busy
      <4> QED
        BY <1>0, <2>2, <2>3, <2>4, <3>2, <4>1, AccountedThroughRebuild
    <3> QED
      BY <3>1, <3>2
  <2> QED
    BY <2>6, <2>7 DEF CInv
<1>8. CASE DeclareFails
  <2>1. /\ report' = None /\ excused' = excused \cup {report.path}
        /\ UNCHANGED <<watch, conf, disk, baseline, todo, unread, declared, calls, stamped>>
    BY <1>8 DEF DeclareFails, Fault, watcherVars, deviceState, watcherState
  <2>2. ASSUME NEW d \in Devices PROVE Accounted(d)'
    <3>1. CASE d = report.path
      <4>1. Ordinary(d)' /\ d \in excused'
        BY <1>0, <2>1, <3>1, OrdinaryAlone DEF Accounted
      <4> QED
        BY <4>1 DEF Accounted
    <3>2. CASE d # report.path
      <4>1. Busy(d) => Busy(d)'
        BY <2>1, <3>2 DEF Busy
      <4> QED
        BY <1>0, <2>1, <4>1, AccountedAlone
    <3> QED
      BY <3>1, <3>2
  <2> QED
    BY <1>1, <2>1, <2>2 DEF CInv

<1>9. ASSUME NEW e \in Devices, FirstRead(e) PROVE CInv'
  <2>1. /\ watch' = [watch EXCEPT ![e] = "running"] /\ unread' = unread \ {e}
        /\ \A d \in Devices : d # e => todo'[d] = todo[d]
        /\ excused \subseteq excused'
        /\ UNCHANGED <<conf, disk, baseline, stamped, calls, report, declared>>
    BY <1>9 DEF FirstRead, monitorState, FTypes
  <2>2. ASSUME NEW d \in Devices PROVE Accounted(d)'
    <3>1. CASE d = e
      BY <1>0, <1>9, <3>1, AccountedAtFirstRead
    <3>2. CASE d # e
      <4>1. watch'[d] = watch[d] /\ todo'[d] = todo[d] /\ (Busy(d) => Busy(d)')
        BY <2>1, <3>2 DEF FTypes, WatchersTypeOK, Busy
      <4> QED
        BY <1>0, <2>1, <3>2, <4>1, AccountedAlone
    <3> QED
      BY <3>1, <3>2
  <2> QED
    BY <1>1, <2>1, <2>2 DEF CInv
<1>10. ASSUME NEW e \in Devices, Read(e) \/ Gather(e) PROVE CInv'
  <2>1. /\ \A d \in Devices : d # e =>
             todo'[d] = todo[d] /\ baseline'[d] = baseline[d] /\ (d \in unread' <=> d \in unread)
        /\ UNCHANGED <<watch, conf, disk, stamped, calls, report, declared>>
    BY <1>10 DEF Read, Gather, watcherVars, deviceState, monitorState, FTypes
  <2>2. ASSUME NEW d \in Devices, d # e PROVE d \notin excused' => d \notin excused \/ InStep(d)'
    BY <1>10, <2>2 DEF Read, Gather, Excuse
  <2>3. ASSUME NEW d \in Devices PROVE Accounted(d)'
    <3>1. CASE d = e
      BY <1>0, <1>10, <3>1, AccountedAtRead, AccountedAtGather
    <3>2. CASE d # e
      <4>1. Busy(d) => Busy(d)'
        BY <2>1 DEF Busy
      <4> QED
        BY <1>0, <2>1, <2>2, <3>2, <4>1, AccountedAlone
    <3> QED
      BY <3>1, <3>2
  <2> QED
    BY <1>1, <2>1, <2>3 DEF CInv
<1>11. ASSUME NEW e \in Devices, Report(e) PROVE CInv'
  <2> DEFINE call == Head(todo[e])
  <2>1. /\ todo[e] # <<>> /\ call.op # "gather" /\ Commit(call) /\ disk' = disk /\ Excuse({})
        /\ \A d \in Devices : d # e => todo'[d] = todo[d]
        /\ UNCHANGED <<watch, baseline, stamped, calls, report>>
    BY <1>11 DEF Report, Commit, Working, watcherVars, monitorState, FTypes
  <2>2. IsCall(e, call)
    BY <2>1, StepTaken DEF FTypes, DeviceTypes, IsStep
  <2> HIDE DEF call
  <2>3. ASSUME NEW d \in Devices PROVE Accounted(d)'
    <3>1. CASE d = e
      BY <1>0, <1>11, <3>1, AccountedAtReport
    <3>2. CASE d # e
      <4>1. Busy(d) => Busy(d)'
        BY <2>1 DEF Busy
      <4> QED
        BY <1>0, <2>1, <2>2, <3>2, <4>1, AccountedThroughRebuild
    <3> QED
      BY <3>1, <3>2
  <2> QED
    BY <1>1, <2>1, <2>3 DEF CInv
<1>12. ASSUME NEW e \in Devices, ReportFails(e) \/ WatchFails(e) PROVE CInv'
  <2>1. /\ \A d \in Devices : d # e => watch'[d] = watch[d] /\ todo'[d] = todo[d] /\ baseline'[d] = baseline[d]
        /\ excused' = excused \cup {e}
        /\ UNCHANGED <<conf, disk, unread, stamped, calls, report, declared>>
    BY <1>12 DEF ReportFails, WatchFails, End, Fault, watcherVars, deviceState, monitorState, FTypes, WatchersTypeOK
  <2>2. Ordinary(e)'
    <3>1. CASE ReportFails(e)
      <4> DEFINE s == todo[e]
                 k == disk[e]
                 info == baseline[e]
      <4>1. /\ s # <<>> /\ Head(s).op # "gather" /\ todo'[e] = Tail(s) /\ baseline' = baseline /\ watch[e] = "running"
        BY <3>1 DEF ReportFails, Working, FTypes
      <4>2. /\ k \in Disks(e) /\ AreSteps(e, s) /\ Shape(k, info, s)
            /\ e \in unread \/ Lookup(conf[e]) = "malformed" \/ Alike(Value(conf[e], k), HeadsFor(k, info, s))
        BY <1>0, <4>1 DEF FTypes, DeviceTypes, Accounted, Ordinary, Informed, Heading, HeadsFor
      <4> HIDE DEF s, k, info
      <4>3. Shape(k, info, Tail(s)) /\ HeadsFor(k, info, Tail(s)) = HeadsFor(k, info, s)
        BY <4>1, <4>2, TakenShape DEF s
      <4>4. /\ Shape(disk[e], baseline'[e], todo'[e])
            /\ e \in unread' \/ Lookup(conf[e]) = "malformed"
                 \/ Alike(Value(conf[e], disk[e]), HeadsFor(disk[e], baseline'[e], todo'[e]))
        BY <2>1, <4>1, <4>2, <4>3 DEF s, k, info
      <4> QED
        BY <1>0, <2>1, <4>4, OrdinaryMoved DEF Accounted
    <3>2. CASE WatchFails(e)
      <4>1. watch'[e] # "running" /\ todo'[e] = <<>>
        BY <3>2 DEF WatchFails, End, FTypes, WatchersTypeOK
      <4> QED
        BY <1>0, <2>1, <4>1, OrdinaryAlone DEF Accounted
    <3> QED
      BY <1>12, <3>1, <3>2
  <2>3. ASSUME NEW d \in Devices PROVE Accounted(d)'
    <3>1. CASE d = e
      BY <2>1, <2>2, <3>1 DEF Accounted
    <3>2. CASE d # e
      <4>1. Busy(d) => Busy(d)'
        BY <2>1 DEF Busy
      <4> QED
        BY <1>0, <2>1, <3>2, <4>1, AccountedAlone
    <3> QED
      BY <3>1, <3>2
  <2> QED
    BY <1>1, <2>1, <2>3 DEF CInv
<1>13. ASSUME NEW e \in Devices, Expire(e) PROVE CInv'
  <2>1. /\ stamped' = stamped \ {e} /\ Excuse(unread \cap {e})
        /\ UNCHANGED <<watch, conf, disk, baseline, todo, unread, calls, report, declared>>
    BY <1>13 DEF Expire, watcherVars, deviceState, watcherState
  <2>2. ASSUME NEW d \in Devices PROVE Accounted(d)'
    <3>1. CASE d # e \/ d \notin unread
      <4>1. d \notin excused' => d \notin excused \/ InStep(d)'
        BY <2>1 DEF Excuse
      <4>2. d \in unread \cap stamped => d \in stamped'
        BY <2>1, <3>1
      <4> QED
        BY <1>0, <2>1, <4>1, <4>2, AccountedAlone DEF Busy
    <3>2. CASE d = e /\ d \in unread
      <4>1. Ordinary(d)'
        BY <1>0, <2>1, OrdinaryAlone DEF Accounted
      <4>2. d \notin excused' => InStep(d)'
        BY <2>1, <3>2 DEF Excuse
      <4>3. d \notin excused' => Fits(d)'
        BY <1>0, <4>1, <4>2, InStepFits
      <4> QED
        BY <4>1, <4>3 DEF Accounted
    <3> QED
      BY <3>1, <3>2
  <2> QED
    BY <1>1, <2>1, <2>2 DEF CInv
<1>18. ASSUME NEW e \in Devices, Come(e) PROVE CInv'
  <2>1. UNCHANGED <<watch, conf, disk, baseline, todo, unread, calls, report, stamped, declared, excused>>
    BY <1>18 DEF Come, Plug, Unplug, deviceState, watcherState, monitorState, history
  <2>2. ASSUME NEW d \in Devices PROVE Accounted(d)'
    BY <1>0, <2>1, AccountedAlone DEF Busy
  <2> QED
    BY <1>1, <2>1, <2>2 DEF CInv
<1>14. ASSUME NEW e \in Devices, NEW c, Changes(e, c), Accounted(e)', ReportsNow', excused \subseteq excused',
              \A d \in Devices : d # e => disk'[d] = disk[d],
              calls' = calls \/ \E i : calls' = Append(calls, [path |-> e, intent |-> i])
       PROVE  CInv'
  <2>1. /\ unread' = unread \cup {e} /\ \A d \in Devices : d # e => conf'[d] = conf[d]
        /\ UNCHANGED <<watch, baseline, todo, declared, report, stamped>>
    BY <1>14 DEF Changes, watcherVars, watcherState, FTypes
  <2>2. ASSUME NEW d \in Devices PROVE Busy(d) => Busy(d)'
    <3>1. CASE calls' = calls
      BY <2>1, <3>1 DEF Busy
    <3>2. CASE \E i : calls' = Append(calls, [path |-> e, intent |-> i])
      <4>1. PICK i : calls' = Append(calls, [path |-> e, intent |-> i])
        BY <3>2
      <4> DEFINE call == [path |-> e, intent |-> i]
      <4> HIDE DEF call
      <4>2. calls \in Seq(AuthorisedCalls)
        BY DEF FTypes
      <4>3. \A j \in DOMAIN calls : j \in DOMAIN Append(calls, call) /\ Append(calls, call)[j] = calls[j]
        BY <4>2
      <4>4. calls' = Append(calls, call)
        BY <4>1 DEF call
      <4> QED
        BY <2>1, <4>3, <4>4 DEF Busy
    <3> QED
      BY <1>14, <3>1, <3>2
  <2>3. ASSUME NEW d \in Devices PROVE Accounted(d)'
    <3>1. CASE d = e
      BY <1>14, <3>1
    <3>2. CASE d # e
      BY <1>0, <1>14, <2>1, <2>2, <3>2, AccountedAlone
    <3> QED
      BY <3>1, <3>2
  <2> QED
    BY <1>14, <2>3 DEF CInv
<1>15. ASSUME NEW e \in Devices, Remake(e) PROVE CInv'
  <2>1. /\ Changes(e, conf[e]) /\ UNCHANGED <<calls, excused>> /\ report' = None
        /\ \A d \in Devices : d # e => disk'[d] = disk[d]
    BY <1>15 DEF Remake, Changes, history, FTypes
  <2>2. ReportsNow'
    BY <2>1 DEF ReportsNow
  <2> QED
    BY <1>0, <1>14, <1>15, <2>1, <2>2, AccountedAtRemake
<1>16. ASSUME NEW e \in Devices, NEW c \in Configurations[e], Edit(e, c) PROVE CInv'
  <2>1. Changes(e, c) /\ UNCHANGED <<calls, disk, report>> /\ excused \subseteq excused'
    BY <1>16 DEF Edit, Changes
  <2> QED
    BY <1>0, <1>1, <1>14, <1>16, <2>1, AccountedAtEdit
<1>17. ASSUME NEW e \in Devices, NEW c \in Configurations[e], Call(e, c) PROVE CInv'
  <2>1. /\ Changes(e, c) /\ UNCHANGED <<disk, report, excused>>
        /\ calls' = calls \/ \E i : calls' = Append(calls, [path |-> e, intent |-> i])
    BY <1>17 DEF Call, Changes
  <2> QED
    BY <1>0, <1>1, <1>14, <1>17, <2>1, AccountedAtCall
<1> QED
  BY <1>2, <1>3, <1>4, <1>5, <1>6, <1>7, <1>8, <1>9, <1>10, <1>11, <1>12, <1>13, <1>15, <1>16, <1>17, <1>18 DEF Next

\* With nothing left to read or to report, being accounted for is agreeing.
LEMMA CInvConverges == FTypes /\ CInv => Converges
<1> SUFFICES ASSUME FTypes, CInv, Quiet, NEW d \in present \ (unread \cup excused),
                    watch[d] = "running", Lookup(conf[d]) # "malformed"
             PROVE  Agrees(d)
  BY DEF Converges
<1> DEFINE c == conf[d]
           k == disk[d]
           value == Value(c, k)
           said == {ItemEntry(c[i]) : i \in FstabPlaces(c)}
           here == UNION {Declares(declared, j) : j \in Disks(d)}
<1>1. d \in Devices
  BY DEF FTypes, WatchersTypeOK
<1>2. calls = <<>> /\ report = None /\ todo[d] = <<>>
  BY <1>1 DEF Quiet
<1>3. Accounted(d) /\ Watched(d) /\ ~Busy(d)
  BY <1>1, <1>2 DEF CInv, Accounted, Fits, Busy
<1>4. /\ Len(c) <= 1 /\ (\A i \in DOMAIN c : c[i].kind = "fstab") /\ c \in Seq(ItemsOf(d)) /\ k \in Disks(d)
  BY <1>1, <1>3 DEF FTypes, DeviceTypes, Accounted, Ordinary, Watched
<1>5. Says(declared, d, value)
  <2>1. Says(declared, d, baseline[d])
    BY <1>2, <1>3, PositionOfNone DEF Watched
  <2>2. Alike(value, baseline[d])
    BY <1>2, <1>3 DEF Accounted, Ordinary, Informed, Heading
  <2> QED
    BY <2>1, <2>2, AlikeSays
<1>6. here = Places(declared, d)
  BY DEF Declares, Places
<1>7. /\ here = {e.mount_point : e \in said}
      /\ \A e \in said :
           /\ declared[e.mount_point].disk = k
           /\ ToSet(declared[e.mount_point].options) = ToSet(OptionList(e.options))
  <2> HIDE DEF c, k, here
  <2>1. CASE c = <<>> /\ value = None
    <3>1. FstabPlaces(c) = {}
      BY <2>1 DEF FstabPlaces
    <3> QED
      BY <1>5, <1>6, <2>1, <3>1 DEF Says
  <2>2. ASSUME NEW item \in ItemsOf(d), c = <<item>>, value = Info(ItemEntry(item), k), value # None,
               FstabPlaces(c) = {1}
        PROVE  /\ here = {e.mount_point : e \in said}
               /\ \A e \in said :
                    /\ declared[e.mount_point].disk = k
                    /\ ToSet(declared[e.mount_point].options) = ToSet(OptionList(e.options))
    <3> DEFINE entry == ItemEntry(item)
    <3>1. said = {entry}
      BY <2>2
    <3>2. value.mount_point = entry.mount_point /\ value.options = entry.options /\ value.disk = k
      BY <2>2 DEF Info
    <3> HIDE DEF entry, said, value
    <3> QED
      BY <1>5, <1>6, <2>2, <3>1, <3>2 DEF Says, Names
  <2> QED
    BY <1>1, <1>4, <2>1, <2>2, OneItemSays DEF c
<1> QED
  BY <1>7 DEF Agrees

\* mod.rs, Coalescing: "the reports always converge on the current configuration". For
\* any plain devices that have their own mount points, one fstab item each at most:
\* whatever was merged, overwritten by a rebuild, read late, called for or taken for an
\* echo of another's, a watcher that has read its last value and a monitor that has no call left
\* agree with /etc/fstab, a device whose last change was cut off, echoed, read or declared
\* after its stamp expired, made unwatched or failed to be reported apart.
THEOREM ReportsConverge == ASSUME NoVolumes, OwnPlaces, ~Spaced, OneItem PROVE Spec => []Converges
<1>1. Init => FTypes /\ RInv /\ CInv
  BY FInitTypes, RInitHolds, CInitHolds
<1>2. (FTypes /\ RInv /\ CInv) /\ [Next]_vars => (FTypes /\ RInv /\ CInv)'
  BY FTypesKept, RInductive, CInductive
<1> QED
  BY <1>1, <1>2, CInvConverges, PTL DEF Spec

================================================================================
