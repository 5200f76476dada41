--------------------------------- MODULE Monitor ---------------------------------
(***************************************************************************)
(* The method-call monitor of the UDisks2 listener (monitor.rs, with       *)
(* pending.rs): the Add-, Remove- and UpdateConfigurationItem calls it     *)
(* sees on the bus, the calls it parks until their reply, and what it      *)
(* declares for those UDisks2 authorised.                                  *)
(*                                                                         *)
(* The bus delivers calls and replies in one order. UDisks2 and its        *)
(* clients are external: a call is authorised or refused, or never         *)
(* answered, and an authorised one changes /etc/fstab. A report is one or  *)
(* two library calls, awaited before the next message is read. (The stamp  *)
(* it leaves in recent.rs is in Fstab, which has the reader of the stamps.) *)
(***************************************************************************)
EXTENDS Naturals, FiniteSets, FstabItems

CONSTANTS
  Calls,       \* calls of UDisks2's clients, numbered in the order the bus delivers them
  Serial,      \* the serial number each call has on its caller's connection
  Requests,    \* what a call may ask: [member, path, items], the items of kind "fstab"
  MountPoints,
  Luks,        \* the paths that are unlocked LUKS devices
  PendingTtl,  \* PENDING_TTL
  MaxPending,  \* MAX_PENDING
  MaxClock     \* bound: ticks of the clock

Serials == {Serial[c] : c \in Calls}

ASSUME MonitorAssumption ==
  /\ Calls \subseteq Nat /\ IsFiniteSet(Calls)
  /\ Serial \in [Calls -> Nat]
  /\ \A r \in Requests : r = [member |-> r.member, path |-> r.path, items |-> r.items]
  /\ MaxPending \in Nat \ {0}
  /\ {PendingTtl, MaxClock} \subseteq Nat

VARIABLES
  request,   \* what each call asks
  answer,    \* what UDisks2 has done with it
  fstab,     \* the entries of /etc/fstab: [path, mount_point, options]
  listening, \* the listener's loop has not ended
  stream,    \* the monitor connection's messages, unread
  pending,   \* PendingCalls: by serial; `call` says which call it was
  clock,
  report,    \* the report under way: its call and the library calls it has left
  declared,  \* the mount points of the NixOS configuration
  reported,  \* history: calls whose report is complete
  lost       \* history: calls forgotten unanswered, or whose report failed

udisks == <<request, answer, fstab>>
vars == <<request, answer, fstab, listening, stream, pending, clock, report, declared, reported, lost>>

TypeOK ==
  /\ request \in [Calls -> Requests \cup {None}]
  /\ answer \in [Calls -> {"unsent", "awaited", "authorised", "refused"}]
  /\ listening \in BOOLEAN
  /\ DOMAIN pending \subseteq Serials
  /\ Cardinality(DOMAIN pending) <= MaxPending
  /\ \A s \in DOMAIN pending :
       /\ pending[s].at <= clock
       /\ pending[s].intent # None
  /\ \A i \in DOMAIN stream : stream[i].type \in {"call", "return", "error"}
  /\ clock \in 0 .. MaxClock
  /\ report = None \/ (report.call \in Calls /\ report.left # <<>>)
  /\ DOMAIN declared = MountPoints
  /\ reported \cap lost = {}

Init ==
  /\ request = [c \in Calls |-> None]
  /\ answer = [c \in Calls |-> "unsent"]
  /\ fstab = {}
  /\ listening = TRUE
  /\ stream = <<>>
  /\ pending = <<>>
  /\ clock = 0
  /\ report = None
  /\ declared = [m \in MountPoints |-> None]
  /\ reported = {}
  /\ lost = {}

IntentOf(r) == Intent(r.member, r.items)

--------------------------------------------------------------------------------
(* UDisks2 and its clients *)

Entry(path, item) == [path |-> path, mount_point |-> item.dir, options |-> item.opts]

\* What an authorised call takes out of /etc/fstab, and what it puts in.
Removes(r) ==
  IF r.member = "AddConfigurationItem" THEN {} ELSE {Entry(r.path, r.items[1])}

Inserts(r) ==
  CASE r.member = "AddConfigurationItem" -> {Entry(r.path, r.items[1])}
    [] r.member = "UpdateConfigurationItem" -> {Entry(r.path, r.items[2])}
    [] OTHER -> {}

\* UDisks2 finds the old item there, and the new one's mount point free.
Applicable(r) ==
  /\ Removes(r) \subseteq fstab
  /\ \A new \in Inserts(r), e \in fstab \ Removes(r) : e.mount_point # new.mount_point

Send(c, r) ==
  /\ answer[c] = "unsent"
  /\ \A b \in Calls : b < c => answer[b] # "unsent"
  /\ request' = [request EXCEPT ![c] = r]
  /\ answer' = [answer EXCEPT ![c] = "awaited"]
  /\ stream' = Append(stream, [type |-> "call", call |-> c])
  /\ UNCHANGED <<fstab, listening, pending, clock, report, declared, reported, lost>>

Reply(c, type, to) ==
  /\ answer[c] = "awaited"
  /\ answer' = [answer EXCEPT ![c] = to]
  /\ stream' = Append(stream, [type |-> type, call |-> c])
  /\ UNCHANGED <<request, listening, pending, clock, report, declared, reported, lost>>

Authorise(c) ==
  /\ Reply(c, "return", "authorised")
  /\ Applicable(request[c])
  /\ fstab' = (fstab \ Removes(request[c])) \cup Inserts(request[c])

Refuse(c) == Reply(c, "error", "refused") /\ UNCHANGED fstab

--------------------------------------------------------------------------------
(* Udisks2MonitorListener::listen: one message at a time, between reports *)

Read(type) ==
  /\ listening /\ report = None
  /\ stream # <<>>
  /\ Head(stream).type = type
  /\ stream' = Tail(stream)
  /\ UNCHANGED <<udisks, listening, clock, declared>>

Waited(s) == clock - pending[s].at

\* Mutant: the cap is looked at after the insertion, with >.
KeepsTooMany(keep) ==
  LET young == {s \in DOMAIN pending : Waited(s) < PendingTtl}
  IN  /\ keep \subseteq young
      /\ Cardinality(keep) = IF Cardinality(young) > MaxPending THEN MaxPending ELSE Cardinality(young)

\* Mutant: max_by_key, the youngest goes.
KeepsOldest(keep) ==
  LET young == {s \in DOMAIN pending : Waited(s) < PendingTtl}
  IN  /\ keep \subseteq young
      /\ Cardinality(keep) = IF Cardinality(young) >= MaxPending THEN MaxPending - 1 ELSE Cardinality(young)
      /\ \A s \in keep, u \in young \ keep : pending[s].at <= pending[u].at

\* PendingCalls::record: which entries stay. The expired go, then the oldest while
\* the map is full.
Keeps(keep) ==
  LET young == {s \in DOMAIN pending : Waited(s) < PendingTtl}
  IN  /\ keep \subseteq young
      /\ Cardinality(keep) = IF Cardinality(young) >= MaxPending THEN MaxPending - 1 ELSE Cardinality(young)
      /\ \A s \in keep, u \in young \ keep : pending[s].at >= pending[u].at

\* A call that asks for something is parked.
Park ==
  /\ Read("call")
  /\ LET c == Head(stream).call
         parked == [call |-> c, path |-> request[c].path, intent |-> IntentOf(request[c]), at |-> clock]
     IN  /\ parked.intent # None
         /\ \E keep \in SUBSET DOMAIN pending :
              /\ Keeps(keep)
              /\ pending' = [s \in keep \cup {Serial[c]} |-> IF s = Serial[c] THEN parked ELSE pending[s]]
              /\ lost' = lost \cup {pending[s].call : s \in DOMAIN pending \ keep}
  /\ UNCHANGED <<report, reported>>

\* Another member, another kind of item, or an update that changes nothing.
Ignore ==
  /\ Read("call")
  /\ IntentOf(request[Head(stream).call]) = None
  /\ UNCHANGED <<pending, report, reported, lost>>

\* report(): a path stands for its disk.
ReportOf(parked) ==
  [call |-> parked.call, left |-> LibraryCalls(parked.intent, parked.path, parked.path \in Luks)]

\* awaiting.take(): the reply's parked call, if there is one.
Take(type) ==
  /\ Read(type)
  /\ pending' = [s \in DOMAIN pending \ {Serial[Head(stream).call]} |-> pending[s]]

Parked == Serial[Head(stream).call] \in DOMAIN pending

\* Mutant: the entry of a reply goes before it is read.
AuthorisedForgotten ==
  /\ Take("return")
  /\ UNCHANGED <<report, reported, lost>>

\* A method_return: the parked call is reported.
Authorised ==
  /\ Take("return")
  /\ report' = IF Parked THEN ReportOf(pending[Serial[Head(stream).call]]) ELSE None
  /\ UNCHANGED <<reported, lost>>

\* Mutant: an error reply is reported like any other.
RefusedReported ==
  /\ Take("error")
  /\ report' = IF Parked THEN ReportOf(pending[Serial[Head(stream).call]]) ELSE None
  /\ UNCHANGED <<reported, lost>>

\* An error reply: the parked call is dropped.
Refused ==
  /\ Take("error")
  /\ UNCHANGED <<report, reported, lost>>

\* One library call of the report commits.
Declare ==
  /\ report # None
  /\ declared' = Applied(declared, Head(report.left))
  /\ IF Len(report.left) = 1
     THEN report' = None /\ reported' = reported \cup {report.call}
     ELSE report' = [report EXCEPT !.left = Tail(@)] /\ UNCHANGED reported
  /\ UNCHANGED <<udisks, listening, stream, pending, clock, lost>>

\* A query of the device or a library call fails: `?` ends the report there.
Fail ==
  /\ report # None
  /\ report' = None
  /\ lost' = lost \cup {report.call}
  /\ UNCHANGED <<udisks, listening, stream, pending, clock, declared, reported>>

\* A message that cannot be read, or the end of the stream: the loop ends, and with it
\* the table of parked calls. Nobody starts the listener again.
StreamEnds ==
  /\ listening /\ report = None
  /\ listening' = FALSE
  /\ pending' = <<>>
  /\ lost' = lost \cup {pending[s].call : s \in DOMAIN pending}
  /\ UNCHANGED <<udisks, stream, clock, report, declared, reported>>

Tick ==
  /\ clock < MaxClock
  /\ clock' = clock + 1
  /\ UNCHANGED <<udisks, listening, stream, pending, report, declared, reported, lost>>

Listen == Park \/ Ignore \/ Authorised \/ Refused \/ Declare \/ Fail

Next ==
  \/ \E c \in Calls : (\E r \in Requests : Send(c, r)) \/ Authorise(c) \/ Refuse(c)
  \/ Listen
  \/ StreamEnds
  \/ Tick

\* The listener's task is polled and a report ends. Nobody has to call or to answer.
Spec == Init /\ [][Next]_vars /\ WF_vars(Listen)

--------------------------------------------------------------------------------
(* Properties *)

\* What a call UDisks2 has not authorised asked for is never acted upon
\* (monitor.rs, "Only authorised calls are acted upon"), and no call is reported twice.
OnlyAuthorisedIsReported ==
  report # None => answer[report.call] = "authorised" /\ report.call \notin reported

\* A list of options and an fstab entry's say the same, spelling and order apart.
SameNames(list, options) == ToSet(list) = ToSet(OptionList(options))

\* The authorised calls the monitor could not see through.
Missed == {c \in lost : answer[c] = "authorised"}

\* With every message read, the configuration declares what the authorised calls made
\* of /etc/fstab, in whatever order they were made, answered and reported.
DeclarationsFollowFstab ==
  stream = <<>> /\ report = None /\ Missed = {} =>
    \A m \in MountPoints :
      IF declared[m] = None THEN \A e \in fstab : e.mount_point # m
      ELSE \E e \in fstab :
             /\ e.mount_point = m /\ e.path = declared[m].disk
             /\ SameNames(declared[m].options, e.options)

\* A parked call is forgotten unanswered only when it is too old, or when there is no
\* room and none was parked before it: nobody else's prompt is sacrificed to it.
EvictsOldest ==
  [][Park => \A s \in DOMAIN pending \ (DOMAIN pending' \cup {Serial[Head(stream).call]}) :
               \/ Waited(s) >= PendingTtl
               \/ /\ Cardinality(DOMAIN pending') = MaxPending
                  /\ \A u \in DOMAIN pending' : pending'[u].at >= pending[s].at]_vars

\* An authorised call that asks for something is reported, or is known to be missed,
\* as long as the listener runs.
AuthorisedIsReported ==
  \A c \in Calls :
    answer[c] = "authorised" /\ IntentOf(request[c]) # None ~> c \in reported \cup lost \/ ~listening

\* What is declared as a LUKS device is not declared as a plain one later on
\* (apply.rs: mapper_device is None "for a plain device").
LuksStaysLuks ==
  [][\A m \in MountPoints :
       /\ None \notin {declared[m], declared'[m]}
       /\ declared[m].disk = declared'[m].disk
       => declared[m].luks = declared'[m].luks]_vars
================================================================================
