# modulix-daemon: a verification project

`modulix-daemon` (package `mx-daemon`) is the privileged D-Bus service of a
NixOS-based desktop. It changes the system's configuration repository on
behalf of clients (`org.modulix.Daemon`), answers a graphical software store
(`org.modulix.Store1`), and listens to two system services, UDisks2 and
hostname1, to carry what users change there into the NixOS configuration.
Every change ends in a `nixos-rebuild` that takes minutes; the writing itself
is done by a library, `modulix-core-utils`, which is not in the repository.

This directory holds TLA+ modules translated from the daemon's Rust sources,
the TLC configurations that check them on small instances, and proofs of the
theorems that hold for every instance. `PROJECT.json` maps each definition to
the lines it models and lists the runs, the hazards, the findings and the
theorems. Paths below are relative to `src/src/`.

## 1. The system

| Component | Source | State | Operations | Modelled in |
|---|---|---|---|---|
| Shutdown drain | `shutdown.rs` | `SHUTTING_DOWN`, `IN_FLIGHT`, `DRAINED` | `enter`, drop of the token, `begin_shutdown`, `wait_drained` | DrainGate, Shutdown |
| Rebuild guard | `rebuild.rs` | `REBUILD_GUARD`, a FIFO mutex | `guard` | Transactions |
| Daemon and its commands | `daemon/mod.rs`, `command/*.rs` | none of their own | polkit check, token, guard, the checks of the command, one or several library transactions, invalidation | Daemon, over Transactions |
| Single-flight cache | `cache/flight.rs` | map from keys to `OnceCell`s with timestamps | `get_or_fetch`, `get_fresh`, `insert`, `clear`, `evict` | FlightCache, Batch, CacheEviction |
| Store listings | `store/mod.rs`, `store/entry.rs` | four page caches, three quick caches of what is installed | searches, alternates, installed and plugin listings | Listing |
| Batched store queries | `store/mod.rs` | two caches filled by hand | `GetAppEnrichment`, `GetPackageLicenses` | Batch |
| Update probing | `store/mod.rs` | one cache | `CheckUpdate`, `ListOutdatedInputs` | FlightCache |
| UDisks2 call monitor | `listener/udisks2/monitor.rs`, `pending.rs` | parked calls by serial | read a call, read a reply, report | Monitor |
| UDisks2 device watchers | `listener/udisks2/mod.rs` | map of tasks; in each the last entry read | spawn, remove, `watch_configuration` | Watchers, Fstab |
| Echo suppression | `listener/udisks2/recent.rs` | stamps by device | `record`, `is_echo` | Fstab |
| Intents and mount data | `intent.rs`, `mount_info.rs`, `apply.rs` | none | pure functions and the library calls | FstabItems |
| hostname1 listener | `listener/hostname1/mod.rs` | none | reactions to calls, one at a time | Transactions, Daemon |
| Start-up, dry run | `main.rs`, `listener/mod.rs`, `dry_run.rs` | how far `main` has come | serve, listen, install handlers, fail | Daemon |
| polkit | `polkit.rs` | none | one question before anything starts | Daemon |
| Package index refresh, errors, D-Bus proxies | `main.rs`, `error.rs`, `proxies.rs` | none of their own | | not modelled (section 8) |

How they interact:

- A command, a monitor report and a watcher report are *transactions*: they
  take an in-flight token (refused once a termination signal came), queue on
  the guard, and run blocking library calls under it. A hostname reaction
  takes neither. A watcher is a task that the listener aborts when its device
  goes away, whatever it awaits.
- A command that succeeds invalidates the store's caches before it releases
  the guard. Nothing else invalidates them.
- UDisks2's clients change `/etc/fstab` through method calls, which the
  monitor sees with their replies, and anyone can change it behind UDisks2's
  back, which the property watchers see. The watchers also see the changes
  the monitor reports; the stamps tell these apart. Every report ends in a
  rebuild that replaces `/etc/fstab`, which the watchers see again.
- systemd starts the daemon again whenever it ends. What the listeners knew was
  in memory, and is read anew from UDisks2.

What is hard in it: the lock-free drain against a notification that cannot be
stored; tasks aborted while a job they cannot cancel runs on; a cache whose
slots outlive their place in the map; two observers of one event on two
connections; a feedback loop through the generated file; values read from a
cache, awaited upon and used later. `PROJECT.json` lists each place with its
line, and the properties that watch it.

## 2. The modules

`DrainGate` — what the drain promises, apart from how: tasks are admitted
while the gate is open, the gate closes for good, and the process ends only
behind a closed gate with nobody inside.

`Shutdown` — `shutdown.rs`, one step per atomic access. `pc` walks a task
through the load, the increment, the second load, its transaction, the
decrement and the notification; `handler` walks the signal task through
subscribe, check and wait; `woken` says whether `notify_waiters` ran since the
handler's `notified()`. All accesses are `SeqCst`, so interleaving is exact.
It EXTENDS nothing of the project and instantiates `DrainGate` with the
refinement mapping closed = SHUTTING_DOWN, admitted = the tasks in their
transaction, exited = the process is gone.

`Transactions` — every transaction of the process. A task goes idle, entered,
queued, executing, leaving, dropping, settled; its library job goes none,
pending, writing, ok or err, independently of the task, because
`spawn_blocking` work survives the task that awaits it. `queue` is the FIFO of
the tokio mutex and `holder` the task its permit is *assigned* to, polled or
not. `AbortQueued`, `AbortAssigned` and `AbortExecuting` are the three awaits
at which `JoinHandle::abort` can take a watcher. `unseen` holds the commands
that have committed, each with the caches of the store that may still hide it.
What decides between its steps in a command is left open here: which caches a
commit puts out of date and a success invalidates, and when a command refuses
(`Reject`).
The drain is used at the grain of `DrainGate`, of which the tokens are shown
to be an implementation.

`Daemon` — the whole privileged interface, superposed on `Transactions`: each
of its actions takes a step of `Transactions`, or leaves its variables alone,
and adds what the sources decide there. `phase` is how far `main` has come;
`StartFails` and `UnhandledSignal` end the process before its handlers are
installed. A call waits for polkit (`stage` "unanswered") before it asks for a
token; `Dispatch` finds it under the guard and says which method it is;
`BeginLifecycle`, `BeginPlugin`, `BeginUpdate`, `BeginHardware` and
`BeginSecureBoot` are the ways past the checks of the ten commands, and
`LookupFails`, `BadMode`, `NotEnrollable` the ways to be turned down. `method`,
`applied` and `failed` are the locals of the call, `firmware` the state Secure
Boot is enrolled into. `Invalidates` is what `Daemon::run` does by the name of
the method, `Affects` what the transactions of that method change: that the two
agree is not assumed anywhere but computed from the two definitions. On a dry
run (`dry`) no command makes a transaction, and no listener starts one.

`CacheEviction`, `FlightCache` — `get_or_fetch`: the look-up in the map, the
peek at the cell, the swap of a stale slot under `Arc::ptr_eq`, the wait for
the `OnceCell`'s permit, the fetch, the eviction. Slots have identities that
are freed when nothing points to them, as an `Arc` is. A fetched value is the
version of the configuration it was read from, so the effect of `clear` can be
stated. A caller may be dropped while it waits or fetches.

`Batch` — the two methods that fill a cache by hand: the ids with no fresh
answer, up to a budget, are fetched a few at a time, inserted one by one when
all have come, and the reply is read back from the cache. `insert` takes the lock
twice, once to store and once to evict, so `Store` and `Evict` are two steps and the
map may be above its cap in between. `missing` and `flying`
are places in the list asked for, the least of them fetched first; `fetched` has
the answers in the order they came, which is the order they are inserted in.

`Listing` — the store's listings over slow page caches (which keep rows
without flags) and quick caches of what the configuration declares, with the
slots of `FlightCache` reduced to who fetches for whom. A command is a `Write`,
which listings find at once, and then `Invalidate` or `RollBack`; `Edit` is
every other change, the first names of a command that fails later among them. `dedup_by_group`, `stamp_installed` and
`build_alt_entries` are operators.

`Ordered` — `InOrder`, the places of a list that a filter keeps, in their order.
`SelectSeq` says the same, but recursively, and the provers cannot see through it.

`FstabItems` — items, intents, option lists and the library calls a report
comes down to, as operators shared by the next three.

`Monitor` — the call monitor: `stream` is its message queue in bus order,
`pending` the table of parked calls with its TTL and cap, `report` the library
calls of the report under way. UDisks2 is external: it authorises, refuses or
never answers, in any order, and an authorised call changes `fstab`. `StreamEnds` is
the end of the loop, by a message that cannot be read (`monitor.rs:127`) or with the
stream: the parked calls are lost, and nobody starts the listener again.

`Watchers` — who is watched: the initial listing, the subscription, the two
signal streams, of which either may be read first, the map of tasks. Devices come
and go at any moment. `astray` (history) has the devices that changed before the
subscription, or again before their last signal was read; `failed` (history) those
whose task has failed since they appeared.

`Fstab` — EXTENDS `Watchers` and adds what each task does (`FirstRead`,
`Read`, `Gather`, `Report`), the monitor reduced to its authorised calls, the
stamps, and `Commit`, which replaces `conf` by what the configuration
generates. `unread` is the one-place buffer of a zbus property stream.
`Restart` ends the daemon at any moment and starts it again: what UDisks2 and
the configuration say stays, everything else is read anew.

`MC*` modules give the constants their values.

## 3. What each run checks

| Run | Configuration | Instance | Questions |
|---|---|---|---|
| `shutdown` | `Shutdown.cfg` | 3 tasks | nothing runs past the drain; the counter is exact; a waiting handler is owed a wake-up; the process ends; the atomics implement `DrainGate` with its fairness |
| `transactions` | `Daemon.cfg` | the daemon from its start: 2 calls of 5 methods and up to 2 names, a watcher, a firmware in Setup Mode, dry or not; SIGTERM, SIGKILL | covered transactions exclude each other and are spared by the exit; the permit is never lost; a success is visible and complete, an error of one transaction is of none; keys are enrolled in Setup Mode only; what is admitted settles; the tokens implement `DrainGate` |
| `transactions_hostname` | `TransactionsHostname.cfg` | a command, a monitor report, a hostname reaction | *violated*: one transaction at a time |
| `transactions_orphan` | `TransactionsOrphan.cfg` | a command, a monitor report, a watcher | *violated*: the exit spares every transaction |
| `flight_cache` | `FlightCache.cfg` | 2 callers, 2 keys, room for 1 entry, 1 commit, 1 tick | single flight; `clear` is a barrier; the soft cap is paid back; calls return |
| `batch` | `Batch.cfg` | 2 calls, 4 ids, 1 without an answer, room for 3, 2 at once, budget 3, 1 fault, 3 ticks | the overshoot of the cap is owed by calls that have yet to evict; replies leave out only what is documented; repeated calls get through a list |
| `listing` | `Listing.cfg` | 2 calls of 8 kinds, 6 items, 1 command that succeeds or is rolled back, 1 edit, 1 fault, 1 tick | flags are recent; an installed variant stands for its group; one row per group, in place; hidden variants are among the alternates |
| `monitor` | `Monitor.cfg` | 3 calls, room for 2, TTL of 2 ticks | only what was authorised is reported, once; what is declared follows `/etc/fstab`; the oldest is evicted; authorised calls are reported or known lost as long as the listener runs |
| `monitor_luks` | `MonitorLuks.cfg` | 2 calls on an unlocked LUKS device | *violated*: a LUKS mount stays one |
| `monitor_serial` | `MonitorSerial.cfg` | 2 callers using one serial | *violated*: only what was authorised is reported |
| `fstab` | `Fstab.cfg` | 2 devices, 3 mount points; 4 events: up to 2 changes, 3 plugs, 1 fault or restart | who is there is watched, whichever stream is read first; everything settles on one configuration; no rebuild for nothing |
| `fstab_twice` | `FstabTwice.cfg` | the same | *violated*: an authorised call is reported once |

Every property of a passing run has a mutant in `PROJECT.json`: a definition
of the model changed the way a bug in that code would change it (a dropped
guard, a forgotten stamp, an off-by-one in an eviction), under which the run
finds the property violated. The mutated operators stand beside the originals
in the modules, each marked `Mutant:`.

The five violated properties are sentences of the sources that the code does
not keep; section 7 explains them.

### Bounds, and why they are enough

- Three tasks in `shutdown`: the smallest number with one dropping the last
  token, one notifying late and one between the two loads. The proofs cover
  any number.
- Two calls and a watcher in `transactions`: one holds, one is assigned and one
  queues behind it; a call of two names can fail with one committed. The five
  methods are one of each shape, of those that install, uninstall, update and
  enrol; two calls may both be to enrol. Reports of the monitor are watchers
  that nobody aborts, and hostname reactions share nothing these properties
  look at. The proofs cover any number of each, every method and every firmware.
- In `flight_cache` two callers are enough for the races of the code, each of
  which is between a caller and the next; a map of one entry makes every
  second key an eviction, and one tick with a TTL of one makes a slot stale.
  Arcs are reused, and there is one more than callers, so one is always free.
- In `batch` lists of one to four ids over a cache of three make both the
  budget and the cap bite, and overlap in one to three ids; two fetches at once
  are answered in either order.
- In `listing` one command and one edit can fall anywhere around two
  overlapping calls; the items have a curated group of two, a pname group
  of two, a module named like a package and a plugin. One call makes two of
  the eight requests, the other any.
- In `monitor` three calls fill a table of two, and two ticks separate
  "young", "old" and "expired".
- In `fstab` two changes and three plugs let a change be merged with, overtaken
  by or undone by another, on a device that comes and goes; three plugs are a
  device that goes and comes with both signals unread and goes once more, so that
  its map is wrong and set right again. The second device exists to rebuild, and so
  to relink the first one's entry. `MaxFaults = 1`: each failing step, or a restart
  at any moment, alone. `MaxEvents = 4` bounds their sum (1.5 million states; with
  each bound met at once the instance is too large). The proofs have no bounds.

Bounds are constants with `Max` in their name, and stand in the guards of the
actions that would go on for ever. The tasks and calls of a run
are made once each: a client that calls again is another call.
The runs say `CHECK_DEADLOCK FALSE` because the systems stop: a process exits,
or the bounded changes are used up.

### Fairness

Only what the runtime or an external party owes is fair.

- `Shutdown`, `Transactions`, `Daemon`: a ready task is polled, a blocking pool
  runs its job, and a library transaction ends, as does a plugin's look-up over
  the network (the code sets them no deadline and says so). Requests, aborts and
  signals need not come, polkit need not answer, and `main` need not get
  anywhere. The permit of the guard is FIFO by construction, so weak fairness is
  enough. `Overdue` and the signals without a handler are excused by name: the
  liveness properties end with the process.
- `FlightCache`: a ready caller is polled and a fetch ends. Taking the permit
  of a `OnceCell` is strongly fair: its semaphore is FIFO, which the model does
  not keep track of.
- `Monitor`: weak fairness of the listener's task. Nobody has to call or to
  answer, and the stream may end: `AuthorisedIsReported` is a promise of a listener
  that runs.
- The other modules state safety and have no fairness.

## 4. What is proved

The proofs are checked by TLAPS for any values of the constants that satisfy
the named assumptions.

**ShutdownProofs** (assumes `TasksAssumption`: finitely many tasks).
`TypeCorrect`, `DrainIsSafe`, `CounterCorrect`, `NoLostWake` and
`ImplementsGateSafely`. The inductive invariant `IInv` adds to the three
checked invariants that the flag is up exactly when the handler is past its
signal. That no task runs past the drain is not inductive alone: it needs the
counter to be exact when the handler reads zero, and needs the flag for the
tasks that are still between the two loads. The lemmas `HoldersKept`,
`HolderAdded` and `HolderRemoved` carry the cardinality argument. The
refinement follows step by step: the second load is the admission, the drop
is the departure, and the exit is allowed because nobody runs.

**DaemonProofs** (assumes `TasksAssumption`: the kinds of callers are disjoint
and `Nobody` is none of them; and `DaemonAssumption`: the methods called are among
the ten, the firmware starts in one of its states). First the transactions:
`TypeCorrect`, `CoveredTransactionsExclude`, `ExitSparesCoveredTransactions`,
`GuardNeverLost` and `CallersKeepTheGate`. Exclusion needs that whoever writes is
executing, that whoever executes holds the permit, and that the permit is one;
that last part is `GuardIsAccountedFor` with the queue free of repetitions and of
the holder. The queue arguments use lemmas about `RemoveAt` and `Tail`.
`CallersKeepTheGate` and `ImplementsGateSafely` compose: Shutdown implements
the gate, and the transactions use it by its rules.

`DaemonRunsTransactions` is the superposition: each step of `Daemon` is one of
`Transactions` or none of its business (`StepRefines`), so that the theorems
above hold of the daemon, as `DaemonKeepsTransactionsApart` restates for two of
them. `DaemonTypeCorrect`, `EnrolsInSetupMode`, `ReplyIsTrue` and
`SuccessIsVisible` come from the inductive invariant `DInv`, which adds to `IInv`:

- `CallInv`, `CountInv`: where a call stands, its job, its method and its reply
  agree, and committed, running and outstanding transactions are at most those
  it was given; outside a list of modules there is one at most. No step touches
  another call (`CallsAreApart`), so each is shown of the call that moves.
- `ReadyToEnrol`: a call that has passed `require_enrollable` and not made its
  transaction finds the firmware as it was. This is where the guard counts: only
  a job changes the firmware, a job is of a call that executes, which holds the
  guard, and so does the call that has checked (`PermitIsHeld`).
- `HiddenIsKnown`: what a call has hidden is of its method while it executes, and
  of a failed call afterwards. Its success then clears exactly that.

**FlightCacheProofs** (assumes `CacheAssumption`: the keys, the callers and the
Arcs of a key are finite, there are more Arcs than callers, `None` is none of
the values). `TypeCorrect`, `SingleFlight`, `ClearBarrier` and `CapPaidBack`, for
any number of keys, callers, commits and ticks, in four layers:

- `SlotsInv`: a caller past its look-up has a slot of its own key, resolved
  where `get_or_fetch` relies on its value; what is in the map is under its own
  key; a slot no Arc points to is empty. There is always an Arc to make
  (`SpareIsFree`, the pigeonhole principle), so the bound on `Arcs` never blocks
  a caller.
- `FlightsInv`: a slot has one driver and stays unresolved while it is driven;
  as long as it is, its waiters find it in the map or marked by `clear()`.
- `AgesInv`: what the map has is no older than the last `clear()`, what a caller
  has no older than the last one before its call, and neither is what the fetch
  of its slot will bring. The last part makes the others inductive: the value
  arrives after the checks were made.
- `RoomInv`: the resolved entries exceed the capacity by no more than the callers
  that still owe their `evict()`. A fetch that ends adds one to both sides, an
  eviction takes one from both or is within the capacity. `CapIsPaidBack` follows
  by counting: every other entry is abandoned, or has a waiter of its own that
  has not come to its eviction.

**FstabProofs** (assumes `WatchersAssumption`: the devices are a finite set;
`FstabAssumption`: configurations are lists of items over the mount points, none
unreadable at the start; and `NoneAssumption`: `None` is no entry, no intent, no
declaration and no report). Four arguments about the whole loop of `Fstab`, for any devices,
mount points and configurations, any number of plugs, edits, calls, faults and
restarts:

- `WInv`, for `WatchedArePresent`: `LoopStepsWatchers` shows that the loop acts on
  the map by the steps of `Watchers` only. `WatchedIsPresent` speaks of the moments
  when every signal has been read; `WInv` says how far the map may be from the
  devices in between: a device that is not astray has one unread signal at most,
  which says what has become of it (`OneSignal`), and the map is in step with it,
  or that signal away (`Follows`). It has no hypothesis. Devices may change with
  signals unread (`TellsOfOne`): such a one is astray, and no longer when it next
  changes with nothing of it unread, whatever the map had been left at.
- `FTypes`, for `LoopTypes`: the steps a watcher has left, the calls of an intent
  and the report under way are each about a mount point that fstab may give their
  device (`Dirs`), and so is what is declared of its disks.
- `RInv`, for `NoReportIsForNothing` and `LastValueIsDeclared`: a device that is not
  irregular has no stamp, no call and no monitor report (`Apart`), and its watcher is
  at one of four places: at rest, with its baseline declared; removing the one
  place that is declared; asking what is there now; or adding what is not declared
  as it should be (`AtRest`, `Removing`, `Asking`, `Adding`). In each the steps left
  lead to the last value it has read (`Informed`). Unwatched, what is declared is
  what its value says, so that the next watcher starts in step. A rebuild for
  another device relinks the entry of this one, and `RelinkedSays` shows that the
  new value says the same, if not in the same order.

- `CInv`, for `ReportsConverge`: of the devices about which the monitor and the
  watcher both report. A library call of the monitor may be made at any moment of
  the watcher's work, so `CInv` does not say which speaks last, but what each step
  leaves. `Shape` lists the steps a watcher can have left, and `Position` what may
  be declared at each of them for the rest to lead to the baseline. A watched device
  is at such a position; or has an unread value that is stamped, which will be
  trusted; or is `Busy`, with a call or a report about it still to come, and then
  only its current disk is declared, for the calls of a report settle what they are
  about (`Watched`). Unwatched, its entry is the rebuild's own (`Relinked`), or what
  is declared is what its value says, or it is busy (`Unwatched`). A device that
  `Fstab` excuses is only `Ordinary`, and must be in step again to lose the excuse.
  That a commit puts a position in order, whatever position it was, is
  `CommitPlaces`; what a read and a gather make of one, `ReadPosition` and
  `GatherPosition`.

The last three theorems assume `NoVolumes`, that no device is an unlocked LUKS
volume: an options change declares such a volume again as a plain device (section
7), and the entry the next rebuild generates names the locked container, which is
not what UDisks2 finds for the volume (`Listed`). They assume `OwnPlaces`, that fstab never gives two devices one
mount point, for a report is keyed by mount point alone; and `~Spaced`, that no
option has white space around it, for `same_options` does not trim what
`option_list` does, so that it would take such options for new ones. A field of
fstab ends at white space. `ReportsConverge` also assumes `OneItem`, that whoever edits
fstab leaves a device one item at most, and an fstab one (a rebuild may leave
several). Without either half TLC finds `Converges` violated within five steps: of
several fstab items a watcher reads the first, and in that a device can be in step
with others undeclared; and a call that makes an fstab item one of another kind has
no intent, so that before the watcher's baseline nobody reports that the mount point
is gone. All four hypotheses hold in the run `fstab`.

**MonitorProofs** (assumes `MonitorAssumption`). Three invariants, one on top of
the other, for any clients, requests, TTL and capacity:

- `MInv`, for `OnlyTheAuthorised`: a reply in the stream is the only one of its
  call and tells what UDisks2 did (`RepliesAreTrue`); a call is parked under its
  serial (`ParkedBySerial`), so with distinct serials a reply takes out its own
  call; what is or was reported has had its reply read (`TakenWasRead`), so it is
  not reported again.
- `FInv`, for `TableStaysSmall` and `OldestGoes`: a call is in one place
  at most: unread, parked, being reported, reported or lost (`Fate`); what is parked
  when the stream ends is lost. The table is a function
  on serials, so its size is counted by the serials that go and come (`Keeps`),
  and what an eviction takes is the one with the least time.
- `GInv`, for `DeclaredIsMounted`: at a mount point no unread success is about,
  the report under way leads to what `/etc/fstab` has (`BehindByReport`), or it is
  declared already; at one that some are about, the last of them leads there
  (`LastReturnTells`). It rests on a fact about the pure functions
  (`RequestsDo`, `CallsFollowFstab`, `CallsApart`): the library calls of an
  intent leave declared at its mount points what the request leaves in
  `/etc/fstab`, and touch no other; and `Names` of two option lists that
  `same_options` finds the same are the same (`SameOptionsSameNames`), which is
  why an update without an intent leaves nothing behind.

Its hypotheses: `DistinctSerials`, that no two calls have one serial, which the code takes
for granted and D-Bus gives per connection only (`monitor_serial` shows what it is
for; `TableStaysSmall` needs none of these); `RequestsComplete`, that a request has both details of its items,
for UDisks2 refuses others and the code finds no intent in them;
and `NoneIsNothing`, that `None` is told from an entry.

**BatchProofs** (assumes
`BatchAssumption`). `RepliesAreComplete`, for any calls,
lists, limits, budgets and capacities. `BInv`: for a call since whose start
nothing was lost from the cache, every id it has promised an answer for is fresh
there, or is missing, flying or fetched (`PromiseKept`); without a fault every
answer is right (`Truthful`). When it replies the last three are empty. An
insertion only adds (`Store`), and if an eviction drops nothing everything there is
fresh; `BatchAssumption` has the TTL above zero, so that an answer is fresh when it
is inserted. `QueriesKeepToLimits` counts: `SInv` adds the sizes of what flies and
of what is left to fetch. `OvershootIsOwed` counts the cache: an insertion adds one
entry and one call that owes an eviction, and an eviction takes one of each or finds
the cache within its capacity.
`RepeatingGetsThrough` adds `Planned`, what a call promised when it began: its whole
list, or a budget more than was known. It assumes `ListsAreSets`, that a list names
no id twice: the code spends its budget on places of the list, and a list that
repeats an id spends it on the repetitions.

**ListingProofs** (assumes `ListingAssumption`; about the library's index it says
that a search of packages finds packages, a search of modules modules, none twice,
and that every package has a name). For any calls, requests, caches, commands,
edits and faults:

- `ShapesInv`: what each call is about, and that the rows of its page are of the
  kind which the quick cache they are stamped from lists.
- `SlotsInv`, for `ListingTypes`: a slot that is filling has one filler, and
  nobody holds an empty one.
- `FlagsInv`, for `FlagsRecent`: what a mapped slot has, and what its filler has
  read so far, is what the configuration declares, but for what has changed since
  (`MappedIsRecent`, `MappedReadsAreRecent`); what a call holds, which an
  invalidation may have taken out of the map, is so but for the items the call may
  tell either way (`HeldIsRecent`, `HeldReadsAreRecent`). The second part is what
  makes the first inductive: a value arrives after its parts were read.

`InstalledStandsForGroup` and `GroupsAreShownOnce` are about `DedupByGroup`:
`LeadOfGroup` and `DedupedRows` say which rows it returns and in what order, for
any rows, and the first invariants that a reply is what it makes of its page.

`HiddenVariantsAreFound` takes a fourth invariant and a hypothesis. `FoundInv`: a page
is what its request finds, also when it was kept for another call, unless a look-up
failed, and the reply with alternates is that page stamped. What a call was given
short is remembered by the call (`short`): the page may have been fetched again, whole,
since. `IndexAgrees` is what the code takes for granted of the index, and what no step
of it could make true: a package without an app id that a search finds is in a group whose name
is nobody's app id, and is either alone there or found by the search
for the group as well, within `MAX_VARIANT_SEARCH`. The items of the run are such.

**OrderedProofs**: the lemmas about `InOrder` and `SetToSeq` these need. That a
finite set of numbers can be listed in order is proved by counting: the rank of an
element among the set is a bijection, whose inverse is such a list.

Each inductive invariant was checked with TLC on an instance of its run before
it was proved, and the runs check the same definitions the theorems name.

Only model-checked:

- liveness under fairness, which TLAPS 1.4.5 cannot prove: `DrainTerminates`, the
  liveness half of `ImplementsGate`, `AdmittedSettles`, `TerminationStops`,
  `CallsReturn`, `AuthorisedIsReported`.

Every invariant of the runs that pass is proved, under the hypotheses named above.

## 5. What the models assume

- **Library transactions.** One starts with its first write and ends by a
  commit or a complete rollback. `Transactions`, `Daemon` and `Listing` let one
  be caught in between; `Fstab` and `Monitor` take one as one step.
- **Secure Boot** (`Daemon`): the rebuild of an enabling call takes the firmware
  out of Setup Mode, or leaves it, whether it commits or fails
  (`command/secure_boot.rs` says an enrolment that fails goes unnoticed). Nothing
  else changes it: a later rebuild of another transaction, with enrolment still
  configured, is taken to find nothing left to enrol.
- **A failed start** (`Daemon`): the runtime that is dropped does not wait for a
  blocking job; it is as if killed.
- **Time** is a counter that ticks at any moment between steps, also while a
  listing of the configuration files is under way.
- **Stamps expire at any moment** (`Fstab`): also before their echo is read, or
  while rebuilds are still to come. What `recent.rs` sizes its window for is not
  assumed; a device whose echo was late is excused, as below.
- **A device changes at rest** (`Fstab`): a file system is made anew only when
  nothing about the old one is on its way (`Remake`).
- **Devices that are astray** (`Watchers`): the two streams are polled in no fixed
  order, so a device that goes and comes back before the first signal is read may
  end up present and unwatched, and one that comes and goes watched and absent,
  although `mod.rs:120-122` says that the presence of the interface is what starts
  and stops its task. The run has these steps. `WatchedIsPresent` leaves out such
  devices, and says that this, and a change between the listing and the
  subscription, is all that can go wrong, and that the next change that comes on
  its own sets the map right.
- **Excused and irregular devices** (`Fstab`): `excused` holds the devices
  whose last change was not reported in a way the code documents (taken for an
  echo, or an echo read or caused after the stamp had expired; made before the
  watcher's baseline, cut by an abort, failed, or lost
  with the memory of a process that ended, or with the task of a device that goes
  away while its value cannot be read: then only the baseline knew what is
  declared; or read from several entries that reports cut short or made twice have
  left). They
  count again once device and configuration are in step. `irregular` holds
  those whose history has more than one voice; only `NoNeedlessRebuild` and the
  theorem `LastValueIsDeclared` leave them out.
- **`either`** (`Listing`): for each call, the items whose flag it may tell
  either way, because they changed during the call, or less than one TTL
  before it and no command has since succeeded. A slot is stamped when its fetch ends
  (`flight.rs:296`), so a change that the fetch had read past counts from there
  (`Overlooked`): without that the run finds `InstalledRepresents` violated.
- **`calm`** (`Batch`): the calls during which nothing expired or was evicted.

## 6. Reading the models against the code

- A handler that awaits is split at the awaits and nowhere else, unless the
  module is about the atomics (`Shutdown`) or a lock is released in between
  (`FlightCache`).
- A data value is as large as the properties need: a disk is a device and a
  file system number; an answer is found or not found; a configuration is the
  set of what it declares.
- History variables are named as such in the VARIABLES and appear in no guard.

## 7. What the checks found

1. `hostname1/mod.rs:147` changes the configuration without the guard and
   without a token. `rebuild.rs` says all transactions of the process take it.
   (`transactions_hostname`)
2. A watcher aborted during its library call gives up guard and token while
   the call runs on, so the drain does not wait for it, although
   `shutdown.rs` says the token is the proof that it still runs.
   (`transactions_orphan`)
3. `report_options_changed` re-declares a LUKS mount as a plain one.
   (`monitor_luks`)
4. Parked calls are keyed by a serial that is unique per sender only.
   (`monitor_serial`)
5. A change that its watcher reads before the monitor gets to its call is
   reported twice, although the stamp is meant to prevent that.
   (`fstab_twice`)

Met while modelling and not given a run of their own: a device that goes and comes
back quickly can be left unwatched (`mod.rs:194`, section 5); `force_refresh` clears
the slot another forced call is filling, so concurrent `CheckUpdate`s each
probe (`store/mod.rs:313`); a pname with a dot in it is taken for an app id
and its hidden variants are not listed (`store/mod.rs:1234`); a reply leaves
out an id that expired between the filter and the read-back
(`store/mod.rs:936`). They are in the hazards.

## 8. What is not modelled, and why

- *Package index refresh*: its concurrency control is inside the library, and
  the timer, SIGHUP and an update only call it.
- *What follows a signal before its handler is there*: `Daemon` has the signal,
  which ends the process; the code promises nothing of that window.
- *The transaction a crash cuts in the middle*: what the next process finds of it
  is for the library. `Fstab!Restart` falls between library calls.
- *The library*: stash, seals, git, rebuild and recovery after a crash are not
  in the repository.
- *Texts of arguments and replies*, `setting.rs` (it writes to the standard
  output and nothing else), errors, D-Bus dictionaries, labels,
  icons, ranks and scores: data that no property tells apart.
- *Waiting times*: that the queue drains within systemd's 30 minutes is a
  matter of durations; the model lets the SIGKILL come at any moment.

## 9. Plan

Done, in this order: the drain and its gate; the transactions; the cache; the
monitor; the watchers and the fstab loop; the batched queries; the listings;
the proofs of `Shutdown`, `Transactions` and `FlightCache`; the privileged
interface as a whole with its start-up (`Daemon`) and its proofs; listings under
a transaction that is rolled back; restarts of the daemon in the fstab loop; proofs
about the map of watchers, the batched replies and the authorised calls; the rest
of the proofs about the monitor, the batched queries, the daemon and the listings;
the types of the fstab loop, and what a watcher that reports alone declares; the
variants that a search hides; that the reports of the watcher and the monitor
together converge.

Next:

1. A device with several fstab entries in `Fstab` beyond the first one read.
2. The order of the alternates, if a property comes to depend on it.
