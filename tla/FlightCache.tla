------------------------------ MODULE FlightCache ------------------------------
(***************************************************************************)
(* src/src/cache/flight.rs under the callers of src/src/store/mod.rs: the  *)
(* cache behind the search, alternates, plugins, installed and             *)
(* outdated-inputs listings.                                               *)
(*                                                                         *)
(* A slot is an Arc<OnceCell>: the map and every caller that looked it up  *)
(* share it, and it outlives its place in the map. The lock on the map is  *)
(* held for one step only, so callers interleave between the look-up, the  *)
(* read of the cell, the swap of a stale slot, the fetch and the eviction. *)
(* The OnceCell (tokio, external) gives one caller at a time the permit to *)
(* resolve a slot, and passes it on when that caller goes away.            *)
(*                                                                         *)
(* What a fetch reads is a version of the configuration, `world`. A commit *)
(* makes a new one and the invalidation that follows clears the cache.     *)
(***************************************************************************)
EXTENDS Naturals, FiniteSets, CacheEviction

CONSTANTS
  Keys,      \* keys of the map
  Plain,     \* calls to the store that take what is cached
  Forced,    \* calls that may pass force_refresh: CheckUpdate, ListOutdatedInputs(true)
  Arcs,      \* identities of the Arcs made for one key, reused once nothing points to them
  None,      \* no slot, no key, unresolved
  Ttl, Cap,  \* FlightCache::new's arguments
  MaxClock,  \* bound: ticks of the clock
  MaxWorld   \* bound: commits

Callers == Plain \cup Forced
Slots == Keys \X Arcs

ASSUME CacheAssumption ==
  /\ IsFiniteSet(Keys) /\ IsFiniteSet(Callers) /\ IsFiniteSet(Arcs)
  /\ None \notin Slots \cup Keys \cup Nat
  /\ {Ttl, Cap, MaxClock, MaxWorld} \subseteq Nat
  /\ Cardinality(Arcs) > Cardinality(Callers)

VARIABLES
  entries,    \* the map
  slot,       \* each slot: its value, when it was resolved, whether clear took it out
  pc,         \* where each caller stands in get_or_fetch
  key, cell,  \* each caller's key, and the slot it looked up
  val,        \* the version of the configuration each caller's own fetch began under
  floor,      \* the version invalidated last when the call began
  clock,
  world,      \* the version of the configuration
  cleared     \* the version at the last clear()

cacheVars == <<entries, slot>>
callVars == <<pc, key, cell, val, floor>>
worldVars == <<clock, world, cleared>>
vars == <<entries, slot, pc, key, cell, val, floor, clock, world, cleared>>

PC == {"idle", "lookup", "peek", "swap", "init", "fetching", "evicting"}

Empty == [value |-> None, at |-> 0, displaced |-> FALSE]

TypeOK ==
  /\ entries \in [Keys -> Slots \cup {None}]
  /\ slot \in [Slots -> [value : 0 .. MaxWorld \cup {None}, at : 0 .. MaxClock, displaced : BOOLEAN]]
  /\ pc \in [Callers -> PC]
  /\ key \in [Callers -> Keys \cup {None}]
  /\ cell \in [Callers -> Slots \cup {None}]
  /\ val \in [Callers -> 0 .. MaxWorld \cup {None}]
  /\ floor \in [Callers -> 0 .. MaxWorld]
  /\ clock \in 0 .. MaxClock
  /\ world \in 0 .. MaxWorld
  /\ cleared \in 0 .. world

Init ==
  /\ entries = [k \in Keys |-> None]
  /\ slot = [s \in Slots |-> Empty]
  /\ pc = [c \in Callers |-> "idle"]
  /\ key = [c \in Callers |-> None]
  /\ cell = [c \in Callers |-> None]
  /\ val = [c \in Callers |-> None]
  /\ floor = [c \in Callers |-> 0]
  /\ clock = 0
  /\ world = 0
  /\ cleared = 0

Goto(c, from, to) ==
  /\ pc[c] = from
  /\ pc' = [pc EXCEPT ![c] = to]

Fresh(s) == clock - slot[s].at < Ttl

Resolved(s) == slot[s].value # None

\* The keys in the map, and those whose slot is not resolved.
Present == {k \in Keys : entries[k] # None}
Pending == {k \in Present : ~Resolved(entries[k])}

\* The slots an Arc points to.
Held(ents, cells) == {ents[k] : k \in Keys} \cup {cells[c] : c \in Callers}

\* Dropping the last Arc to a slot frees it.
Sweep(slots, ents, cells) ==
  [s \in Slots |-> IF s \in Held(ents, cells) THEN slots[s] ELSE Empty]

\* Arc::new(OnceCell::new()) for a key.
Spare(k) == <<k, CHOOSE i \in Arcs : <<k, i>> \notin Held(entries, cell)>>

\* The calls that run their fetch: each has the permit of its slot.
Driving == {c \in Callers : pc[c] = "fetching"}

--------------------------------------------------------------------------------
(* get_or_fetch *)

\* Mutant: only resolved entries go.
ClearResolved ==
  /\ entries' = [k \in Keys |-> IF k \in Pending THEN entries[k] ELSE None]
  /\ slot' = Sweep(slot, entries', cell)
  /\ cleared' = world

\* clear(): every entry goes, the fetches in flight go on.
ClearAll ==
  /\ entries' = [k \in Keys |-> None]
  /\ slot' = Sweep([s \in Slots |-> [slot[s] EXCEPT !.displaced = @ \/ \E k \in Keys : entries[k] = s]],
                   entries', cell)
  /\ cleared' = world

\* A store method calls get_or_fetch.
Call(c, k) ==
  /\ c \in Plain
  /\ Goto(c, "idle", "lookup")
  /\ key' = [key EXCEPT ![c] = k]
  /\ floor' = [floor EXCEPT ![c] = cleared]
  /\ UNCHANGED <<cacheVars, cell, val, worldVars>>

\* outdated_entries(true) clears the cache, then calls get_or_fetch.
CallForced(c, k) ==
  /\ c \in Forced
  /\ ClearAll
  /\ Goto(c, "idle", "lookup")
  /\ key' = [key EXCEPT ![c] = k]
  /\ floor' = [floor EXCEPT ![c] = cleared']
  /\ UNCHANGED <<cell, val, clock, world>>

\* cell_for: the slot of the key, a new one if there is none.
CellFor(c) ==
  /\ Goto(c, "lookup", "peek")
  /\ entries' = IF key[c] \in Present THEN entries ELSE [entries EXCEPT ![key[c]] = Spare(key[c])]
  /\ cell' = [cell EXCEPT ![c] = entries'[key[c]]]
  /\ UNCHANGED <<slot, key, val, floor, worldVars>>

\* cell.get(): wait for an unresolved slot, swap out a stale one.
Peek(c) ==
  /\ \/ /\ Goto(c, "peek", "init")
        /\ ~Resolved(cell[c])
     \/ /\ Goto(c, "peek", "swap")
        /\ Resolved(cell[c])
        /\ ~Fresh(cell[c])
  /\ UNCHANGED <<cacheVars, key, cell, val, floor, worldVars>>

\* The call ends, and its locals with it.
Leave(c, from) ==
  /\ Goto(c, from, "idle")
  /\ key' = [key EXCEPT ![c] = None]
  /\ cell' = [cell EXCEPT ![c] = None]
  /\ val' = [val EXCEPT ![c] = None]
  /\ floor' = [floor EXCEPT ![c] = 0]
  /\ slot' = Sweep(slot, entries', cell')
  /\ UNCHANGED worldVars

\* ... or it is the answer.
Hit(c) ==
  /\ pc[c] = "peek"
  /\ Resolved(cell[c])
  /\ Fresh(cell[c])
  /\ UNCHANGED entries
  /\ Leave(c, "peek")

\* Mutant: no Arc::ptr_eq, the slot in the map is replaced whatever it is.
SwapAnyway(c) ==
  /\ Goto(c, "swap", "lookup")
  /\ entries' = [entries EXCEPT ![key[c]] = Spare(key[c])]
  /\ cell' = [cell EXCEPT ![c] = None]
  /\ slot' = Sweep(slot, entries', cell')
  /\ UNCHANGED <<key, val, floor, worldVars>>

\* Mutant: the stale slot is left in the map.
SwapNothing(c) ==
  /\ Goto(c, "swap", "lookup")
  /\ cell' = [cell EXCEPT ![c] = None]
  /\ UNCHANGED <<cacheVars, key, val, floor, worldVars>>

\* Only the caller that still finds the very same slot in the map replaces it.
Swap(c) ==
  /\ Goto(c, "swap", "lookup")
  /\ entries' = IF entries[key[c]] = cell[c] THEN [entries EXCEPT ![key[c]] = Spare(key[c])] ELSE entries
  /\ cell' = [cell EXCEPT ![c] = None]
  /\ slot' = Sweep(slot, entries', cell')
  /\ UNCHANGED <<key, val, floor, worldVars>>

\* get_or_init with its permit free: this caller runs its own fetch.
Drive(c) ==
  /\ Goto(c, "init", "fetching")
  /\ ~Resolved(cell[c])
  /\ \A d \in Driving : cell[d] # cell[c]
  /\ val' = [val EXCEPT ![c] = world]
  /\ UNCHANGED <<cacheVars, key, cell, floor, worldVars>>

\* get_or_init on a slot another caller has resolved.
Share(c) ==
  /\ Goto(c, "init", "evicting")
  /\ Resolved(cell[c])
  /\ UNCHANGED <<cacheVars, key, cell, val, floor, worldVars>>

\* Mutant: the slot is stamped with its expiry.
ResolveWithDeadline(c) ==
  /\ Goto(c, "fetching", "evicting")
  /\ \E v \in val[c] .. world :
       slot' = [slot EXCEPT ![cell[c]].value = v, ![cell[c]].at = clock + Ttl]
  /\ val' = [val EXCEPT ![c] = None]
  /\ UNCHANGED <<entries, key, cell, floor, worldVars>>

\* The fetch is done: it read the configuration somewhere between its start and
\* now, and the value is stamped now.
Resolve(c) ==
  /\ Goto(c, "fetching", "evicting")
  /\ \E v \in val[c] .. world :
       slot' = [slot EXCEPT ![cell[c]].value = v, ![cell[c]].at = clock]
  /\ val' = [val EXCEPT ![c] = None]
  /\ UNCHANGED <<entries, key, cell, floor, worldVars>>

\* Mutant: the expired go, and nothing else.
EvictExpired(c) ==
  /\ pc[c] = "evicting"
  /\ entries' = [k \in Keys |-> IF k \in Pending \/ (k \in Present /\ Fresh(entries[k]))
                                THEN entries[k] ELSE None]
  /\ Leave(c, "evicting")

\* evict(), then the answer: every caller that went through get_or_init runs it.
Evict(c) ==
  /\ pc[c] = "evicting"
  /\ \E kept \in Evictions(Pending, Present \ Pending, [k \in Present |-> slot[entries[k]].at],
                           clock, Ttl, Cap) :
       entries' = [k \in Keys |-> IF k \in kept THEN entries[k] ELSE None]
  /\ Leave(c, "evicting")

\* The call is dropped, or its fetch panics, at an await: the slot stays as it is
\* and the permit, if it had it, is free again.
Cancel(c) ==
  /\ UNCHANGED entries
  /\ \E from \in {"init", "fetching"} : Leave(c, from)

--------------------------------------------------------------------------------
(* The rest of the daemon, and time *)

\* A transaction commits.
Commit ==
  /\ world < MaxWorld
  /\ world' = world + 1
  /\ UNCHANGED <<cacheVars, callVars, clock, cleared>>

\* invalidate_installed or invalidate_updates, after it.
Invalidate ==
  /\ cleared < world
  /\ ClearAll
  /\ UNCHANGED <<callVars, clock, world>>

Tick ==
  /\ clock < MaxClock
  /\ clock' = clock + 1
  /\ UNCHANGED <<cacheVars, callVars, world, cleared>>

CallerNext(c) ==
  \/ \E k \in Keys : Call(c, k) \/ CallForced(c, k)
  \/ CellFor(c) \/ Peek(c) \/ Hit(c) \/ Swap(c)
  \/ Drive(c) \/ Share(c) \/ Resolve(c) \/ Evict(c) \/ Cancel(c)

Next == (\E c \in Callers : CallerNext(c)) \/ Commit \/ Invalidate \/ Tick

\* A task that can run is polled, a fetch ends, and the OnceCell's permit is
\* handed out in turn: a waiter that it is free for again and again gets it.
Fairness ==
  \A c \in Callers :
    /\ WF_vars(CellFor(c) \/ Peek(c) \/ Hit(c) \/ Swap(c) \/ Resolve(c) \/ Evict(c))
    /\ SF_vars(Drive(c) \/ Share(c))

SafeSpec == Init /\ [][Next]_vars
Spec == SafeSpec /\ Fairness

--------------------------------------------------------------------------------
(* Properties *)

\* Single flight: a fetch that runs is the one its key's next callers will join,
\* unless the cache was cleared under it. No eviction and no swap of a stale slot
\* takes an unresolved slot out of the map, and no slot is resolved twice.
FlightIsShared ==
  \A c \in Driving :
    /\ ~Resolved(cell[c])
    /\ entries[key[c]] = cell[c] \/ slot[cell[c]].displaced

\* clear() is a barrier: a call made after it never answers with what was read
\* before the commit it followed, whatever was in flight across it.
ClearIsBarrier ==
  [][\A c \in Callers : Hit(c) \/ Evict(c) => slot[cell[c]].value >= floor[c]]_vars

\* Calls past the insertion of their slot, whose own evict() is still to come.
Inserting == {c \in Callers : pc[c] \in {"peek", "init", "fetching", "evicting"}}

\* Keys whose slot was left unresolved by calls that went away.
Abandoned == {k \in Pending : \A c \in Inserting : cell[c] # entries[k]}

\* The cap is soft by no more than the calls under way and the slots abandoned:
\* a burst of insertions is paid back by the evictions of the very same calls.
CapIsPaidBack ==
  Cardinality(Present) <= Cap + Cardinality(Inserting) + Cardinality(Abandoned)

\* Every call returns, or is dropped: a caller waiting on another's fetch takes over
\* when that one goes away.
CallsReturn == \A c \in Callers : pc[c] = "lookup" ~> pc[c] = "idle"
================================================================================
