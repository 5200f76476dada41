---------------------------------- MODULE Batch ----------------------------------
(***************************************************************************)
(* The batched queries of the store, GetAppEnrichment and                  *)
(* GetPackageLicenses (store/mod.rs), on the cache they fill themselves    *)
(* with get_fresh and insert (cache/flight.rs): what is missing is looked  *)
(* up at once, fetched a few at a time, inserted one by one when all of it *)
(* is there, with an eviction after each, and the reply is read back from  *)
(* the cache.                                                              *)
(*                                                                         *)
(* Overlapping calls share the cache and nothing else. A pass over the ids *)
(* that only reads is one step. An answer is a listing (or a licence), or  *)
(* none: none is there, or the fetch failed, which the code does not tell  *)
(* apart and caches alike.                                                 *)
(***************************************************************************)
EXTENDS Naturals, Sequences, FiniteSets, CacheEviction

CONSTANTS
  Ids,        \* AppStream ids, or nixpkgs attributes
  Listed,     \* those that have a listing, or a licence
  Calls,      \* calls of the two methods
  Requests,   \* the lists of ids a call may pass
  Limit,      \* CONCURRENCY_LIMIT
  Budget,     \* MAX_LICENSE_EVALS; for enrichment, as many as there are ids
  Ttl, Cap,   \* ENRICH_CACHE_TTL, CACHE_CAP
  MaxClock,   \* bound: ticks of the clock
  MaxFaults,  \* bound: fetches that fail
  None        \* nothing cached

ASSUME BatchAssumption ==
  /\ IsFiniteSet(Ids) /\ Listed \subseteq Ids
  /\ Requests \subseteq Seq(Ids)
  /\ {Limit, Budget, Ttl, Cap} \subseteq Nat \ {0}
  /\ {MaxClock, MaxFaults} \subseteq Nat
  /\ \A found \in BOOLEAN, at \in 0 .. MaxClock : [found |-> found, at |-> at] # None

VARIABLES
  cache,     \* the map: for each id its answer and when it was inserted
  clock,
  pc,        \* where each call stands
  asked,     \* its argument
  missing,   \* the places in its list whose ids it has yet to fetch
  flying,    \* those whose ids it is fetching
  fetched,   \* the answers it has, in the order they came
  reply,     \* the ids in its reply
  faults,
  known,     \* history: how many of its ids had an answer when it began
  promised,  \* history: its ids that had an answer or were to be fetched
  calm       \* history: the calls since whose start nothing has expired or been evicted

callVars == <<pc, asked, missing, flying, fetched, reply>>
history == <<known, promised, calm>>
vars == <<cache, clock, callVars, faults, history>>

Cached == {id \in Ids : cache[id] # None}

\* The ids at some places of a list.
At(ids, places) == {ids[i] : i \in places}

TypeOK ==
  /\ \A id \in Cached : cache[id].found \in BOOLEAN /\ cache[id].at \in 0 .. clock
  /\ clock \in 0 .. MaxClock
  /\ \A c \in Calls :
       /\ pc[c] \in {"idle", "fetching", "storing", "evicting", "replied"}
       /\ missing[c] \cup flying[c] \subseteq DOMAIN asked[c]
       /\ Cardinality(flying[c]) <= Limit
       /\ Cardinality(missing[c]) + Cardinality(flying[c]) + Len(fetched[c]) <= Budget
       /\ reply[c] \subseteq Listed \cap At(asked[c], DOMAIN asked[c])
  /\ faults \in 0 .. MaxFaults

Init ==
  /\ cache = [id \in Ids |-> None]
  /\ clock = 0
  /\ pc = [c \in Calls |-> "idle"]
  /\ asked = [c \in Calls |-> <<>>]
  /\ missing = [c \in Calls |-> {}]
  /\ flying = [c \in Calls |-> {}]
  /\ fetched = [c \in Calls |-> <<>>]
  /\ reply = [c \in Calls |-> {}]
  /\ faults = 0
  /\ known = [c \in Calls |-> 0]
  /\ promised = [c \in Calls |-> {}]
  /\ calm = Calls

\* get_fresh: something is cached and is younger than the TTL.
Fresh == {id \in Cached : clock - cache[id].at < Ttl}

\* Mutant: whatever is in the map will do, of any age.
Absent(ids) == {i \in DOMAIN ids : ids[i] \notin Cached}

Stale(ids) == {i \in DOMAIN ids : ids[i] \notin Fresh}

\* Iterator::take.
FirstOf(places, n) == {i \in places : Cardinality({j \in places : j < i}) < n}

\* Mutant: take(MAX_LICENSE_EVALS) comes before the filter.
ToFetchOfFirst(ids) == Stale(ids) \cap FirstOf(DOMAIN ids, Budget)

\* What a call fetches: the ids with no fresh answer, up to the budget.
ToFetch(ids) == FirstOf(Stale(ids), Budget)

--------------------------------------------------------------------------------
(* get_app_enrichment, get_package_licenses *)

Ask(c, ids) ==
  /\ pc[c] = "idle"
  /\ pc' = [pc EXCEPT ![c] = "fetching"]
  /\ asked' = [asked EXCEPT ![c] = ids]
  /\ missing' = [missing EXCEPT ![c] = ToFetch(ids)]
  /\ known' = [known EXCEPT ![c] = Cardinality(Fresh \cap At(ids, DOMAIN ids))]
  /\ promised' = [promised EXCEPT ![c] = At(ids, (DOMAIN ids \ Stale(ids)) \cup ToFetch(ids))]
  /\ calm' = calm \cup {c}
  /\ UNCHANGED <<cache, clock, flying, fetched, reply, faults>>

\* Mutant: one more than the limit.
StartOneMore(c) ==
  /\ pc[c] = "fetching"
  /\ Cardinality(flying[c]) <= Limit
  /\ \E i \in FirstOf(missing[c], 1) :
       /\ flying' = [flying EXCEPT ![c] = @ \cup {i}]
       /\ missing' = [missing EXCEPT ![c] = @ \ {i}]
  /\ UNCHANGED <<cache, clock, pc, asked, fetched, reply, faults, history>>

\* buffer_unordered starts the next fetch while there is room.
Start(c) ==
  /\ pc[c] = "fetching"
  /\ Cardinality(flying[c]) < Limit
  /\ \E i \in FirstOf(missing[c], 1) :
       /\ flying' = [flying EXCEPT ![c] = @ \cup {i}]
       /\ missing' = [missing EXCEPT ![c] = @ \ {i}]
  /\ UNCHANGED <<cache, clock, pc, asked, fetched, reply, faults, history>>

\* One of them ends, whichever: fetch_enrichment and license_for_package answer
\* Some, or None for whatever reason.
Fetched(c, i, found) ==
  /\ fetched' = [fetched EXCEPT ![c] = Append(@, [id |-> asked[c][i], found |-> found])]
  /\ flying' = [flying EXCEPT ![c] = @ \ {i}]
  /\ UNCHANGED <<cache, clock, pc, asked, missing, reply, history>>

Answer(c) ==
  \E i \in flying[c] :
    Fetched(c, i, asked[c][i] \in Listed) /\ UNCHANGED faults

FetchFails(c) ==
  \E i \in flying[c] :
    /\ faults < MaxFaults /\ faults' = faults + 1
    /\ asked[c][i] \in Listed
    /\ Fetched(c, i, FALSE)

\* collect(): everything that was missing is there.
Collect(c) ==
  /\ pc[c] = "fetching"
  /\ missing[c] = {} /\ flying[c] = {}
  /\ pc' = [pc EXCEPT ![c] = "storing"]
  /\ UNCHANGED <<cache, clock, asked, missing, flying, fetched, reply, faults, history>>

\* Mutant: nothing is evicted after an insertion.
StoreOnly(c) ==
  /\ pc[c] = "storing" /\ fetched[c] # <<>>
  /\ LET answer == Head(fetched[c])
     IN  cache' = [cache EXCEPT ![answer.id] = [found |-> answer.found, at |-> clock]]
  /\ fetched' = [fetched EXCEPT ![c] = Tail(@)]
  /\ UNCHANGED <<clock, pc, asked, missing, flying, reply, faults, history>>

\* Each answer in turn, a listing or none: insert() puts it in place of what is there,
\* and lets go of the lock.
Store(c) ==
  /\ pc[c] = "storing" /\ fetched[c] # <<>>
  /\ LET answer == Head(fetched[c])
     IN  cache' = [cache EXCEPT ![answer.id] = [found |-> answer.found, at |-> clock]]
  /\ fetched' = [fetched EXCEPT ![c] = Tail(@)]
  /\ pc' = [pc EXCEPT ![c] = "evicting"]
  /\ UNCHANGED <<clock, asked, missing, flying, reply, faults, history>>

\* evict() takes the lock again.
Evict(c) ==
  /\ pc[c] = "evicting"
  /\ \E kept \in Evictions({}, Cached, [id \in Cached |-> cache[id].at], clock, Ttl, Cap) :
       /\ cache' = [id \in Ids |-> IF id \in kept THEN cache[id] ELSE None]
       /\ calm' = IF kept = Cached THEN calm ELSE {}
  /\ pc' = [pc EXCEPT ![c] = "storing"]
  /\ UNCHANGED <<clock, asked, missing, flying, fetched, reply, faults, known, promised>>

\* The reply: the ids whose fresh answer is a listing.
Reply(c) ==
  /\ pc[c] = "storing" /\ fetched[c] = <<>>
  /\ pc' = [pc EXCEPT ![c] = "replied"]
  /\ reply' = [reply EXCEPT ![c] = {id \in At(asked[c], DOMAIN asked[c]) \cap Fresh : cache[id].found}]
  /\ UNCHANGED <<cache, clock, asked, missing, flying, fetched, faults, history>>

Tick ==
  /\ clock < MaxClock
  /\ clock' = clock + 1
  /\ calm' = IF \E id \in Fresh : clock' - cache[id].at >= Ttl THEN {} ELSE calm
  /\ UNCHANGED <<cache, callVars, faults, known, promised>>

Next ==
  \/ \E c \in Calls :
       \/ \E ids \in Requests : Ask(c, ids)
       \/ Start(c) \/ Answer(c) \/ FetchFails(c) \/ Collect(c) \/ Store(c) \/ Evict(c) \/ Reply(c)
  \/ Tick

Spec == Init /\ [][Next]_vars

--------------------------------------------------------------------------------
(* Properties *)

Evicting == {c \in Calls : pc[c] = "evicting"}

\* The cap is a soft one (cache/flight.rs: a burst of insertions "can leave the map above
\* `cap` for a while"), and what is above it is owed: however calls overlap, no more
\* entries than there are calls between their insertion and their eviction.
CapIsPaidBack == Cardinality(Cached) <= Cap + Cardinality(Evicting)

\* A call brings its ids nearer to being all answered: unless something was lost from
\* the cache meanwhile, when it replies as many of them more have an answer as the
\* budget allows. So repeating GetPackageLicenses goes through any list of attributes,
\* those without a licence included: they are not evaluated again and again.
CallMakesProgress ==
  [][\A c \in calm :
       Reply(c) =>
         LET ids == At(asked[c], DOMAIN asked[c])
             answered == Cardinality(ids \cap Fresh)
         IN  answered = Cardinality(ids) \/ answered >= known[c] + Budget]_vars

\* The reply leaves out only what is documented: an id with no listing, whose fetch
\* failed, or past the budget (store/mod.rs), whatever other calls fetch and insert
\* meanwhile. And what was lost from the cache between a look-up and the reply.
ReplyIsComplete ==
  \A c \in calm :
    pc[c] = "replied" /\ faults = 0 => promised[c] \cap Listed \subseteq reply[c]
================================================================================
