------------------------------ MODULE BatchProofs ------------------------------
(***************************************************************************)
(* The reply of a batched query is complete (store/mod.rs), for any number *)
(* of overlapping calls, for any lists, limits, budgets and capacities.    *)
(*                                                                         *)
(* The argument: while nothing is lost from the cache, an id a call has    *)
(* promised an answer for is fresh in the cache, or is among its missing,  *)
(* its flying or its fetched; when these are empty it replies.             *)
(***************************************************************************)
EXTENDS Batch, Integers, FiniteSetTheorems, TLAPS

Answers == [id : Ids, found : BOOLEAN]

Entries == [found : BOOLEAN, at : 0 .. MaxClock]

Types ==
  /\ cache \in [Ids -> Entries \cup {None}]
  /\ clock \in 0 .. MaxClock
  /\ pc \in [Calls -> {"idle", "fetching", "storing", "evicting", "replied"}]
  /\ asked \in [Calls -> Seq(Ids)]
  /\ missing \in [Calls -> SUBSET Nat] /\ flying \in [Calls -> SUBSET Nat]
  /\ fetched \in [Calls -> Seq(Answers)]
  /\ reply \in [Calls -> SUBSET Ids]
  /\ promised \in [Calls -> SUBSET Ids]
  /\ faults \in Nat
  /\ calm \subseteq Calls

\* Where a call stands and what it has left.
InOrder(c) ==
  /\ missing[c] \subseteq DOMAIN asked[c] /\ flying[c] \subseteq DOMAIN asked[c]
  /\ pc[c] = "idle" => flying[c] = {} /\ fetched[c] = <<>>
  /\ pc[c] \in {"storing", "evicting"} => missing[c] = {} /\ flying[c] = {}
  /\ pc[c] # "idle" => promised[c] \subseteq At(asked[c], DOMAIN asked[c])

\* Without a fault, an answer says whether there is a listing.
Truthful ==
  faults = 0 =>
    /\ \A id \in Cached : cache[id].found = (id \in Listed)
    /\ \A c \in Calls : \A j \in 1 .. Len(fetched[c]) :
         fetched[c][j].found = (fetched[c][j].id \in Listed)

Within(c) == pc[c] \in {"fetching", "storing", "evicting"}

\* The answer for an id is on its way to a call.
Coming(c, id) ==
  \/ id \in At(asked[c], missing[c] \cup flying[c])
  \/ \E j \in 1 .. Len(fetched[c]) : fetched[c][j].id = id

\* What was promised is there or coming.
PromiseKept(c) == Within(c) => \A id \in promised[c] : id \in Fresh \/ Coming(c, id)

BInv ==
  /\ Types
  /\ \A c \in Calls : InOrder(c)
  /\ Truthful
  /\ \A c \in calm : PromiseKept(c)
  /\ ReplyIsComplete

--------------------------------------------------------------------------------
(* The cache *)

\* An eviction that leaves everything has found everything fresh.
LEMMA EvictsNothingExpired ==
  ASSUME NEW present, NEW at, NEW now, NEW ttl, NEW cap,
         NEW kept \in Evictions({}, present, at, now, ttl, cap)
  PROVE  /\ kept \subseteq present
         /\ \A k \in kept : now - at[k] < ttl
BY DEF Evictions, Oldest

\* What is in the cache after an eviction was there; and if nothing was lost, all of it is.
LEMMA EvictedCache ==
  ASSUME Types, NEW c \in Calls, Evict(c)
  PROVE  /\ cache' \in [Ids -> Entries \cup {None}]
         /\ calm' \subseteq calm
         /\ \A k \in Cached' : k \in Cached /\ cache'[k] = cache[k]
         /\ calm' # {} => Fresh' = Fresh
<1> DEFINE at == [k \in Cached |-> cache[k].at]
<1>1. PICK kept \in Evictions({}, Cached, at, clock, Ttl, Cap) :
        /\ cache' = [k \in Ids |-> IF k \in kept THEN cache[k] ELSE None]
        /\ calm' = IF kept = Cached THEN calm ELSE {}
  BY DEF Evict
<1>2. clock' = clock
  BY DEF Evict
<1> HIDE DEF at
<1>3. kept \subseteq Cached
  BY EvictsNothingExpired
<1>4. cache' \in [Ids -> Entries \cup {None}] /\ calm' \subseteq calm
  BY <1>1 DEF Types
<1>5. \A k \in Cached' : k \in Cached /\ cache'[k] = cache[k]
  BY <1>1, <1>3 DEF Cached
<1>6. ASSUME calm' # {} PROVE Fresh' = Fresh
  <2>1. kept = Cached
    BY <1>1, <1>6
  <2>2. cache' = cache
    BY <1>1, <2>1 DEF Types, Cached
  <2> QED
    BY <1>2, <2>2 DEF Fresh, Cached
<1> QED
  BY <1>4, <1>5, <1>6
--------------------------------------------------------------------------------
(* The steps *)

LEMMA InitBInv == Init => BInv
<1> SUFFICES ASSUME Init PROVE BInv
  OBVIOUS
<1>1. Types
  BY BatchAssumption DEF Init, Types
<1>2. \A c \in Calls : InOrder(c)
  BY DEF Init, InOrder
<1>3. Truthful
  BY DEF Init, Truthful, Cached
<1>4. ReplyIsComplete /\ \A c \in calm : PromiseKept(c)
  BY DEF Init, ReplyIsComplete, PromiseKept, Within
<1> QED
  BY <1>1, <1>2, <1>3, <1>4 DEF BInv

LEMMA PlacesInOrder ==
  ASSUME NEW ids \in Seq(Ids)
  PROVE  /\ ToFetch(ids) \subseteq DOMAIN ids /\ DOMAIN ids \subseteq Nat
         /\ At(ids, (DOMAIN ids \ Stale(ids)) \cup ToFetch(ids)) \subseteq At(ids, DOMAIN ids)
         /\ At(ids, DOMAIN ids) \subseteq Ids
         /\ \A id \in At(ids, (DOMAIN ids \ Stale(ids)) \cup ToFetch(ids)) :
              id \in Fresh \/ id \in At(ids, ToFetch(ids))
<1>1. DOMAIN ids \subseteq Nat /\ \A i \in DOMAIN ids : ids[i] \in Ids
  OBVIOUS
<1>2. ToFetch(ids) \subseteq DOMAIN ids
  BY DEF ToFetch, FirstOf, Stale
<1>3. At(ids, DOMAIN ids) \subseteq Ids
  BY <1>1 DEF At
<1>4. At(ids, (DOMAIN ids \ Stale(ids)) \cup ToFetch(ids)) \subseteq At(ids, DOMAIN ids)
  BY <1>2 DEF At
<1>5. ASSUME NEW id \in At(ids, (DOMAIN ids \ Stale(ids)) \cup ToFetch(ids))
      PROVE  id \in Fresh \/ id \in At(ids, ToFetch(ids))
  BY <1>5 DEF At, Stale
<1> QED
  BY <1>1, <1>2, <1>3, <1>4, <1>5

\* A step that leaves a call what it has to come, and the cache what was fresh, keeps
\* its promise.
LEMMA PromiseStands ==
  ASSUME NEW d \in Calls, PromiseKept(d), Within(d)' => Within(d), Fresh \subseteq Fresh',
         asked'[d] = asked[d], fetched'[d] = fetched[d], promised'[d] = promised[d],
         missing'[d] \cup flying'[d] = missing[d] \cup flying[d]
  PROVE  PromiseKept(d)'
<1>1. ASSUME NEW id, Coming(d, id) PROVE Coming(d, id)'
  BY <1>1 DEF Coming, At
<1> QED
  BY <1>1 DEF PromiseKept

LEMMA AskKeepsInv ==
  ASSUME BInv, NEW c \in Calls, NEW ids \in Requests, Ask(c, ids) PROVE BInv'
<1>1. /\ ids \in Seq(Ids)
      /\ pc[c] = "idle" /\ pc' = [pc EXCEPT ![c] = "fetching"]
      /\ asked' = [asked EXCEPT ![c] = ids]
      /\ missing' = [missing EXCEPT ![c] = ToFetch(ids)]
      /\ promised' = [promised EXCEPT ![c] = At(ids, (DOMAIN ids \ Stale(ids)) \cup ToFetch(ids))]
      /\ calm' = calm \cup {c}
      /\ UNCHANGED <<cache, clock, flying, fetched, reply, faults>>
  BY BatchAssumption DEF Ask
<1>2. Types'
  BY <1>1, PlacesInOrder DEF BInv, Types
<1>3. ASSUME NEW d \in Calls PROVE InOrder(d)'
  BY <1>1, <1>3, PlacesInOrder DEF BInv, Types, InOrder
<1>4. Truthful'
  BY <1>1 DEF BInv, Truthful, Cached
<1>5. Fresh' = Fresh
  BY <1>1 DEF Fresh, Cached
<1>6. ASSUME NEW d \in calm' PROVE PromiseKept(d)'
  <2>1. CASE d = c
    <3>1. missing'[c] = ToFetch(ids) /\ asked'[c] = ids
          /\ promised'[c] = At(ids, (DOMAIN ids \ Stale(ids)) \cup ToFetch(ids))
      BY <1>1 DEF BInv, Types
    <3>2. ASSUME NEW id \in At(ids, ToFetch(ids)) PROVE Coming(c, id)'
      BY <3>1, <3>2 DEF Coming, At
    <3> QED
      BY <1>1, <1>5, <2>1, <3>1, <3>2, PlacesInOrder DEF PromiseKept
  <2>2. CASE d # c
    <3>1. /\ d \in Calls /\ PromiseKept(d) /\ Within(d)' = Within(d)
          /\ asked'[d] = asked[d] /\ fetched'[d] = fetched[d] /\ promised'[d] = promised[d]
          /\ missing'[d] = missing[d] /\ flying'[d] = flying[d]
      BY <1>1, <1>6, <2>2 DEF BInv, Types, Within
    <3> QED
      BY <1>5, <3>1, PromiseStands
  <2> QED
    BY <2>1, <2>2
<1>7. ReplyIsComplete'
  BY <1>1 DEF BInv, Types, ReplyIsComplete
<1> QED
  BY <1>2, <1>3, <1>4, <1>6, <1>7 DEF BInv

LEMMA StartKeepsInv == ASSUME BInv, NEW c \in Calls, Start(c) PROVE BInv'
<1>1. PICK i \in missing[c] :
        /\ flying' = [flying EXCEPT ![c] = @ \cup {i}]
        /\ missing' = [missing EXCEPT ![c] = @ \ {i}]
  BY DEF Start, FirstOf
<1>2. pc[c] = "fetching" /\ UNCHANGED <<cache, clock, pc, asked, fetched, reply, faults, promised, calm>>
  BY DEF Start, history
<1>3. Types'
  BY <1>1, <1>2 DEF BInv, Types
<1>4. ASSUME NEW d \in Calls
      PROVE  /\ InOrder(d)'
             /\ missing'[d] \cup flying'[d] = missing[d] \cup flying[d]
  BY <1>1, <1>2 DEF BInv, Types, InOrder
<1>5. Truthful'
  BY <1>2 DEF BInv, Truthful, Cached
<1>6. ASSUME NEW d \in calm' PROVE PromiseKept(d)'
  <2>1. d \in Calls /\ PromiseKept(d) /\ Fresh' = Fresh /\ (Within(d)' => Within(d))
    BY <1>1, <1>2, <1>6 DEF BInv, Types, Fresh, Cached, Within
  <2> QED
    BY <1>1, <1>2, <1>4, <2>1, PromiseStands
<1>7. ReplyIsComplete'
  BY <1>2 DEF BInv, ReplyIsComplete
<1> QED
  BY <1>3, <1>4, <1>5, <1>6, <1>7 DEF BInv

\* An answer: the id is no longer flying, and is fetched.
LEMMA FetchedKeepsInv ==
  ASSUME BInv, NEW c \in Calls, NEW i \in flying[c], NEW found \in BOOLEAN, Fetched(c, i, found),
         faults' \in Nat, faults' = 0 => faults = 0 /\ found = (asked[c][i] \in Listed)
  PROVE  BInv'
<1> DEFINE new == [id |-> asked[c][i], found |-> found]
<1>1. /\ fetched' = [fetched EXCEPT ![c] = Append(@, new)]
      /\ flying' = [flying EXCEPT ![c] = @ \ {i}]
      /\ UNCHANGED <<cache, clock, pc, asked, missing, reply, promised, calm>>
  BY DEF Fetched, history
<1>2. i \in DOMAIN asked[c] /\ asked[c][i] \in Ids /\ new \in Answers
  BY DEF BInv, Types, InOrder, Answers
<1>3. /\ fetched[c] \in Seq(Answers) /\ Append(fetched[c], new) \in Seq(Answers)
      /\ Len(Append(fetched[c], new)) = Len(fetched[c]) + 1 /\ Len(fetched[c]) \in Nat
      /\ Append(fetched[c], new)[Len(fetched[c]) + 1] = new
      /\ \A j \in 1 .. Len(fetched[c]) : Append(fetched[c], new)[j] = fetched[c][j]
  BY <1>2 DEF BInv, Types
<1>4. new.id = asked[c][i] /\ new.found = found
  OBVIOUS
<1> HIDE DEF new
<1>5. Types'
  BY <1>1, <1>3 DEF BInv, Types
<1>6. ASSUME NEW d \in Calls PROVE InOrder(d)'
  BY <1>1 DEF BInv, Types, InOrder
<1>7. Truthful'
  <2> SUFFICES ASSUME faults' = 0 PROVE
        /\ \A id \in Cached' : cache'[id].found = (id \in Listed)
        /\ \A d \in Calls : \A j \in 1 .. Len(fetched'[d]) :
             fetched'[d][j].found = (fetched'[d][j].id \in Listed)
    BY DEF Truthful
  <2>1. ASSUME NEW id \in Cached' PROVE cache'[id].found = (id \in Listed)
    BY <1>1, <2>1 DEF BInv, Truthful, Cached
  <2>2. ASSUME NEW d \in Calls \ {c} PROVE fetched'[d] = fetched[d]
    BY <1>1, <2>2 DEF BInv, Types
  <2>3. fetched'[c] = Append(fetched[c], new)
    BY <1>1 DEF BInv, Types
  <2>4. ASSUME NEW j \in 1 .. Len(fetched'[c]) PROVE fetched'[c][j].found = (fetched'[c][j].id \in Listed)
    <3>1. CASE j = Len(fetched[c]) + 1
      BY <1>3, <1>4, <2>3, <3>1
    <3>2. CASE j # Len(fetched[c]) + 1
      <4>1. j \in 1 .. Len(fetched[c])
        BY <1>3, <2>3, <2>4, <3>2
      <4>2. fetched'[c][j] = fetched[c][j]
        BY <1>3, <2>3, <4>1
      <4> QED
        BY <4>1, <4>2 DEF BInv, Truthful
    <3> QED
      BY <3>1, <3>2
  <2> QED
    BY <2>1, <2>2, <2>4 DEF BInv, Truthful
<1>8. ASSUME NEW d \in calm' PROVE PromiseKept(d)'
  <2>1. d \in Calls /\ d \in calm
    BY <1>1, <1>8 DEF BInv, Types
  <2>2. Fresh' = Fresh /\ Within(d)' = Within(d) /\ promised'[d] = promised[d]
    BY <1>1 DEF Fresh, Cached, Within
  <2>3. ASSUME NEW id, Coming(d, id) PROVE Coming(d, id)'
    <3>1. CASE d # c
      BY <1>1, <2>1, <2>3, <3>1 DEF BInv, Types, Coming
    <3>2. CASE d = c
      <4>1. fetched'[c] = Append(fetched[c], new) /\ flying'[c] = flying[c] \ {i}
        BY <1>1 DEF BInv, Types
      <4>2. CASE id = asked[c][i]
        <5>1. /\ Len(fetched'[c]) \in 1 .. Len(fetched'[c])
              /\ fetched'[c][Len(fetched'[c])].id = id
          BY <1>3, <1>4, <4>1, <4>2
        <5> QED
          BY <3>2, <5>1 DEF Coming
      <4>3. CASE \E j \in 1 .. Len(fetched[c]) : fetched[c][j].id = id
        BY <1>3, <3>2, <4>1, <4>3 DEF Coming
      <4>4. CASE id # asked[c][i] /\ id \in At(asked[c], missing[c] \cup flying[c])
        BY <1>1, <3>2, <4>1, <4>4 DEF Coming, At
      <4> QED
        BY <2>3, <3>2, <4>2, <4>3, <4>4 DEF Coming
    <3> QED
      BY <3>1, <3>2
  <2> QED
    BY <2>1, <2>2, <2>3 DEF BInv, PromiseKept
<1>9. ReplyIsComplete'
  BY <1>1 DEF BInv, ReplyIsComplete
<1> QED
  BY <1>5, <1>6, <1>7, <1>8, <1>9 DEF BInv

LEMMA CollectKeepsInv == ASSUME BInv, NEW c \in Calls, Collect(c) PROVE BInv'
<1>1. /\ pc[c] = "fetching" /\ missing[c] = {} /\ flying[c] = {}
      /\ pc' = [pc EXCEPT ![c] = "storing"]
      /\ UNCHANGED <<cache, clock, asked, missing, flying, fetched, reply, faults, promised, calm>>
  BY DEF Collect, history
<1>2. Types' /\ Truthful'
  BY <1>1 DEF BInv, Types, Truthful, Cached
<1>3. ASSUME NEW d \in Calls PROVE InOrder(d)'
  BY <1>1 DEF BInv, Types, InOrder
<1>4. ASSUME NEW d \in calm' PROVE PromiseKept(d)'
  <2>1. d \in Calls /\ PromiseKept(d) /\ Fresh' = Fresh /\ (Within(d)' => Within(d))
    BY <1>1, <1>4 DEF BInv, Types, Fresh, Cached, Within
  <2> QED
    BY <1>1, <2>1, PromiseStands
<1>5. ReplyIsComplete'
  BY <1>1 DEF BInv, Types, ReplyIsComplete
<1> QED
  BY <1>2, <1>3, <1>4, <1>5 DEF BInv

\* An insertion: the call whose answer it is has one less to come, and it is fresh.
LEMMA StoreKeepsInv == ASSUME BInv, NEW c \in Calls, Store(c) PROVE BInv'
<1> DEFINE first == Head(fetched[c])
<1>1. /\ pc[c] = "storing" /\ fetched[c] # <<>>
      /\ cache' = [cache EXCEPT ![first.id] = [found |-> first.found, at |-> clock]]
      /\ fetched' = [fetched EXCEPT ![c] = Tail(@)]
      /\ pc' = [pc EXCEPT ![c] = "evicting"]
      /\ UNCHANGED <<clock, asked, missing, flying, reply, faults, promised, calm>>
  BY DEF Store, history
<1>2. /\ first = fetched[c][1] /\ first \in Answers /\ Len(fetched[c]) \in Nat \ {0}
      /\ Tail(fetched[c]) \in Seq(Answers) /\ Len(Tail(fetched[c])) = Len(fetched[c]) - 1
      /\ \A j \in 1 .. Len(fetched[c]) - 1 : Tail(fetched[c])[j] = fetched[c][j + 1]
  BY <1>1 DEF BInv, Types
<1>3. first.id \in Ids /\ first.found \in BOOLEAN
  BY <1>2 DEF Answers
<1> HIDE DEF first
<1>4. /\ cache' \in [Ids -> Entries \cup {None}]
      /\ \A k \in Cached' : (k = first.id /\ cache'[k].found = first.found)
                            \/ (k \in Cached /\ cache'[k] = cache[k])
      /\ first.id \in Fresh' /\ Fresh \subseteq Fresh'
  <2>1. clock \in 0 .. MaxClock /\ cache \in [Ids -> Entries \cup {None}]
    BY DEF BInv, Types
  <2>2. [found |-> first.found, at |-> clock] \in Entries
    BY <1>3, <2>1 DEF Entries
  <2>3. [found |-> first.found, at |-> clock] # None /\ clock - clock < Ttl
    BY <1>3, <2>1, BatchAssumption
  <2>4. /\ cache'[first.id] = [found |-> first.found, at |-> clock]
        /\ \A k \in Ids \ {first.id} : cache'[k] = cache[k]
    BY <1>1, <1>3, <2>1
  <2>5. cache' \in [Ids -> Entries \cup {None}]
    BY <1>1, <2>1, <2>2
  <2>6. first.id \in Fresh' /\ Fresh \subseteq Fresh'
    BY <1>1, <1>3, <2>3, <2>4 DEF Fresh, Cached
  <2> QED
    BY <2>4, <2>5, <2>6 DEF Cached
<1>5. /\ fetched'[c] = Tail(fetched[c])
      /\ \A d \in Calls \ {c} : fetched'[d] = fetched[d]
  BY <1>1 DEF BInv, Types
<1>6. Types'
  BY <1>1, <1>2, <1>4 DEF BInv, Types
<1>7. ASSUME NEW d \in Calls PROVE InOrder(d)'
  BY <1>1, <1>5 DEF BInv, Types, InOrder
<1>8. Truthful'
  <2> SUFFICES ASSUME faults' = 0 PROVE
        /\ \A id \in Cached' : cache'[id].found = (id \in Listed)
        /\ \A d \in Calls : \A j \in 1 .. Len(fetched'[d]) :
             fetched'[d][j].found = (fetched'[d][j].id \in Listed)
    BY DEF Truthful
  <2>1. /\ \A id \in Cached : cache[id].found = (id \in Listed)
        /\ \A d \in Calls : \A j \in 1 .. Len(fetched[d]) :
             fetched[d][j].found = (fetched[d][j].id \in Listed)
    BY <1>1 DEF BInv, Truthful
  <2>2. first.found = (first.id \in Listed)
    BY <1>2, <2>1
  <2>3. ASSUME NEW id \in Cached' PROVE cache'[id].found = (id \in Listed)
    BY <1>4, <2>1, <2>2, <2>3
  <2>4. ASSUME NEW j \in 1 .. Len(fetched'[c]) PROVE fetched'[c][j].found = (fetched'[c][j].id \in Listed)
    <3>1. j + 1 \in 1 .. Len(fetched[c]) /\ fetched'[c][j] = fetched[c][j + 1]
      BY <1>2, <1>5, <2>4
    <3> QED
      BY <2>1, <3>1
  <2> QED
    <3>1. ASSUME NEW d \in Calls, NEW j \in 1 .. Len(fetched'[d])
          PROVE  fetched'[d][j].found = (fetched'[d][j].id \in Listed)
      <4>1. CASE d = c
        BY <2>4, <4>1
      <4>2. CASE d # c
        BY <1>5, <2>1, <4>2
      <4> QED
        BY <4>1, <4>2
    <3> QED
      BY <2>3, <3>1
<1>9. ASSUME NEW d \in calm' PROVE PromiseKept(d)'
  <2>1. d \in calm /\ d \in Calls /\ first.id \in Fresh' /\ Fresh \subseteq Fresh'
    BY <1>1, <1>4, <1>9 DEF BInv, Types
  <2>2. ASSUME NEW id, Coming(d, id) PROVE id \in Fresh' \/ Coming(d, id)'
    <3>1. CASE id \in At(asked[d], missing[d] \cup flying[d])
      BY <1>1, <3>1 DEF Coming
    <3>2. ASSUME NEW j \in 1 .. Len(fetched[d]), fetched[d][j].id = id
          PROVE  id \in Fresh' \/ Coming(d, id)'
      <4>1. CASE d # c
        BY <1>5, <2>1, <3>2, <4>1 DEF Coming
      <4>2. CASE d = c /\ j = 1
        BY <1>2, <2>1, <3>2, <4>2
      <4>3. CASE d = c /\ j # 1
        <5>1. /\ fetched'[d] = Tail(fetched[c]) /\ j - 1 \in 1 .. Len(fetched[c]) - 1
              /\ j = (j - 1) + 1
          BY <1>2, <1>5, <3>2, <4>3
        <5>2. j - 1 \in 1 .. Len(fetched'[d]) /\ fetched'[d][j - 1] = fetched[d][j]
          BY <1>2, <4>3, <5>1
        <5> QED
          BY <3>2, <5>2 DEF Coming
      <4> QED
        BY <4>1, <4>2, <4>3
    <3> QED
      BY <2>2, <3>1, <3>2 DEF Coming
  <2>3. Within(d)' = Within(d) /\ promised'[d] = promised[d]
    BY <1>1 DEF BInv, Types, Within
  <2> QED
    BY <2>1, <2>2, <2>3 DEF BInv, PromiseKept
<1>10. ReplyIsComplete'
  BY <1>1 DEF BInv, Types, ReplyIsComplete
<1> QED
  BY <1>6, <1>7, <1>8, <1>9, <1>10 DEF BInv

\* An eviction that loses nothing leaves what was promised.
LEMMA EvictKeepsInv == ASSUME BInv, NEW c \in Calls, Evict(c) PROVE BInv'
<1>1. /\ pc[c] = "evicting" /\ pc' = [pc EXCEPT ![c] = "storing"]
      /\ UNCHANGED <<clock, asked, missing, flying, fetched, reply, faults, promised>>
  BY DEF Evict
<1>2. /\ cache' \in [Ids -> Entries \cup {None}] /\ calm' \subseteq calm
      /\ \A k \in Cached' : k \in Cached /\ cache'[k] = cache[k]
      /\ calm' # {} => Fresh' = Fresh
  BY EvictedCache DEF BInv
<1>3. Types'
  BY <1>1, <1>2 DEF BInv, Types
<1>4. ASSUME NEW d \in Calls PROVE InOrder(d)'
  BY <1>1 DEF BInv, Types, InOrder
<1>5. Truthful'
  BY <1>1, <1>2 DEF BInv, Truthful
<1>6. ASSUME NEW d \in calm' PROVE PromiseKept(d)'
  <2>1. d \in Calls /\ PromiseKept(d) /\ Fresh' = Fresh /\ (Within(d)' => Within(d))
    BY <1>1, <1>2, <1>6 DEF BInv, Types, Within
  <2> QED
    BY <1>1, <2>1, PromiseStands
<1>7. ReplyIsComplete'
  BY <1>1, <1>2 DEF BInv, Types, ReplyIsComplete
<1> QED
  BY <1>3, <1>4, <1>5, <1>6, <1>7 DEF BInv

\* Nothing is left to come: what was promised is there to be replied.
LEMMA ReplyKeepsInv == ASSUME BInv, NEW c \in Calls, Reply(c) PROVE BInv'
<1> DEFINE answer == {id \in At(asked[c], DOMAIN asked[c]) \cap Fresh : cache[id].found}
<1>1. /\ pc[c] = "storing" /\ fetched[c] = <<>>
      /\ pc' = [pc EXCEPT ![c] = "replied"]
      /\ reply' = [reply EXCEPT ![c] = answer]
      /\ UNCHANGED <<cache, clock, asked, missing, flying, fetched, faults, promised, calm>>
  BY DEF Reply, history
<1>2. answer \subseteq Ids
  BY DEF Fresh, Cached
<1>3. ASSUME c \in calm, faults = 0 PROVE promised[c] \cap Listed \subseteq answer
  <2>1. missing[c] = {} /\ flying[c] = {} /\ promised[c] \subseteq At(asked[c], DOMAIN asked[c])
    BY <1>1 DEF BInv, InOrder
  <2>2. ASSUME NEW id PROVE ~Coming(c, id)
    BY <1>1, <2>1 DEF Coming, At
  <2>3. promised[c] \subseteq Fresh
    BY <1>1, <1>3, <2>2 DEF BInv, PromiseKept, Within
  <2>4. ASSUME NEW id \in Fresh, id \in Listed PROVE cache[id].found
    BY <1>3, <2>4 DEF BInv, Truthful, Fresh
  <2> QED
    BY <2>1, <2>3, <2>4
<1> HIDE DEF answer
<1>4. Types' /\ Truthful'
  BY <1>1, <1>2 DEF BInv, Types, Truthful, Cached
<1>5. ASSUME NEW d \in Calls PROVE InOrder(d)'
  BY <1>1 DEF BInv, Types, InOrder
<1>6. ASSUME NEW d \in calm' PROVE PromiseKept(d)'
  <2>1. d \in Calls /\ PromiseKept(d) /\ Fresh' = Fresh /\ (Within(d)' => Within(d))
    BY <1>1, <1>6 DEF BInv, Types, Fresh, Cached, Within
  <2> QED
    BY <1>1, <2>1, PromiseStands
<1>7. ReplyIsComplete'
  BY <1>1, <1>3 DEF BInv, Types, ReplyIsComplete
<1> QED
  BY <1>4, <1>5, <1>6, <1>7 DEF BInv

LEMMA TickKeepsInv == ASSUME BInv, Tick PROVE BInv'
<1>1. /\ clock' = clock + 1 /\ clock < MaxClock
      /\ calm' = IF \E id \in Fresh : clock' - cache[id].at >= Ttl THEN {} ELSE calm
      /\ UNCHANGED <<cache, pc, asked, missing, flying, fetched, reply, faults, promised>>
  BY DEF Tick, callVars
<1>2. Types'
  BY <1>1, BatchAssumption DEF BInv, Types
<1>3. Truthful' /\ \A d \in Calls : InOrder(d)'
  BY <1>1 DEF BInv, Truthful, Cached, InOrder
<1>4. ASSUME NEW d \in calm' PROVE PromiseKept(d)'
  <2>1. calm' = calm /\ \A id \in Fresh : ~(clock' - cache[id].at >= Ttl)
    BY <1>1, <1>4
  <2>2. ASSUME NEW id \in Fresh PROVE id \in Fresh'
    <3>1. id \in Ids /\ cache[id] # None /\ cache[id] \in Entries
      BY <2>2 DEF BInv, Types, Fresh, Cached
    <3>2. cache[id].at \in Int /\ clock' \in Int /\ Ttl \in Int
      BY <1>1, <3>1, BatchAssumption DEF BInv, Types, Entries
    <3>3. clock' - cache[id].at < Ttl
      BY <2>1, <3>2
    <3> QED
      BY <1>1, <3>1, <3>3 DEF Fresh, Cached
  <2> QED
    <3>1. d \in Calls /\ PromiseKept(d) /\ Within(d)' = Within(d)
      BY <1>1, <1>4, <2>1 DEF BInv, Types, Within
    <3> QED
      BY <1>1, <2>2, <3>1, PromiseStands
<1>5. ReplyIsComplete'
  BY <1>1 DEF BInv, ReplyIsComplete
<1> QED
  BY <1>2, <1>3, <1>4, <1>5 DEF BInv

LEMMA BInvInductive == BInv /\ [Next]_vars => BInv'
<1> SUFFICES ASSUME BInv, [Next]_vars PROVE BInv'
  OBVIOUS
<1>1. CASE UNCHANGED vars
  <2>1. UNCHANGED <<cache, clock, pc, asked, missing, flying, fetched, reply, faults, promised, calm>>
    BY <1>1 DEF vars, callVars, history
  <2>2. /\ Types' /\ Truthful' /\ ReplyIsComplete'
        /\ \A c \in Calls : InOrder(c)'
    BY <2>1 DEF BInv, Types, InOrder, Truthful, Cached, ReplyIsComplete
  <2>3. ASSUME NEW d \in calm' PROVE PromiseKept(d)'
    <3>1. d \in Calls /\ PromiseKept(d) /\ Fresh' = Fresh /\ Within(d)' = Within(d)
      BY <2>1, <2>3 DEF BInv, Types, Fresh, Cached, Within
    <3> QED
      BY <2>1, <3>1, PromiseStands
  <2> QED
    BY <2>2, <2>3 DEF BInv
<1>2. ASSUME NEW c \in Calls, Answer(c) PROVE BInv'
  <2>1. PICK i \in flying[c] : Fetched(c, i, asked[c][i] \in Listed) /\ UNCHANGED faults
    BY <1>2 DEF Answer
  <2> QED
    <3>1. (asked[c][i] \in Listed) \in BOOLEAN /\ faults' = faults /\ faults \in Nat
      BY <2>1 DEF BInv, Types
    <3> QED
      BY <2>1, <3>1, FetchedKeepsInv
<1>3. ASSUME NEW c \in Calls, FetchFails(c) PROVE BInv'
  <2>1. PICK i \in flying[c] : faults' = faults + 1 /\ Fetched(c, i, FALSE)
    BY <1>3 DEF FetchFails
  <2>2. faults' \in Nat /\ faults' # 0
    BY <2>1 DEF BInv, Types
  <2> QED
    BY <2>1, <2>2, FetchedKeepsInv
<1> QED
  BY <1>1, <1>2, <1>3, AskKeepsInv, StartKeepsInv, CollectKeepsInv, StoreKeepsInv, EvictKeepsInv,
     ReplyKeepsInv, TickKeepsInv DEF Next

\* GetAppEnrichment and GetPackageLicenses (store/mod.rs): if no fetch has failed and
\* nothing was lost from the cache since the call began, its reply has all of its ids
\* that had an answer, or were within the budget, and have a listing, whatever the
\* other calls fetch and insert meanwhile.
THEOREM RepliesAreComplete == Spec => []ReplyIsComplete
<1>1. BInv => ReplyIsComplete
  BY DEF BInv
<1> QED
  BY <1>1, InitBInv, BInvInductive, PTL DEF Spec
--------------------------------------------------------------------------------
(* How much there is of everything *)

\* take(n) takes n of the places, or all of them.
LEMMA TakenPlaces ==
  ASSUME NEW S \in SUBSET Nat, IsFiniteSet(S), NEW n \in Nat
  PROVE  /\ FirstOf(S, n) \subseteq S /\ IsFiniteSet(FirstOf(S, n))
         /\ Cardinality(FirstOf(S, n)) \in 0 .. n
         /\ Cardinality(FirstOf(S, n)) = n \/ FirstOf(S, n) = S
<1> DEFINE m == Cardinality(S)
           Before(i) == {j \in S : j < i}
           rank == [i \in S |-> Cardinality(Before(i))]
           F == FirstOf(S, n)
<1>0. \A i \in S : i \in Nat
  OBVIOUS
<1>1. m \in Nat /\ IsFiniteSet(0 .. m - 1) /\ Cardinality(0 .. m - 1) = m
  <2>1. m \in Nat
    BY FS_CardinalityType
  <2> HIDE DEF m
  <2>2. m - 1 \in Int
    BY <2>1
  <2>3. /\ IsFiniteSet(0 .. m - 1)
        /\ Cardinality(0 .. m - 1) = IF 0 > m - 1 THEN 0 ELSE (m - 1) - 0 + 1
    BY <2>2, FS_Interval
  <2> QED
    BY <2>1, <2>3
<1>2. ASSUME NEW i \in S PROVE IsFiniteSet(Before(i)) /\ rank[i] \in 0 .. m - 1
  <2>1. /\ IsFiniteSet(Before(i)) /\ Cardinality(Before(i)) <= m
        /\ Cardinality(Before(i)) = m => Before(i) = S
    BY FS_Subset
  <2>2. Cardinality(Before(i)) \in Nat /\ i \notin Before(i)
    BY <1>0, <2>1, FS_CardinalityType
  <2> QED
    BY <1>1, <2>1, <2>2
<1>3. ASSUME NEW i \in S, NEW j \in S, i < j PROVE rank[i] < rank[j]
  <2>1. Before(i) \subseteq Before(j)
    <3>1. ASSUME NEW x \in S, x < i PROVE x < j
      <4>1. x \in Nat /\ i \in Nat /\ j \in Nat
        BY <1>0
      <4> QED
        BY <3>1, <4>1, <1>3
    <3> QED
      BY <3>1
  <2>2. i \in Before(j) /\ i \notin Before(i)
    BY <1>0, <1>3
  <2>3. /\ Cardinality(Before(i)) <= Cardinality(Before(j))
        /\ Cardinality(Before(j)) = Cardinality(Before(i)) => Before(j) = Before(i)
    BY <2>1, <1>2, FS_Subset
  <2> QED
    BY <2>2, <2>3, <1>2
<1> HIDE DEF m
<1>4. F = {i \in S : rank[i] < n}
  BY DEF FirstOf
<1> HIDE DEF rank, F
<1>5. rank \in Injection(S, 0 .. m - 1)
  <2>1. rank \in [S -> 0 .. m - 1]
    BY <1>2 DEF rank
  <2>2. ASSUME NEW i \in S, NEW j \in S, rank[i] = rank[j] PROVE i = j
    <3>1. i \in Nat /\ j \in Nat /\ rank[i] \in 0 .. m - 1 /\ rank[j] \in 0 .. m - 1
      BY <1>0, <1>2
    <3>2. ~(i < j) /\ ~(j < i)
      BY <1>1, <1>3, <2>2, <3>1
    <3> QED
      BY <3>1, <3>2
  <2> QED
    BY <2>1, <2>2 DEF Injection, IsInjective
<1>6. \A k \in 0 .. m - 1 : \E i \in S : rank[i] = k
  <2>1. rank \in Surjection(S, 0 .. m - 1)
    BY <1>1, <1>5, FS_Injection DEF m
  <2> QED
    BY <2>1 DEF Surjection
<1>7. F \subseteq S /\ IsFiniteSet(F) /\ Cardinality(F) \in Nat
  BY <1>4, FS_Subset, FS_CardinalityType
<1>8. CASE m <= n
  <2>1. F = S
    <3>1. \A i \in S : rank[i] \in 0 .. m - 1
      BY <1>5 DEF Injection
    <3>2. \A i \in S : rank[i] < n
      BY <1>1, <1>8, <3>1
    <3> QED
      BY <1>4, <3>2
  <2> QED
    BY <1>1, <1>7, <1>8, <2>1 DEF F, m
<1>9. CASE ~(m <= n)
  <2> DEFINE part == [i \in F |-> rank[i]]
  <2>1. IsFiniteSet(0 .. n - 1) /\ Cardinality(0 .. n - 1) = n
    BY FS_Interval
  <2>2. part \in [F -> 0 .. n - 1]
    <3>1. \A i \in S : rank[i] \in 0 .. m - 1
      BY <1>5 DEF Injection
    <3>2. \A i \in F : rank[i] \in 0 .. n - 1
      BY <1>1, <1>4, <3>1
    <3> QED
      BY <3>2
  <2>3. part \in Injection(F, 0 .. n - 1)
    BY <1>5, <1>7, <2>2 DEF Injection, IsInjective
  <2>4. part \in Surjection(F, 0 .. n - 1)
    <3>1. ASSUME NEW k \in 0 .. n - 1 PROVE \E i \in F : part[i] = k
      <4>1. k \in 0 .. m - 1 /\ k < n
        BY <1>1, <1>9
      <4>2. PICK i \in S : rank[i] = k
        BY <1>6, <4>1
      <4> QED
        BY <1>4, <4>1, <4>2
    <3> QED
      BY <2>2, <3>1 DEF Surjection
  <2>5. Cardinality(F) = Cardinality(0 .. n - 1)
    BY <1>7, <2>1, <2>3, <2>4, FS_Surjection
  <2> QED
    BY <1>7, <2>1, <2>5 DEF F
<1> QED
  BY <1>8, <1>9

CacheSmall ==
  /\ \A id \in Cached : cache[id].at \in 0 .. clock /\ (cache[id].found => id \in Listed)
  /\ faults \in 0 .. MaxFaults

\* What a call has in hand is within the limit and the budget, and what it says is listed is.
CallSmall(c) ==
  /\ Cardinality(flying[c]) <= Limit
  /\ Cardinality(missing[c]) + Cardinality(flying[c]) + Len(fetched[c]) <= Budget
  /\ \A j \in 1 .. Len(fetched[c]) : fetched[c][j].found => fetched[c][j].id \in Listed
  /\ reply[c] \subseteq Listed \cap At(asked[c], DOMAIN asked[c])
  /\ pc[c] = "idle" => reply[c] = {}

\* What was promised is all that was asked, or a budget more than was known.
Planned(c) ==
  pc[c] # "idle" =>
    \/ promised[c] = At(asked[c], DOMAIN asked[c])
    \/ Cardinality(promised[c]) >= known[c] + Budget

SInv ==
  /\ BInv
  /\ CacheSmall
  /\ \A c \in Calls : CallSmall(c)

LEMMA InitSInv == Init => SInv
<1> SUFFICES ASSUME Init PROVE SInv
  OBVIOUS
<1>1. Cardinality({}) = 0
  BY FS_EmptySet
<1>2. Cached = {}
  BY DEF Init, Cached
<1>3. CacheSmall
  BY <1>2, BatchAssumption DEF Init, CacheSmall
<1>4. ASSUME NEW c \in Calls PROVE CallSmall(c)
  <2>1. /\ flying[c] = {} /\ missing[c] = {} /\ fetched[c] = <<>> /\ reply[c] = {}
        /\ Len(fetched[c]) = 0
    BY DEF Init
  <2> QED
    BY <1>1, <2>1, BatchAssumption DEF CallSmall
<1> QED
  BY <1>3, <1>4, InitBInv DEF SInv

LEMMA PlacesAreFinite ==
  ASSUME BInv, NEW c \in Calls
  PROVE  /\ IsFiniteSet(missing[c]) /\ Cardinality(missing[c]) \in Nat /\ missing[c] \subseteq Nat
         /\ IsFiniteSet(flying[c]) /\ Cardinality(flying[c]) \in Nat /\ flying[c] \subseteq Nat
         /\ fetched[c] \in Seq(Answers) /\ Len(fetched[c]) \in Nat
<1>1. asked[c] \in Seq(Ids) /\ fetched[c] \in Seq(Answers)
  BY DEF BInv, Types
<1>2. DOMAIN asked[c] = 1 .. Len(asked[c]) /\ Len(asked[c]) \in Nat
  BY <1>1
<1>3. IsFiniteSet(DOMAIN asked[c])
  BY <1>2, FS_Interval
<1>4. missing[c] \subseteq DOMAIN asked[c] /\ flying[c] \subseteq DOMAIN asked[c]
  BY DEF BInv, InOrder
<1> QED
  BY <1>1, <1>2, <1>3, <1>4, FS_Subset, FS_CardinalityType

\* What a step does not touch stays small.
LEMMA CallSmallStands ==
  ASSUME NEW d, CallSmall(d),
         flying'[d] = flying[d], missing'[d] = missing[d], fetched'[d] = fetched[d],
         reply'[d] = reply[d], asked'[d] = asked[d], pc'[d] = "idle" => pc[d] = "idle"
  PROVE  CallSmall(d)'
BY DEF CallSmall

LEMMA CacheSmallStands == ASSUME CacheSmall, UNCHANGED <<cache, clock, faults>> PROVE CacheSmall'
BY DEF CacheSmall, Cached

LEMMA AskSmall == ASSUME SInv, NEW c \in Calls, NEW ids \in Requests, Ask(c, ids) PROVE SInv'
<1>1. /\ pc[c] = "idle" /\ UNCHANGED <<cache, clock, faults, flying, fetched, reply>>
      /\ \A d \in Calls \ {c} : pc'[d] = pc[d] /\ asked'[d] = asked[d] /\ missing'[d] = missing[d]
      /\ asked'[c] = ids /\ missing'[c] = ToFetch(ids) /\ pc'[c] = "fetching"
  BY DEF Ask, SInv, BInv, Types
<1>2. BInv'
  BY AskKeepsInv DEF SInv, Next
<1>3. flying[c] = {} /\ fetched[c] = <<>> /\ reply[c] = {}
  BY <1>1 DEF SInv, BInv, InOrder, CallSmall
<1>4. Cardinality(ToFetch(ids)) \in 0 .. Budget
  <2>1. ids \in Seq(Ids)
    BY BatchAssumption
  <2>2. DOMAIN ids = 1 .. Len(ids) /\ Len(ids) \in Nat
    BY <2>1
  <2>3. Stale(ids) \in SUBSET Nat /\ IsFiniteSet(Stale(ids))
    <3>1. Stale(ids) \subseteq DOMAIN ids
      BY DEF Stale
    <3>2. IsFiniteSet(DOMAIN ids) /\ DOMAIN ids \subseteq Nat
      BY <2>2, FS_Interval
    <3> QED
      BY <3>1, <3>2, FS_Subset
  <2> QED
    BY <2>3, TakenPlaces, BatchAssumption DEF ToFetch
<1>5. CallSmall(c)'
  <2>1. Cardinality({}) = 0 /\ Len(<<>>) = 0
    BY FS_EmptySet
  <2>2. Cardinality(flying'[c]) = 0 /\ Len(fetched'[c]) = 0 /\ Cardinality(missing'[c]) \in 0 .. Budget
    BY <1>1, <1>3, <1>4, <2>1
  <2> QED
    BY <1>1, <1>3, <2>2, BatchAssumption DEF CallSmall
<1>6. ASSUME NEW d \in Calls \ {c} PROVE CallSmall(d)'
  BY <1>1, <1>6, CallSmallStands DEF SInv
<1> QED
  BY <1>1, <1>2, <1>5, <1>6, CacheSmallStands DEF SInv

LEMMA StartSmall == ASSUME SInv, NEW c \in Calls, Start(c) PROVE SInv'
<1>1. PICK i \in FirstOf(missing[c], 1) :
        /\ flying' = [flying EXCEPT ![c] = @ \cup {i}]
        /\ missing' = [missing EXCEPT ![c] = @ \ {i}]
  BY DEF Start
<1>2. /\ Cardinality(flying[c]) < Limit /\ i \in missing[c]
      /\ UNCHANGED <<cache, clock, pc, asked, fetched, reply, faults>>
      /\ flying'[c] = flying[c] \cup {i} /\ missing'[c] = missing[c] \ {i}
      /\ \A d \in Calls \ {c} : flying'[d] = flying[d] /\ missing'[d] = missing[d]
  BY <1>1 DEF Start, FirstOf, SInv, BInv, Types
<1>3. BInv'
  BY StartKeepsInv DEF SInv
<1>4. CallSmall(c)'
  <2>1. /\ IsFiniteSet(missing[c]) /\ Cardinality(missing[c]) \in Nat
        /\ IsFiniteSet(flying[c]) /\ Cardinality(flying[c]) \in Nat /\ Len(fetched[c]) \in Nat
    BY PlacesAreFinite DEF SInv
  <2>2. Cardinality(missing'[c]) = Cardinality(missing[c]) - 1
    <3>1. Cardinality(missing[c] \ {i}) = Cardinality(missing[c]) - 1
      BY <1>2, <2>1, FS_RemoveElement
    <3> QED
      BY <1>2, <3>1
  <2>3. \/ Cardinality(flying'[c]) = Cardinality(flying[c]) + 1
        \/ Cardinality(flying'[c]) = Cardinality(flying[c])
    <3>1. \/ Cardinality(flying[c] \cup {i}) = Cardinality(flying[c]) + 1
          \/ Cardinality(flying[c] \cup {i}) = Cardinality(flying[c])
      BY <2>1, FS_AddElement
    <3> QED
      BY <1>2, <3>1
  <2>4. CallSmall(c)
    BY DEF SInv
  <2>5. Cardinality(flying'[c]) <= Limit
    BY <1>2, <2>1, <2>3, BatchAssumption
  <2>6. Cardinality(missing'[c]) + Cardinality(flying'[c]) + Len(fetched'[c]) <= Budget
    <3>1. Cardinality(missing[c]) + Cardinality(flying[c]) + Len(fetched[c]) <= Budget
      BY <2>4 DEF CallSmall
    <3>2. Len(fetched'[c]) = Len(fetched[c]) /\ Budget \in Nat
      BY <1>2, BatchAssumption
    <3> QED
      BY <2>1, <2>2, <2>3, <3>1, <3>2
  <2> QED
    BY <1>2, <2>4, <2>5, <2>6 DEF CallSmall
<1>5. ASSUME NEW d \in Calls \ {c} PROVE CallSmall(d)'
  BY <1>2, <1>5, CallSmallStands DEF SInv
<1> QED
  BY <1>2, <1>3, <1>4, <1>5, CacheSmallStands DEF SInv

LEMMA FetchedSmall ==
  ASSUME SInv, BInv', NEW c \in Calls, NEW i \in flying[c], NEW found \in BOOLEAN, Fetched(c, i, found),
         found => asked[c][i] \in Listed, faults' \in 0 .. MaxFaults
  PROVE  SInv'
<1> DEFINE answer == [id |-> asked[c][i], found |-> found]
<1>1. /\ UNCHANGED <<cache, clock, pc, asked, missing, reply>>
      /\ fetched'[c] = Append(fetched[c], answer) /\ flying'[c] = flying[c] \ {i}
      /\ \A d \in Calls \ {c} : fetched'[d] = fetched[d] /\ flying'[d] = flying[d]
  BY DEF Fetched, SInv, BInv, Types
<1>2. CallSmall(c)'
  <2>1. /\ IsFiniteSet(flying[c]) /\ Cardinality(flying[c]) \in Nat /\ Cardinality(missing[c]) \in Nat
        /\ fetched[c] \in Seq(Answers) /\ Len(fetched[c]) \in Nat
    BY PlacesAreFinite DEF SInv
  <2>2. Cardinality(flying'[c]) = Cardinality(flying[c]) - 1
    <3>1. Cardinality(flying[c] \ {i}) = Cardinality(flying[c]) - 1
      BY <2>1, FS_RemoveElement
    <3> QED
      BY <1>1, <3>1
  <2>3. answer \in Answers /\ answer.id = asked[c][i] /\ answer.found = found
    BY DEF Answers, SInv, BInv, Types, InOrder
  <2> HIDE DEF answer
  <2>4. /\ Len(fetched'[c]) = Len(fetched[c]) + 1
        /\ \A j \in 1 .. Len(fetched[c]) : fetched'[c][j] = fetched[c][j]
        /\ fetched'[c][Len(fetched[c]) + 1] = answer
    BY <1>1, <2>1, <2>3
  <2>5. CallSmall(c)
    BY DEF SInv
  <2>6. Cardinality(flying'[c]) <= Limit
    BY <2>1, <2>2, <2>5, BatchAssumption DEF CallSmall
  <2>7. Cardinality(missing'[c]) + Cardinality(flying'[c]) + Len(fetched'[c]) <= Budget
    BY <1>1, <2>1, <2>2, <2>4, <2>5, BatchAssumption DEF CallSmall
  <2>8. ASSUME NEW j \in 1 .. Len(fetched'[c]), fetched'[c][j].found PROVE fetched'[c][j].id \in Listed
    <3>1. j \in 1 .. Len(fetched[c]) \/ j = Len(fetched[c]) + 1
      BY <2>1, <2>4
    <3>2. CASE j = Len(fetched[c]) + 1
      BY <2>3, <2>4, <2>8, <3>2
    <3>3. CASE j \in 1 .. Len(fetched[c])
      BY <2>4, <2>5, <2>8, <3>3 DEF CallSmall
    <3> QED
      BY <3>1, <3>2, <3>3
  <2> QED
    BY <1>1, <2>5, <2>6, <2>7, <2>8 DEF CallSmall
<1>3. ASSUME NEW d \in Calls \ {c} PROVE CallSmall(d)'
  BY <1>1, <1>3, CallSmallStands DEF SInv
<1>4. CacheSmall'
  BY <1>1 DEF SInv, CacheSmall, Cached
<1> QED
  BY <1>2, <1>3, <1>4 DEF SInv

LEMMA StoreSmall == ASSUME SInv, NEW c \in Calls, Store(c) PROVE SInv'
<1> DEFINE first == Head(fetched[c])
<1>1. /\ UNCHANGED <<clock, asked, missing, flying, reply, faults>>
      /\ cache' = [cache EXCEPT ![first.id] = [found |-> first.found, at |-> clock]]
      /\ fetched[c] # <<>> /\ fetched'[c] = Tail(fetched[c]) /\ pc'[c] = "evicting"
      /\ \A d \in Calls \ {c} : fetched'[d] = fetched[d] /\ pc'[d] = pc[d]
  BY DEF Store, SInv, BInv, Types
<1>2. BInv'
  BY StoreKeepsInv DEF SInv
<1>3. fetched[c] \in Seq(Answers) /\ CallSmall(c)
  BY PlacesAreFinite DEF SInv
<1>4. /\ Len(fetched[c]) \in Nat \ {0} /\ Len(fetched'[c]) = Len(fetched[c]) - 1
      /\ first = fetched[c][1] /\ first \in Answers
      /\ \A j \in 1 .. Len(fetched'[c]) : fetched'[c][j] = fetched[c][j + 1]
  BY <1>1, <1>3
<1>5. CacheSmall'
  <2>1. first.id \in Ids /\ first.found \in BOOLEAN /\ (first.found => first.id \in Listed)
    BY <1>3, <1>4 DEF Answers, CallSmall
  <2> HIDE DEF first
  <2>2. clock \in 0 .. clock
    BY DEF SInv, BInv, Types
  <2>3. /\ cache'[first.id] = [found |-> first.found, at |-> clock]
        /\ \A k \in Ids \ {first.id} : cache'[k] = cache[k]
    BY <1>1, <2>1 DEF SInv, BInv, Types
  <2> QED
    BY <1>1, <2>1, <2>2, <2>3 DEF SInv, CacheSmall, Cached
<1>6. CallSmall(c)'
  <2>1. Cardinality(missing[c]) \in Nat /\ Cardinality(flying[c]) \in Nat
    BY PlacesAreFinite DEF SInv
  <2>2. Cardinality(missing'[c]) + Cardinality(flying'[c]) + Len(fetched'[c]) <= Budget
    <3>1. Cardinality(missing[c]) + Cardinality(flying[c]) + Len(fetched[c]) <= Budget
      BY <1>3 DEF CallSmall
    <3>2. missing'[c] = missing[c] /\ flying'[c] = flying[c] /\ Budget \in Nat
      BY <1>1, BatchAssumption
    <3> QED
      BY <1>4, <2>1, <3>1, <3>2
  <2>3. ASSUME NEW j \in 1 .. Len(fetched'[c]), fetched'[c][j].found PROVE fetched'[c][j].id \in Listed
    <3>1. j + 1 \in 1 .. Len(fetched[c]) /\ fetched'[c][j] = fetched[c][j + 1]
      BY <1>4
    <3> QED
      BY <1>3, <2>3, <3>1 DEF CallSmall
  <2> QED
    BY <1>1, <1>3, <2>2, <2>3 DEF CallSmall
<1>7. ASSUME NEW d \in Calls \ {c} PROVE CallSmall(d)'
  BY <1>1, <1>7, CallSmallStands DEF SInv
<1> QED
  BY <1>2, <1>5, <1>6, <1>7 DEF SInv

LEMMA EvictSmall == ASSUME SInv, NEW c \in Calls, Evict(c) PROVE SInv'
<1>1. /\ UNCHANGED <<clock, asked, missing, flying, fetched, reply, faults>>
      /\ \A d \in Calls : pc'[d] = "idle" => pc[d] = "idle"
  BY DEF Evict, SInv, BInv, Types
<1>2. CacheSmall'
  BY <1>1, EvictedCache DEF SInv, BInv, CacheSmall
<1>3. ASSUME NEW d \in Calls PROVE CallSmall(d)'
  BY <1>1, CallSmallStands DEF SInv
<1> QED
  BY <1>2, <1>3, EvictKeepsInv DEF SInv

LEMMA ReplySmall == ASSUME SInv, NEW c \in Calls, Reply(c) PROVE SInv'
<1>1. /\ UNCHANGED <<cache, clock, asked, missing, flying, fetched, faults>>
      /\ pc[c] = "storing"
      /\ reply'[c] = {id \in At(asked[c], DOMAIN asked[c]) \cap Fresh : cache[id].found}
      /\ pc'[c] = "replied"
      /\ \A d \in Calls \ {c} : reply'[d] = reply[d] /\ pc'[d] = pc[d]
  BY DEF Reply, SInv, BInv, Types
<1>2. reply'[c] \subseteq Listed \cap At(asked'[c], DOMAIN asked'[c])
  BY <1>1 DEF SInv, CacheSmall, Fresh
<1>3. CallSmall(c)'
  <2>1. CallSmall(c)
    BY DEF SInv
  <2> QED
    BY <1>1, <1>2, <2>1 DEF CallSmall
<1>4. ASSUME NEW d \in Calls \ {c} PROVE CallSmall(d)'
  BY <1>1, <1>4, CallSmallStands DEF SInv
<1> QED
  BY <1>1, <1>3, <1>4, ReplyKeepsInv, CacheSmallStands DEF SInv

LEMMA SInvInductive == SInv /\ [Next]_vars => SInv'
<1> SUFFICES ASSUME SInv, [Next]_vars PROVE SInv'
  OBVIOUS
<1>1. BInv'
  BY BInvInductive DEF SInv
<1>2. ASSUME NEW c \in Calls, NEW ids \in Requests, Ask(c, ids) PROVE SInv'
  BY <1>2, AskSmall
<1>3. ASSUME NEW c \in Calls, Answer(c) PROVE SInv'
  <2>1. PICK i \in flying[c] : Fetched(c, i, asked[c][i] \in Listed) /\ UNCHANGED faults
    BY <1>3 DEF Answer
  <2>2. (asked[c][i] \in Listed) \in BOOLEAN /\ faults' \in 0 .. MaxFaults
    BY <2>1 DEF SInv, CacheSmall
  <2> QED
    BY <1>1, <2>1, <2>2, FetchedSmall
<1>4. ASSUME NEW c \in Calls, FetchFails(c) PROVE SInv'
  <2>1. PICK i \in flying[c] : faults < MaxFaults /\ faults' = faults + 1 /\ Fetched(c, i, FALSE)
    BY <1>4 DEF FetchFails
  <2>2. faults' \in 0 .. MaxFaults
    BY <2>1, BatchAssumption DEF SInv, CacheSmall
  <2> QED
    BY <1>1, <2>1, <2>2, FetchedSmall
<1>5. ASSUME NEW c \in Calls, Collect(c) PROVE SInv'
  <2>1. /\ UNCHANGED <<cache, clock, asked, missing, flying, fetched, reply, faults>>
        /\ pc' = [pc EXCEPT ![c] = "storing"] /\ pc[c] = "fetching"
    BY <1>5 DEF Collect
  <2>2. ASSUME NEW d \in Calls PROVE CallSmall(d)'
    <3>1. pc'[d] = "idle" => pc[d] = "idle"
      BY <2>1 DEF SInv, BInv, Types
    <3> QED
      BY <2>1, <3>1, CallSmallStands DEF SInv
  <2> QED
    BY <1>1, <2>1, <2>2, CacheSmallStands DEF SInv
<1>6. CASE Tick \/ UNCHANGED vars
  <2>1. /\ UNCHANGED <<cache, pc, asked, missing, flying, fetched, reply, faults>>
        /\ clock' = clock \/ clock' = clock + 1
    BY <1>6 DEF Tick, vars, callVars
  <2>2. \A n \in 0 .. clock : n \in 0 .. clock'
    BY <2>1 DEF SInv, BInv, Types
  <2>3. CacheSmall'
    BY <2>1, <2>2 DEF SInv, CacheSmall, Cached
  <2>4. ASSUME NEW d \in Calls PROVE CallSmall(d)'
    BY <2>1, CallSmallStands DEF SInv
  <2> QED
    BY <1>1, <2>3, <2>4 DEF SInv
<1> QED
  BY <1>2, <1>3, <1>4, <1>5, <1>6, StartSmall, StoreSmall, EvictSmall, ReplySmall
     DEF Next

\* A batched query has at most CONCURRENCY_LIMIT fetches under way and never fetches more
\* ids than its budget (store/mod.rs), and its reply has only ids that were asked for and
\* have a listing, however calls overlap and fail.
THEOREM QueriesKeepToLimits == Spec => []TypeOK
<1>1. SInv => TypeOK
  BY DEF SInv, BInv, Types, InOrder, CacheSmall, CallSmall, TypeOK, Entries, Cached
<1> QED
  BY <1>1, InitSInv, SInvInductive, PTL DEF Spec

--------------------------------------------------------------------------------
(* What the cache has above its capacity *)

\* An eviction takes one entry, or leaves no more than the capacity.
LEMMA EvictionPays ==
  ASSUME NEW present, IsFiniteSet(present), NEW cap \in Nat,
         NEW at, NEW now, NEW ttl, NEW kept \in Evictions({}, present, at, now, ttl, cap)
  PROVE  /\ IsFiniteSet(kept) /\ Cardinality(kept) \in Nat
         /\ Cardinality(kept) <= cap \/ Cardinality(kept) <= Cardinality(present) - 1
<1> DEFINE fresh == {k \in present : now - at[k] < ttl}
<1>1. /\ fresh \subseteq present /\ IsFiniteSet(fresh)
      /\ Cardinality(fresh) \in Nat /\ Cardinality(present) \in Nat
      /\ Cardinality(fresh) <= Cardinality(present)
  BY FS_Subset, FS_CardinalityType
<1>2. {} \cup fresh = fresh
  OBVIOUS
<1>3. kept \in IF Cardinality(fresh) > cap /\ fresh # {}
               THEN {fresh \ {k} : k \in Oldest(fresh, at)} ELSE {fresh}
  BY <1>2 DEF Evictions
<1> HIDE DEF fresh
<1>4. CASE Cardinality(fresh) > cap /\ fresh # {}
  <2>1. PICK k \in fresh : kept = fresh \ {k}
    BY <1>3, <1>4 DEF Oldest
  <2>2. IsFiniteSet(kept) /\ Cardinality(kept) = Cardinality(fresh) - 1
    BY <1>1, <2>1, FS_RemoveElement
  <2>3. Cardinality(kept) \in Nat
    BY <2>2, FS_CardinalityType
  <2> QED
    BY <1>1, <2>2, <2>3
<1>5. CASE ~(Cardinality(fresh) > cap /\ fresh # {})
  BY <1>1, <1>3, <1>5, FS_EmptySet
<1> QED
  BY <1>4, <1>5

\* Between their insertion and their eviction are finitely many calls.
OInv == Types /\ IsFiniteSet(Evicting) /\ CapIsPaidBack

LEMMA CachedIsFinite == IsFiniteSet(Cached) /\ Cardinality(Cached) \in Nat
BY BatchAssumption, FS_Subset, FS_CardinalityType DEF Cached

\* One entry more at most, and one eviction more to come.
LEMMA StoreOwes == ASSUME OInv, Types', NEW c \in Calls, Store(c) PROVE OInv'
<1> DEFINE id == Head(fetched[c]).id
<1>1. /\ pc[c] = "storing" /\ pc' = [pc EXCEPT ![c] = "evicting"]
      /\ cache' = [cache EXCEPT ![id] = [found |-> Head(fetched[c]).found, at |-> clock]]
  BY DEF Store
<1>2. Cached' \subseteq Cached \cup {id}
  BY <1>1 DEF OInv, Types, Cached
<1>3. Evicting' = Evicting \cup {c} /\ c \notin Evicting
  BY <1>1 DEF OInv, Types, Evicting
<1> HIDE DEF id
<1>4. /\ IsFiniteSet(Evicting') /\ Cardinality(Evicting') = Cardinality(Evicting) + 1
      /\ Cardinality(Evicting) \in Nat
  BY <1>3, FS_AddElement, FS_CardinalityType DEF OInv
<1>5. Cardinality(Cached') <= Cardinality(Cached) + 1
  <2>1. /\ IsFiniteSet(Cached \cup {id})
        /\ \/ Cardinality(Cached \cup {id}) = Cardinality(Cached) + 1
           \/ Cardinality(Cached \cup {id}) = Cardinality(Cached)
    BY CachedIsFinite, FS_AddElement
  <2>2. Cardinality(Cached') <= Cardinality(Cached \cup {id}) /\ Cardinality(Cached') \in Nat
    BY <1>2, <2>1, FS_Subset, FS_CardinalityType
  <2> QED
    BY <2>1, <2>2, CachedIsFinite
<1>6. Cardinality(Cached') \in Nat
  <2>1. IsFiniteSet(Cached')
    BY <1>2, CachedIsFinite, FS_AddElement, FS_Subset
  <2> QED
    BY <2>1, FS_CardinalityType
<1> QED
  BY <1>4, <1>5, <1>6, CachedIsFinite, BatchAssumption DEF OInv, CapIsPaidBack

\* One eviction less to come, and one entry less, or no more than the capacity.
LEMMA EvictPays == ASSUME OInv, Types', NEW c \in Calls, Evict(c) PROVE OInv'
<1> DEFINE at == [k \in Cached |-> cache[k].at]
<1>1. PICK kept \in Evictions({}, Cached, at, clock, Ttl, Cap) :
        cache' = [k \in Ids |-> IF k \in kept THEN cache[k] ELSE None]
  BY DEF Evict
<1> HIDE DEF at
<1>2. pc[c] = "evicting" /\ pc' = [pc EXCEPT ![c] = "storing"]
  BY DEF Evict
<1>3. Evicting' = Evicting \ {c} /\ c \in Evicting
  BY <1>2 DEF OInv, Types, Evicting
<1>4. /\ IsFiniteSet(Evicting') /\ Cardinality(Evicting') = Cardinality(Evicting) - 1
      /\ Cardinality(Evicting') \in Nat /\ Cardinality(Evicting) \in Nat
  BY <1>3, FS_RemoveElement, FS_CardinalityType DEF OInv
<1>5. /\ IsFiniteSet(kept) /\ Cardinality(kept) \in Nat
      /\ Cardinality(kept) <= Cap \/ Cardinality(kept) <= Cardinality(Cached) - 1
  BY CachedIsFinite, EvictionPays, BatchAssumption
<1>6. Cached' \subseteq kept
  BY <1>1 DEF Cached
<1>7. Cardinality(Cached') <= Cardinality(kept) /\ Cardinality(Cached') \in Nat
  BY <1>5, <1>6, FS_Subset, FS_CardinalityType
<1> QED
  BY <1>4, <1>5, <1>7, CachedIsFinite, BatchAssumption DEF OInv, CapIsPaidBack

\* FlightCache::evict, "exactly one further entry" (cache/flight.rs): a burst of insertions
\* leaves the map above its capacity, but by no more entries than there are calls between
\* an insertion and its eviction: once they have made theirs it is within it.
THEOREM OvershootIsOwed == Spec => []CapIsPaidBack
<1>1. Init => OInv
  <2> SUFFICES ASSUME Init PROVE OInv
    OBVIOUS
  <2>1. Types
    BY InitBInv DEF BInv
  <2>2. Cached = {} /\ Evicting = {}
    BY DEF Init, Cached, Evicting
  <2> QED
    BY <2>1, <2>2, FS_EmptySet, BatchAssumption DEF OInv, CapIsPaidBack
<1>2. OInv /\ BInv /\ BInv' /\ [Next]_vars => OInv'
  <2> SUFFICES ASSUME OInv, BInv, BInv', [Next]_vars PROVE OInv'
    OBVIOUS
  <2>1. Types'
    BY DEF BInv
  <2>2. ASSUME UNCHANGED cache, \A d \in Calls : pc'[d] = "evicting" <=> pc[d] = "evicting" PROVE OInv'
    <3>1. Cached' = Cached /\ Evicting' = Evicting
      BY <2>2 DEF Cached, Evicting
    <3> QED
      BY <2>1, <3>1 DEF OInv, CapIsPaidBack
  <2>3. ASSUME NEW c \in Calls, NEW ids \in Requests, Ask(c, ids) PROVE OInv'
    BY <2>2, <2>3 DEF Ask, OInv, Types
  <2>4. ASSUME NEW c \in Calls, Start(c) \/ Answer(c) \/ FetchFails(c) \/ Collect(c) \/ Reply(c) PROVE OInv'
    BY <2>2, <2>4 DEF Start, Answer, FetchFails, Fetched, Collect, Reply, OInv, Types
  <2>5. CASE Tick \/ UNCHANGED vars
    BY <2>2, <2>5 DEF Tick, vars, callVars
  <2> QED
    BY <2>1, <2>3, <2>4, <2>5, StoreOwes, EvictPays DEF Next
<1>3. OInv => CapIsPaidBack
  BY DEF OInv
<1> QED
  BY <1>1, <1>2, <1>3, InitBInv, BInvInductive, PTL DEF Spec

--------------------------------------------------------------------------------
(* Progress *)

\* No list has an id twice. One that does spends its budget on the same id again.
ListsAreSets == \A ids \in Requests : \A i, j \in DOMAIN ids : ids[i] = ids[j] => i = j

\* A call that begins promises answers for all of its ids, or for a budget more than
\* have one.
LEMMA BeginsPlanned ==
  ASSUME NEW ids \in Seq(Ids), \A i, j \in DOMAIN ids : ids[i] = ids[j] => i = j,
         NEW p, p = At(ids, (DOMAIN ids \ Stale(ids)) \cup ToFetch(ids))
  PROVE  \/ p = At(ids, DOMAIN ids)
         \/ Cardinality(p) >= Cardinality(Fresh \cap At(ids, DOMAIN ids)) + Budget
<1> DEFINE S == Stale(ids)
           T == ToFetch(ids)
           K == Fresh \cap At(ids, DOMAIN ids)
           A == At(ids, T)
<1>1. DOMAIN ids = 1 .. Len(ids) /\ Len(ids) \in Nat /\ Budget \in Nat
  BY BatchAssumption
<1>2. S \subseteq DOMAIN ids /\ \A i \in DOMAIN ids : i \in S <=> ids[i] \notin Fresh
  BY DEF Stale
<1>3. S \in SUBSET Nat /\ IsFiniteSet(S)
  <2>1. IsFiniteSet(DOMAIN ids) /\ DOMAIN ids \subseteq Nat
    BY <1>1, FS_Interval
  <2> HIDE DEF S
  <2> QED
    BY <1>2, <2>1, FS_Subset
<1>4. T \subseteq S /\ IsFiniteSet(T) /\ (Cardinality(T) = Budget \/ T = S)
  <2>1. T = FirstOf(S, Budget)
    BY DEF ToFetch
  <2> HIDE DEF S, T
  <2> QED
    BY <1>1, <1>3, <2>1, TakenPlaces
<1>5. p = At(ids, (DOMAIN ids \ S) \cup T)
  OBVIOUS
<1> HIDE DEF S, T
<1>6. CASE T = S
  <2>1. (DOMAIN ids \ S) \cup T = DOMAIN ids
    BY <1>2, <1>6
  <2> QED
    BY <1>5, <2>1
<1>7. CASE Cardinality(T) = Budget
  <2>1. p = K \cup A
    <3>1. ASSUME NEW x \in p PROVE x \in K \cup A
      <4>1. PICK i \in (DOMAIN ids \ S) \cup T : x = ids[i]
        BY <1>5, <3>1 DEF At
      <4> QED
        BY <1>2, <4>1 DEF At
    <3>2. ASSUME NEW x \in K PROVE x \in p
      <4>1. PICK i \in DOMAIN ids : x = ids[i]
        BY <3>2 DEF At
      <4> QED
        BY <1>2, <1>5, <3>2, <4>1 DEF At
    <3>3. ASSUME NEW x \in A PROVE x \in p
      BY <1>5, <3>3 DEF At
    <3> QED
      BY <3>1, <3>2, <3>3
  <2>2. K \cap A = {}
    BY <1>2, <1>4 DEF At
  <2>3. IsFiniteSet(K) /\ Cardinality(K) \in Nat
    <3>1. K \subseteq Ids
      BY DEF Fresh, Cached
    <3> HIDE DEF K
    <3> QED
      BY <3>1, BatchAssumption, FS_Subset, FS_CardinalityType
  <2>4. IsFiniteSet(A) /\ Cardinality(A) = Budget
    <3> DEFINE f == [i \in T |-> ids[i]]
    <3>1. f \in Bijection(T, A)
      <4>1. f \in [T -> A] /\ \A x \in A : \E i \in T : f[i] = x
        BY DEF At
      <4>2. \A i, j \in T : f[i] = f[j] => i = j
        BY <1>2, <1>4
      <4> HIDE DEF A
      <4> QED
        BY <4>1, <4>2 DEF Bijection, Injection, Surjection, IsInjective
    <3> HIDE DEF A, f
    <3> QED
      BY <1>4, <1>7, <3>1, FS_Bijection DEF ExistsBijection
  <2> HIDE DEF K, A
  <2>5. Cardinality(K \cup A) = Cardinality(K) + Cardinality(A) - Cardinality(K \cap A)
    BY <2>3, <2>4, FS_Union
  <2>6. Cardinality(K \cap A) = 0
    BY <2>2, FS_EmptySet
  <2>7. Cardinality(p) = Cardinality(K) + Budget
    <3>1. Cardinality(p) = Cardinality(K) + Budget - 0
      BY <2>1, <2>4, <2>5, <2>6
    <3> QED
      BY <1>1, <2>3, <3>1
  <2> QED
    BY <1>1, <2>3, <2>7 DEF K
<1> QED
  BY <1>4, <1>6, <1>7

PInv ==
  /\ SInv
  /\ known \in [Calls -> Nat]
  /\ \A c \in Calls : Planned(c)

LEMMA PInvInductive == ASSUME ListsAreSets PROVE PInv /\ [Next]_vars => PInv'
<1> SUFFICES ASSUME PInv, [Next]_vars PROVE PInv'
  OBVIOUS
<1>1. SInv /\ SInv' /\ Types
  BY SInvInductive DEF PInv, SInv, BInv
<1>2. ASSUME NEW c \in Calls, NEW ids \in Requests, Ask(c, ids) PROVE PInv'
  <2>1. /\ \A d \in Calls \ {c} : /\ pc'[d] = pc[d] /\ asked'[d] = asked[d]
                                  /\ promised'[d] = promised[d] /\ known'[d] = known[d]
        /\ asked'[c] = ids
        /\ promised'[c] = At(ids, (DOMAIN ids \ Stale(ids)) \cup ToFetch(ids))
        /\ known'[c] = Cardinality(Fresh \cap At(ids, DOMAIN ids))
        /\ known' = [known EXCEPT ![c] = Cardinality(Fresh \cap At(ids, DOMAIN ids))]
    BY <1>1, <1>2 DEF Ask, Types, PInv
  <2>2. ids \in Seq(Ids) /\ \A i, j \in DOMAIN ids : ids[i] = ids[j] => i = j
    BY BatchAssumption DEF ListsAreSets
  <2>3. Planned(c)'
    BY <2>1, <2>2, BeginsPlanned DEF Planned
  <2>4. \A d \in Calls \ {c} : Planned(d)'
    BY <2>1 DEF PInv, Planned
  <2>5. Cardinality(Fresh \cap At(ids, DOMAIN ids)) \in Nat
    <3>1. Fresh \cap At(ids, DOMAIN ids) \subseteq Ids
      BY DEF Fresh, Cached
    <3> QED
      BY <3>1, BatchAssumption, FS_Subset, FS_CardinalityType
  <2>6. known' \in [Calls -> Nat]
    BY <2>1, <2>5 DEF PInv
  <2> QED
    BY <1>1, <2>3, <2>4, <2>6 DEF PInv
<1>3. CASE /\ UNCHANGED <<asked, promised, known>>
           /\ \A d \in Calls : pc'[d] = "idle" \/ pc[d] # "idle"
  BY <1>1, <1>3 DEF PInv, Planned
<1>4. ASSUME NEW c \in Calls, Answer(c) \/ FetchFails(c) \/ Start(c)
      PROVE  UNCHANGED <<asked, promised, known, pc>>
  BY <1>4 DEF Answer, FetchFails, Fetched, Start, history
<1>5. ASSUME NEW c \in Calls, Collect(c) \/ Store(c) \/ Evict(c) \/ Reply(c)
      PROVE  /\ UNCHANGED <<asked, promised, known>>
             /\ \A d \in Calls : pc'[d] = "idle" \/ pc[d] # "idle"
  BY <1>1, <1>5 DEF Collect, Store, Evict, Reply, history, Types
<1>6. CASE Tick \/ UNCHANGED vars
  BY <1>3, <1>6 DEF Tick, vars, callVars, history
<1> QED
  BY <1>2, <1>3, <1>4, <1>5, <1>6 DEF Next

\* Repeating a batched query goes through any list of ids (store/mod.rs): unless something
\* was lost from the cache meanwhile, when it replies either all of its ids have an
\* answer, or a whole budget more than when it began, as long as no id is in it twice.
THEOREM RepeatingGetsThrough == ASSUME ListsAreSets PROVE Spec => CallMakesProgress
<1>1. Init => PInv
  BY InitSInv DEF Init, PInv, Planned
<1>2. ASSUME PInv
      PROVE  \A c \in calm : Reply(c) =>
               LET ids == At(asked[c], DOMAIN asked[c])
                   answered == Cardinality(ids \cap Fresh)
               IN  answered = Cardinality(ids) \/ answered >= known[c] + Budget
  <2> SUFFICES ASSUME NEW c \in calm, Reply(c)
               PROVE  LET ids == At(asked[c], DOMAIN asked[c])
                          answered == Cardinality(ids \cap Fresh)
                      IN  answered = Cardinality(ids) \/ answered >= known[c] + Budget
    OBVIOUS
  <2> DEFINE ids == At(asked[c], DOMAIN asked[c])
  <2>1. c \in Calls /\ BInv /\ Planned(c) /\ known[c] \in Nat
    BY <1>2 DEF PInv, SInv, BInv, Types
  <2>2. pc[c] = "storing" /\ fetched[c] = <<>>
    BY DEF Reply
  <2>3. missing[c] = {} /\ flying[c] = {} /\ promised[c] \subseteq ids
    BY <2>1, <2>2 DEF BInv, InOrder
  <2>4. ASSUME NEW id PROVE ~Coming(c, id)
    BY <2>2, <2>3 DEF Coming, At
  <2>5. promised[c] \subseteq Fresh
    BY <2>1, <2>2, <2>4 DEF BInv, PromiseKept, Within
  <2>6. promised[c] = ids \/ Cardinality(promised[c]) >= known[c] + Budget
    BY <2>1, <2>2 DEF Planned
  <2> HIDE DEF ids
  <2>7. /\ Cardinality(promised[c]) <= Cardinality(ids \cap Fresh)
        /\ Cardinality(promised[c]) \in Nat /\ Cardinality(ids \cap Fresh) \in Nat
    <3>1. Fresh \subseteq Ids /\ promised[c] \subseteq ids \cap Fresh
      BY <2>3, <2>5 DEF Fresh, Cached
    <3>2. IsFiniteSet(ids \cap Fresh)
      BY <3>1, BatchAssumption, FS_Subset
    <3> QED
      BY <3>1, <3>2, FS_Subset, FS_CardinalityType
  <2>8. CASE promised[c] = ids
    <3>1. ids \cap Fresh = ids
      BY <2>5, <2>8
    <3> QED
      BY <3>1 DEF ids
  <2>9. CASE Cardinality(promised[c]) >= known[c] + Budget
    <3>1. Cardinality(ids \cap Fresh) >= known[c] + Budget
      BY <2>1, <2>7, <2>9, BatchAssumption
    <3> QED
      BY <3>1 DEF ids
  <2> QED
    BY <2>6, <2>8, <2>9
<1> QED
  BY <1>1, <1>2, PInvInductive, PTL DEF Spec, CallMakesProgress
================================================================================
