--------------------------- MODULE FlightCacheProofs ---------------------------
(***************************************************************************)
(* The cache of src/src/cache/flight.rs keeps its promises for any number  *)
(* of keys, callers, entries, commits and ticks.                           *)
(*                                                                         *)
(* The argument has four parts, each an invariant that rests on the ones   *)
(* before it. Slots: every caller past its look-up has a slot of its key,  *)
(* and a slot nothing points to is empty. Flights: a slot has one driver,  *)
(* and as long as it is unresolved it is in the map or was cleared. Ages:  *)
(* what a slot has, or its driver will bring, is as recent as the last     *)
(* clear() was when its callers came. Room: the resolved entries exceed    *)
(* the capacity by no more than the evictions still to come.               *)
(***************************************************************************)
EXTENDS FlightCache, FiniteSetTheorems, TLAPS

KnowsItsSlot(c) ==
  /\ pc[c] = "idle" \/ key[c] \in Keys
  /\ pc[c] \in {"idle", "lookup"} => cell[c] = None
  /\ pc[c] \notin {"idle", "lookup"} => \E i \in Arcs : cell[c] = <<key[c], i>>
  /\ pc[c] \in {"swap", "evicting"} => Resolved(cell[c])
  /\ pc[c] = "fetching" => val[c] \in 0 .. world

CallersKnowTheirSlot == \A c \in Callers : KnowsItsSlot(c)

EntriesAreKeyed ==
  \A k \in Keys : entries[k] = None \/ \E i \in Arcs : entries[k] = <<k, i>>

FreeIsEmpty == \A s \in Slots : s \notin Held(entries, cell) => slot[s] = Empty

SlotsInv == TypeOK /\ CallersKnowTheirSlot /\ EntriesAreKeyed /\ FreeIsEmpty

OneDriver == \A c, d \in Driving : cell[c] = cell[d] => c = d

DrivenIsUnresolved == \A c \in Driving : ~Resolved(cell[c])

WaitingAreJoined ==
  \A c \in Callers :
    pc[c] \in {"peek", "init", "fetching"} /\ ~Resolved(cell[c]) =>
      entries[key[c]] = cell[c] \/ slot[cell[c]].displaced

FlightsInv == OneDriver /\ DrivenIsUnresolved /\ WaitingAreJoined

FloorsAreCleared == \A c \in Callers : floor[c] <= cleared

MapIsRecent == \A k \in Present : Resolved(entries[k]) => slot[entries[k]].value >= cleared

HeldIsRecent ==
  \A c \in Callers : cell[c] # None /\ Resolved(cell[c]) => slot[cell[c]].value >= floor[c]

FetchesAreRecent ==
  \A d \in Driving :
    /\ \A c \in Callers : cell[c] = cell[d] => val[d] >= floor[c]
    /\ entries[key[d]] = cell[d] => val[d] >= cleared

AgesInv == FloorsAreCleared /\ MapIsRecent /\ HeldIsRecent /\ FetchesAreRecent

Settled == Present \ Pending
Evicting == {c \in Callers : pc[c] = "evicting"}

RoomInv == Cardinality(Settled) <= Cap + Cardinality(Evicting)

--------------------------------------------------------------------------------
(* Slots *)

\* There is an arc to make: those of one key that are in use are each with a
\* caller, as long as the one in the map, if any, is.
LEMMA SpareIsFree ==
  ASSUME SlotsInv, NEW c \in Callers, NEW k \in Keys, entries[k] \in {None, cell[c]}
  PROVE  /\ \E i \in Arcs : Spare(k) = <<k, i>>
         /\ Spare(k) \in Slots \ Held(entries, cell)
<1>1. \E i \in Arcs : <<k, i>> \notin Held(entries, cell)
  <2> SUFFICES ASSUME \A i \in Arcs : <<k, i>> \in Held(entries, cell) PROVE FALSE
    OBVIOUS
  <2>1. ASSUME NEW i \in Arcs PROVE \E d \in Callers : cell[d] = <<k, i>>
    <3>1. CASE \E d \in Callers : cell[d] = <<k, i>>
      BY <3>1
    <3>2. CASE \E l \in Keys : entries[l] = <<k, i>>
      <4>1. PICK l \in Keys : entries[l] = <<k, i>>
        BY <3>2
      <4>2. entries[l] # None
        BY <4>1, CacheAssumption DEF Slots
      <4>3. l = k
        BY <4>1, <4>2 DEF SlotsInv, EntriesAreKeyed
      <4> QED
        BY <4>1, <4>2, <4>3
    <3> QED
      BY <3>1, <3>2 DEF Held
  <2> DEFINE f == [i \in Arcs |-> CHOOSE d \in Callers : cell[d] = <<k, i>>]
  <2>2. \A i \in Arcs : f[i] \in Callers /\ cell[f[i]] = <<k, i>>
    BY <2>1
  <2>3. f \in [Arcs -> Callers]
    BY <2>2
  <2>4. /\ IsFiniteSet(Arcs) /\ IsFiniteSet(Callers)
        /\ Cardinality(Callers) < Cardinality(Arcs)
    BY CacheAssumption, FS_CardinalityType
  <2> HIDE DEF f
  <2>5. \E i, j \in Arcs : i # j /\ f[i] = f[j]
    BY <2>3, <2>4, FS_PigeonHole
  <2> QED
    BY <2>2, <2>5
<1>2. /\ Spare(k) = <<k, CHOOSE i \in Arcs : <<k, i>> \notin Held(entries, cell)>>
  BY DEF Spare
<1> QED
  BY <1>1, <1>2 DEF Slots

\* At the start the map is empty, and so is every slot.
LEMMA SlotsInit == Init => SlotsInv
BY CacheAssumption
   DEF Init, SlotsInv, TypeOK, CallersKnowTheirSlot, KnowsItsSlot, EntriesAreKeyed, FreeIsEmpty, Empty, PC

\* A slot that is swept is kept or emptied.
LEMMA SweptType ==
  ASSUME TypeOK, NEW ents, NEW cells
  PROVE  Sweep(slot, ents, cells) \in
           [Slots -> [value : 0 .. MaxWorld \cup {None}, at : 0 .. MaxClock, displaced : BOOLEAN]]
BY CacheAssumption DEF Sweep, TypeOK, Empty

\* What the sweep leaves of one slot.
LEMMA Swept ==
  ASSUME NEW slots, NEW ents, NEW cells, NEW s \in Slots
  PROVE  Sweep(slots, ents, cells)[s] = IF s \in Held(ents, cells) THEN slots[s] ELSE Empty
BY DEF Sweep

\* A caller past its look-up has a slot.
LEMMA HasSlot ==
  ASSUME SlotsInv, NEW c \in Callers, pc[c] \notin {"idle", "lookup"}
  PROVE  key[c] \in Keys /\ cell[c] \in Slots /\ cell[c] # None
<1>1. key[c] \in Keys
  BY DEF SlotsInv, CallersKnowTheirSlot, KnowsItsSlot
<1>2. PICK i \in Arcs : cell[c] = <<key[c], i>>
  BY DEF SlotsInv, CallersKnowTheirSlot, KnowsItsSlot
<1>3. cell[c] \in Slots
  BY <1>1, <1>2 DEF Slots
<1> QED
  BY <1>1, <1>3, CacheAssumption

\* The locals of a call that ends, and what is swept with them.
LEMMA LeaveType ==
  ASSUME SlotsInv, NEW c \in Callers, NEW from, Leave(c, from),
         entries' \in [Keys -> Slots \cup {None}]
  PROVE  TypeOK'
<1>1. slot' \in [Slots -> [value : 0 .. MaxWorld \cup {None}, at : 0 .. MaxClock, displaced : BOOLEAN]]
  BY SweptType DEF SlotsInv, Leave
<1>2. 0 \in 0 .. MaxWorld
  BY CacheAssumption
<1>3. UNCHANGED worldVars /\ pc' \in [Callers -> PC]
  BY DEF Leave, Goto, SlotsInv, TypeOK, PC
<1>4. /\ key' \in [Callers -> Keys \cup {None}]
      /\ cell' \in [Callers -> Slots \cup {None}]
      /\ val' \in [Callers -> 0 .. MaxWorld \cup {None}]
      /\ floor' \in [Callers -> 0 .. MaxWorld]
  BY <1>2 DEF Leave, SlotsInv, TypeOK
<1> QED
  BY <1>1, <1>3, <1>4 DEF SlotsInv, TypeOK, worldVars

\* clear() changes no type.
LEMMA ClearType ==
  ASSUME TypeOK, ClearAll
  PROVE  /\ entries' \in [Keys -> Slots \cup {None}]
         /\ slot' \in [Slots -> [value : 0 .. MaxWorld \cup {None}, at : 0 .. MaxClock, displaced : BOOLEAN]]
         /\ cleared' = world
<1> DEFINE marked == [s \in Slots |-> [slot[s] EXCEPT !.displaced = @ \/ \E k \in Keys : entries[k] = s]]
<1>1. marked \in [Slots -> [value : 0 .. MaxWorld \cup {None}, at : 0 .. MaxClock, displaced : BOOLEAN]]
  <2>1. ASSUME NEW s \in Slots
        PROVE  [slot[s] EXCEPT !.displaced = @ \/ \E k \in Keys : entries[k] = s]
                 \in [value : 0 .. MaxWorld \cup {None}, at : 0 .. MaxClock, displaced : BOOLEAN]
    BY DEF TypeOK
  <2> QED
    BY <2>1
<1>2. slot' = Sweep(marked, entries', cell)
  BY DEF ClearAll
<1> HIDE DEF marked
<1>3. Empty \in [value : 0 .. MaxWorld \cup {None}, at : 0 .. MaxClock, displaced : BOOLEAN]
  BY CacheAssumption DEF Empty
<1> QED
  BY <1>1, <1>2, <1>3 DEF ClearAll, Sweep

\* Every step of a caller, of a commit, of an invalidation or of the clock keeps the types.
LEMMA TypeInductive == SlotsInv /\ [Next]_vars => TypeOK'
<1> SUFFICES ASSUME SlotsInv, [Next]_vars PROVE TypeOK'
  OBVIOUS
<1> USE CacheAssumption DEF SlotsInv, Goto
<1>1. ASSUME NEW c \in Callers, NEW k \in Keys, Call(c, k) PROVE TypeOK'
  BY <1>1 DEF Call, TypeOK, PC, cacheVars, worldVars
<1>2. ASSUME NEW c \in Callers, NEW k \in Keys, CallForced(c, k) PROVE TypeOK'
  <2>1. ClearAll
    BY <1>2 DEF CallForced
  <2> QED
    BY <1>2, <2>1, ClearType DEF CallForced, TypeOK, PC
<1>3. ASSUME NEW c \in Callers, CellFor(c) PROVE TypeOK'
  <2>1. key[c] \in Keys /\ cell[c] = None
    BY <1>3 DEF CellFor, CallersKnowTheirSlot, KnowsItsSlot
  <2>2. entries[key[c]] = None => Spare(key[c]) \in Slots
    BY <2>1, SpareIsFree
  <2>3. entries' \in [Keys -> Slots \cup {None}]
    BY <1>3, <2>1, <2>2 DEF CellFor, TypeOK, Present
  <2> QED
    BY <1>3, <2>1, <2>3 DEF CellFor, TypeOK, PC, worldVars
<1>4. ASSUME NEW c \in Callers, Peek(c) PROVE TypeOK'
  BY <1>4 DEF Peek, TypeOK, PC, cacheVars, worldVars
<1>5. ASSUME NEW c \in Callers, Hit(c) PROVE TypeOK'
  BY <1>5, LeaveType DEF Hit, TypeOK
<1>6. ASSUME NEW c \in Callers, Swap(c) PROVE TypeOK'
  <2>1. key[c] \in Keys
    BY <1>6 DEF Swap, CallersKnowTheirSlot, KnowsItsSlot
  <2>2. entries[key[c]] = cell[c] => Spare(key[c]) \in Slots
    BY <2>1, SpareIsFree
  <2>3. entries' \in [Keys -> Slots \cup {None}]
    BY <1>6, <2>1, <2>2 DEF Swap, TypeOK
  <2>4. slot' \in [Slots -> [value : 0 .. MaxWorld \cup {None}, at : 0 .. MaxClock, displaced : BOOLEAN]]
    BY <1>6, SweptType DEF Swap
  <2> QED
    BY <1>6, <2>3, <2>4 DEF Swap, TypeOK, PC, worldVars
<1>7. ASSUME NEW c \in Callers, Drive(c) \/ Share(c) PROVE TypeOK'
  BY <1>7 DEF Drive, Share, TypeOK, PC, cacheVars, worldVars
<1>8. ASSUME NEW c \in Callers, Resolve(c) PROVE TypeOK'
  <2>1. cell[c] \in Slots /\ val[c] \in 0 .. world
    BY <1>8, HasSlot DEF Resolve, CallersKnowTheirSlot, KnowsItsSlot
  <2>2. PICK v \in val[c] .. world :
          slot' = [slot EXCEPT ![cell[c]].value = v, ![cell[c]].at = clock]
    BY <1>8 DEF Resolve
  <2>3. v \in 0 .. MaxWorld
    BY <2>1, <2>2 DEF TypeOK
  <2>4. slot' \in [Slots -> [value : 0 .. MaxWorld \cup {None}, at : 0 .. MaxClock, displaced : BOOLEAN]]
    BY <2>1, <2>2, <2>3 DEF TypeOK
  <2> QED
    BY <1>8, <2>4 DEF Resolve, TypeOK, PC, worldVars
<1>9. ASSUME NEW c \in Callers, Evict(c) PROVE TypeOK'
  <2>1. entries' \in [Keys -> Slots \cup {None}]
    BY <1>9 DEF Evict, TypeOK
  <2> QED
    BY <1>9, <2>1, LeaveType DEF Evict
<1>10. ASSUME NEW c \in Callers, Cancel(c) PROVE TypeOK'
  <2>1. PICK from \in {"init", "fetching"} : Leave(c, from)
    BY <1>10 DEF Cancel
  <2> QED
    BY <1>10, <2>1, LeaveType DEF Cancel, TypeOK
<1>11. CASE Commit
  BY <1>11 DEF Commit, TypeOK, cacheVars, callVars
<1>12. CASE Invalidate
  <2>1. ClearAll
    BY <1>12 DEF Invalidate
  <2> QED
    BY <1>12, <2>1, ClearType DEF Invalidate, TypeOK, callVars
<1>13. CASE Tick
  BY <1>13 DEF Tick, TypeOK, cacheVars, callVars
<1>14. CASE UNCHANGED vars
  BY <1>14 DEF vars, TypeOK
<1> QED
  BY <1>1, <1>2, <1>3, <1>4, <1>5, <1>6, <1>7, <1>8, <1>9, <1>10, <1>11, <1>12, <1>13, <1>14
     DEF Next, CallerNext

\* clear() marks the slots of the map, and changes nothing else of a slot that stays.
LEMMA ClearMarks ==
  ASSUME ClearAll, TypeOK, NEW s \in Slots, s \in Held(entries', cell)
  PROVE  /\ slot'[s].value = slot[s].value
         /\ slot'[s].at = slot[s].at
         /\ slot'[s].displaced = (slot[s].displaced \/ \E k \in Keys : entries[k] = s)
<1> DEFINE marked == [t \in Slots |-> [slot[t] EXCEPT !.displaced = @ \/ \E k \in Keys : entries[k] = t]]
<1>1. slot'[s] = marked[s]
  BY Swept DEF ClearAll
<1>2. slot[s] \in [value : 0 .. MaxWorld \cup {None}, at : 0 .. MaxClock, displaced : BOOLEAN]
  BY DEF TypeOK
<1> QED
  BY <1>1, <1>2

\* A step keeps what it says of a slot that somebody still has, unless it resolves it.
LEMMA SlotsKept ==
  ASSUME SlotsInv, [Next]_vars, NEW s \in Slots, s \in Held(entries', cell'),
         \A c \in Callers : Resolve(c) => cell[c] # s
  PROVE  /\ slot'[s].value = slot[s].value
         /\ slot'[s].at = slot[s].at
         /\ slot[s].displaced => slot'[s].displaced
<1> DEFINE Kept == slot'[s] = slot[s]
<1>1. ASSUME NEW c \in Callers, NEW from, Leave(c, from) PROVE Kept
  BY <1>1, Swept DEF Leave
<1>2. ASSUME NEW c \in Callers, Swap(c) PROVE Kept
  BY <1>2, Swept DEF Swap
<1>3. ASSUME NEW c \in Callers,
             \/ \E k \in Keys : Call(c, k)
             \/ CellFor(c) \/ Peek(c) \/ Drive(c) \/ Share(c)
      PROVE  Kept
  BY <1>3 DEF Call, CellFor, Peek, Drive, Share, cacheVars
<1>4. ASSUME NEW c \in Callers, Resolve(c) PROVE Kept
  <2>1. cell[c] \in Slots /\ cell[c] # s
    BY <1>4, HasSlot DEF Resolve, Goto
  <2>2. PICK v \in val[c] .. world :
          slot' = [slot EXCEPT ![cell[c]].value = v, ![cell[c]].at = clock]
    BY <1>4 DEF Resolve
  <2> QED
    BY <2>1, <2>2 DEF SlotsInv, TypeOK
<1>5. ASSUME Commit \/ Tick \/ UNCHANGED vars PROVE Kept
  BY <1>5 DEF Commit, Tick, vars, cacheVars
<1>6. ASSUME ClearAll, UNCHANGED cell
      PROVE  /\ slot'[s].value = slot[s].value
             /\ slot'[s].at = slot[s].at
             /\ slot[s].displaced => slot'[s].displaced
  BY <1>6, ClearMarks DEF SlotsInv
<1>7. ASSUME NEW c \in Callers, Hit(c) \/ Evict(c) \/ Cancel(c) PROVE Kept
  BY <1>1, <1>7 DEF Hit, Evict, Cancel
<1>8. ASSUME (\E c \in Callers, k \in Keys : CallForced(c, k)) \/ Invalidate
      PROVE  ClearAll /\ UNCHANGED cell
  BY <1>8 DEF CallForced, Invalidate, callVars
<1> HIDE DEF Kept
<1>9. Kept \/ (ClearAll /\ UNCHANGED cell)
  BY <1>2, <1>3, <1>4, <1>5, <1>7, <1>8 DEF Next, CallerNext
<1> QED
  BY <1>6, <1>9 DEF Kept

\* A slot is resolved for good, as long as somebody has it.
LEMMA ResolvedStays ==
  ASSUME SlotsInv, [Next]_vars, NEW s \in Slots, s \in Held(entries', cell'), Resolved(s)
  PROVE  Resolved(s)'
<1>1. CASE \A c \in Callers : Resolve(c) => cell[c] # s
  BY <1>1, SlotsKept DEF Resolved
<1>2. ASSUME NEW c \in Callers, Resolve(c), cell[c] = s PROVE Resolved(s)'
  <2>1. val[c] \in 0 .. world
    BY <1>2 DEF Resolve, Goto, SlotsInv, CallersKnowTheirSlot, KnowsItsSlot
  <2>2. PICK v \in val[c] .. world :
          slot' = [slot EXCEPT ![cell[c]].value = v, ![cell[c]].at = clock]
    BY <1>2 DEF Resolve
  <2>3. v # None
    BY <2>1, <2>2, CacheAssumption DEF SlotsInv, TypeOK
  <2>4. slot[s] \in [value : 0 .. MaxWorld \cup {None}, at : 0 .. MaxClock, displaced : BOOLEAN]
    BY DEF SlotsInv, TypeOK
  <2> QED
    BY <1>2, <2>2, <2>3, <2>4 DEF Resolved, SlotsInv, TypeOK
<1> QED
  BY <1>1, <1>2

\* A step is one caller's, and leaves the others where they are, or nobody's.
LEMMA OthersWait ==
  ASSUME SlotsInv, NEW c \in Callers, CallerNext(c), NEW d \in Callers, d # c
  PROVE  /\ pc'[d] = pc[d] /\ key'[d] = key[d] /\ cell'[d] = cell[d]
         /\ val'[d] = val[d] /\ floor'[d] = floor[d]
         /\ UNCHANGED world
<1> DEFINE Waits == /\ pc'[d] = pc[d] /\ key'[d] = key[d] /\ cell'[d] = cell[d]
                    /\ val'[d] = val[d] /\ floor'[d] = floor[d]
                    /\ UNCHANGED world
<1> USE DEF SlotsInv, TypeOK, Goto, worldVars
<1>1. ASSUME NEW from, Leave(c, from) PROVE Waits
  BY <1>1 DEF Leave
<1>2. ASSUME Hit(c) \/ Evict(c) \/ Cancel(c) PROVE Waits
  BY <1>1, <1>2 DEF Hit, Evict, Cancel
<1>3. ASSUME NEW k \in Keys, Call(c, k) \/ CallForced(c, k) PROVE Waits
  BY <1>3 DEF Call, CallForced
<1>4. ASSUME CellFor(c) \/ Peek(c) \/ Swap(c) PROVE Waits
  BY <1>4 DEF CellFor, Peek, Swap
<1>5. ASSUME Drive(c) \/ Share(c) \/ Resolve(c) PROVE Waits
  BY <1>5 DEF Drive, Share, Resolve
<1> HIDE DEF Waits
<1>6. Waits
  BY <1>2, <1>3, <1>4, <1>5 DEF CallerNext
<1> QED
  BY <1>6 DEF Waits

\* What nobody's step does to the callers, and to time.
LEMMA WorldGrows ==
  ASSUME SlotsInv, [Next]_vars
  PROVE  /\ world' \in Nat /\ world <= world'
         /\ (\E c \in Callers : CallerNext(c)) \/ UNCHANGED callVars
<1>1. ASSUME NEW c \in Callers, CallerNext(c) PROVE UNCHANGED world
  BY <1>1
     DEF CallerNext, Call, CallForced, CellFor, Peek, Hit, Swap, Drive, Share, Resolve, Evict, Cancel,
         Leave, worldVars
<1>2. (\E c \in Callers : CallerNext(c)) \/ Commit \/ Invalidate \/ Tick \/ UNCHANGED vars
  BY DEF Next
<1>3. world \in Nat
  BY CacheAssumption DEF SlotsInv, TypeOK
<1> QED
  BY <1>1, <1>2, <1>3 DEF Commit, Invalidate, Tick, vars, callVars

\* Past its look-up a caller has a slot of its key, a resolved one where get_or_fetch relies
\* on its value, and the version its fetch began under is a past one.
LEMMA CallersInductive == SlotsInv /\ [Next]_vars => CallersKnowTheirSlot'
<1> SUFFICES ASSUME SlotsInv, [Next]_vars, NEW d \in Callers
             PROVE  KnowsItsSlot(d)'
  BY DEF CallersKnowTheirSlot
<1>1. ASSUME pc'[d] = pc[d], key'[d] = key[d], cell'[d] = cell[d], val'[d] = val[d]
      PROVE  KnowsItsSlot(d)'
  <2>1. ASSUME pc[d] \in {"swap", "evicting"} PROVE Resolved(cell[d])'
    <3>1. cell[d] \in Slots
      BY <2>1, HasSlot
    <3>2. cell[d] \in Held(entries', cell')
      BY <1>1 DEF Held
    <3>3. Resolved(cell[d])
      BY <2>1 DEF SlotsInv, CallersKnowTheirSlot, KnowsItsSlot
    <3>4. slot'[cell[d]].value # None
      BY <3>1, <3>2, <3>3, ResolvedStays DEF Resolved
    <3> QED
      BY <1>1, <3>4 DEF Resolved
  <2>2. ASSUME pc[d] = "fetching" PROVE val[d] \in 0 .. world'
    <3>1. val[d] \in 0 .. world
      BY <2>2 DEF SlotsInv, CallersKnowTheirSlot, KnowsItsSlot
    <3> QED
      BY <3>1, WorldGrows DEF SlotsInv, TypeOK
  <2> QED
    BY <1>1, <2>1, <2>2 DEF SlotsInv, CallersKnowTheirSlot, KnowsItsSlot
<1>2. ASSUME CallerNext(d) PROVE KnowsItsSlot(d)'
  <2> USE DEF SlotsInv, TypeOK, KnowsItsSlot, Goto
  <2>1. ASSUME NEW k \in Keys, Call(d, k) \/ CallForced(d, k) PROVE KnowsItsSlot(d)'
    BY <2>1 DEF Call, CallForced, CallersKnowTheirSlot
  <2>2. CASE CellFor(d)
    <3>1. key[d] \in Keys /\ cell[d] = None
      BY <2>2 DEF CellFor, CallersKnowTheirSlot
    <3>2. \E i \in Arcs : entries'[key[d]] = <<key[d], i>>
      <4>1. CASE entries[key[d]] = None
        BY <2>2, <3>1, <4>1, SpareIsFree DEF CellFor, Present
      <4>2. CASE entries[key[d]] # None
        BY <2>2, <3>1, <4>2 DEF CellFor, Present, EntriesAreKeyed
      <4> QED
        BY <4>1, <4>2
    <3> QED
      BY <2>2, <3>1, <3>2 DEF CellFor
  <2>3. CASE Peek(d)
    BY <2>3 DEF Peek, CallersKnowTheirSlot, cacheVars, Resolved
  <2>4. CASE Swap(d)
    BY <2>4 DEF Swap, CallersKnowTheirSlot
  <2>5. CASE Drive(d)
    BY <2>5 DEF Drive, CallersKnowTheirSlot, worldVars
  <2>6. CASE Share(d)
    BY <2>6 DEF Share, CallersKnowTheirSlot, cacheVars, Resolved
  <2>7. CASE Resolve(d)
    <3>1. cell[d] \in Slots /\ val[d] \in 0 .. world
      BY <2>7, HasSlot DEF Resolve, CallersKnowTheirSlot
    <3>2. PICK v \in val[d] .. world :
            slot' = [slot EXCEPT ![cell[d]].value = v, ![cell[d]].at = clock]
      BY <2>7 DEF Resolve
    <3>3. slot'[cell[d]].value # None
      BY <3>1, <3>2, CacheAssumption
    <3>4. pc'[d] = "evicting" /\ key'[d] = key[d] /\ cell'[d] = cell[d]
      BY <2>7 DEF Resolve
    <3> QED
      BY <2>7, <3>3, <3>4 DEF Resolve, CallersKnowTheirSlot, Resolved
  <2>8. ASSUME NEW from, Leave(d, from) PROVE KnowsItsSlot(d)'
    BY <2>8 DEF Leave
  <2>9. CASE Hit(d) \/ Evict(d) \/ Cancel(d)
    BY <2>8, <2>9 DEF Hit, Evict, Cancel
  <2> HIDE DEF SlotsInv, TypeOK, KnowsItsSlot, Goto
  <2> QED
    BY <1>2, <2>1, <2>2, <2>3, <2>4, <2>5, <2>6, <2>7, <2>9 DEF CallerNext
<1>3. CASE \E c \in Callers : c # d /\ CallerNext(c)
  BY <1>1, <1>3, OthersWait
<1>4. CASE UNCHANGED callVars
  BY <1>1, <1>4 DEF callVars
<1> QED
  BY <1>2, <1>3, <1>4, WorldGrows

\* What cell_for, the swap and the eviction leave in the map is under its own key.
LEMMA EntriesInductive == SlotsInv /\ [Next]_vars => EntriesAreKeyed'
<1> SUFFICES ASSUME SlotsInv, [Next]_vars PROVE EntriesAreKeyed'
  OBVIOUS
<1> USE DEF SlotsInv, EntriesAreKeyed
<1>1. ASSUME NEW c \in Callers, CellFor(c) PROVE EntriesAreKeyed'
  <2>1. key[c] \in Keys /\ cell[c] = None
    BY <1>1 DEF CellFor, Goto, CallersKnowTheirSlot, KnowsItsSlot
  <2>2. CASE entries[key[c]] = None
    BY <1>1, <2>1, <2>2, SpareIsFree DEF CellFor, TypeOK, Present
  <2>3. CASE entries[key[c]] # None
    BY <1>1, <2>1, <2>3 DEF CellFor, Present
  <2> QED
    BY <2>2, <2>3
<1>2. ASSUME NEW c \in Callers, Swap(c) PROVE EntriesAreKeyed'
  <2>1. key[c] \in Keys
    BY <1>2 DEF Swap, Goto, CallersKnowTheirSlot, KnowsItsSlot
  <2>2. CASE entries[key[c]] = cell[c]
    BY <1>2, <2>1, <2>2, SpareIsFree DEF Swap, TypeOK
  <2>3. CASE entries[key[c]] # cell[c]
    BY <1>2, <2>3 DEF Swap
  <2> QED
    BY <2>2, <2>3
<1>3. ASSUME NEW c \in Callers, Evict(c) PROVE EntriesAreKeyed'
  BY <1>3 DEF Evict
<1>4. CASE ClearAll
  BY <1>4 DEF ClearAll
<1>5. CASE UNCHANGED entries
  BY <1>5
<1> HIDE DEF SlotsInv, EntriesAreKeyed
<1>6. \/ \E c \in Callers : CellFor(c) \/ Swap(c) \/ Evict(c)
      \/ ClearAll
      \/ UNCHANGED entries
  BY DEF Next, CallerNext, Call, CallForced, Peek, Hit, Drive, Share, Resolve, Cancel, Commit, Invalidate,
         Tick, cacheVars, vars
<1> QED
  BY <1>1, <1>2, <1>3, <1>4, <1>5, <1>6

\* A slot that loses its last Arc is emptied: the next one made for the key starts unresolved.
LEMMA FreeInductive == SlotsInv /\ [Next]_vars => FreeIsEmpty'
<1> SUFFICES ASSUME SlotsInv, [Next]_vars, NEW s \in Slots, s \notin Held(entries', cell')
             PROVE  slot'[s] = Empty
  BY DEF FreeIsEmpty
<1>1. ASSUME NEW slots, slot' = Sweep(slots, entries', cell') PROVE slot'[s] = Empty
  BY <1>1, Swept
<1>2. ASSUME NEW c \in Callers, CellFor(c) PROVE slot'[s] = Empty
  <2>1. key[c] \in Keys /\ cell[c] = None
    BY <1>2 DEF CellFor, Goto, SlotsInv, CallersKnowTheirSlot, KnowsItsSlot
  <2>2. s \notin Held(entries, cell)
    <3>1. s # None
      BY CacheAssumption
    <3>2. ASSUME NEW k \in Keys PROVE entries[k] # s
      BY <1>2, <2>1, <3>1, <3>2 DEF CellFor, Held, SlotsInv, TypeOK, Present
    <3>3. ASSUME NEW d \in Callers PROVE cell[d] # s
      BY <1>2, <2>1, <3>1, <3>3 DEF CellFor, Held, SlotsInv, TypeOK
    <3> QED
      BY <3>2, <3>3 DEF Held
  <2> QED
    BY <1>2, <2>2 DEF CellFor, SlotsInv, FreeIsEmpty
<1>3. ASSUME NEW c \in Callers, Resolve(c) PROVE slot'[s] = Empty
  <2>1. s \notin Held(entries, cell)
    BY <1>3 DEF Resolve
  <2>2. cell[c] # s
    BY <2>1 DEF Held
  <2>3. cell[c] \in Slots
    BY <1>3, HasSlot DEF Resolve, Goto
  <2>4. PICK v \in val[c] .. world :
          slot' = [slot EXCEPT ![cell[c]].value = v, ![cell[c]].at = clock]
    BY <1>3 DEF Resolve
  <2>5. slot'[s] = slot[s]
    BY <2>2, <2>3, <2>4 DEF SlotsInv, TypeOK
  <2> QED
    BY <2>1, <2>5 DEF SlotsInv, FreeIsEmpty
<1>4. CASE UNCHANGED <<entries, slot, cell>>
  BY <1>4 DEF SlotsInv, FreeIsEmpty
<1>5. \/ \E slots : slot' = Sweep(slots, entries', cell')
      \/ \E c \in Callers : CellFor(c) \/ Resolve(c)
      \/ UNCHANGED <<entries, slot, cell>>
  <2>1. ASSUME NEW c \in Callers, CallerNext(c) PROVE <1>5!:
    BY <2>1
       DEF CallerNext, Call, CallForced, ClearAll, Peek, Hit, Swap, Drive, Share, Evict, Cancel, Leave,
           cacheVars
  <2> QED
    BY <2>1 DEF Next, Commit, Invalidate, ClearAll, Tick, cacheVars, callVars, vars
<1> QED
  BY <1>1, <1>2, <1>3, <1>4, <1>5

\* The four parts together.
LEMMA SlotsInductive == SlotsInv /\ [Next]_vars => SlotsInv'
BY TypeInductive, CallersInductive, EntriesInductive, FreeInductive DEF SlotsInv

--------------------------------------------------------------------------------
(* How a step changes the map and the callers *)

\* An eviction keeps what is pending, and adds nothing.
LEMMA EvictionKeeps ==
  ASSUME NEW pending, NEW resolved, NEW at, NEW now, NEW ttl, NEW cap, pending \cap resolved = {},
         NEW kept \in Evictions(pending, resolved, at, now, ttl, cap)
  PROVE  pending \subseteq kept /\ kept \subseteq pending \cup resolved
<1> DEFINE fresh == {k \in resolved : now - at[k] < ttl}
<1>1. kept = pending \cup fresh \/ \E k \in Oldest(fresh, at) : kept = (pending \cup fresh) \ {k}
  BY DEF Evictions
<1>2. Oldest(fresh, at) \subseteq fresh
  BY DEF Oldest
<1> QED
  BY <1>1, <1>2

\* What is in the map after a step was there, under the same key, or is new and empty.
LEMMA EntriesChange ==
  ASSUME SlotsInv, [Next]_vars, NEW k \in Keys, entries'[k] # None
  PROVE  /\ cleared' = cleared
         /\ \/ entries'[k] = entries[k]
            \/ entries'[k] \in Slots \ Held(entries, cell) /\ slot'[entries'[k]] = Empty
<1> DEFINE new == entries'[k] \in Slots \ Held(entries, cell) /\ slot'[entries'[k]] = Empty
<1> DEFINE Goal == cleared' = cleared /\ (entries'[k] = entries[k] \/ new)
<1>1. ASSUME NEW c \in Callers, CellFor(c) PROVE Goal
  <2>1. key[c] \in Keys /\ cell[c] = None
    BY <1>1 DEF CellFor, Goto, SlotsInv, CallersKnowTheirSlot, KnowsItsSlot
  <2>2. CASE key[c] \in Present \/ k # key[c]
    BY <1>1, <2>1, <2>2 DEF CellFor, worldVars, SlotsInv, TypeOK
  <2>3. CASE entries[key[c]] = None /\ k = key[c]
    <3>1. entries'[k] = Spare(k) /\ slot' = slot /\ cleared' = cleared
      BY <1>1, <2>3, <2>1 DEF CellFor, worldVars, Present, SlotsInv, TypeOK
    <3>2. Spare(k) \in Slots \ Held(entries, cell)
      BY <2>1, <2>3, SpareIsFree
    <3> QED
      BY <3>1, <3>2 DEF SlotsInv, FreeIsEmpty
  <2> QED
    BY <2>1, <2>2, <2>3 DEF Present
<1>2. ASSUME NEW c \in Callers, Swap(c) PROVE Goal
  <2>1. key[c] \in Keys
    BY <1>2 DEF Swap, Goto, SlotsInv, CallersKnowTheirSlot, KnowsItsSlot
  <2>2. CASE entries[key[c]] # cell[c] \/ k # key[c]
    BY <1>2, <2>1, <2>2 DEF Swap, worldVars, SlotsInv, TypeOK
  <2>3. CASE entries[key[c]] = cell[c] /\ k = key[c]
    <3>1. entries'[k] = Spare(k) /\ slot' = Sweep(slot, entries', cell') /\ cleared' = cleared
      BY <1>2, <2>1, <2>3 DEF Swap, worldVars, SlotsInv, TypeOK
    <3>2. Spare(k) \in Slots \ Held(entries, cell)
      BY <2>1, <2>3, SpareIsFree
    <3> QED
      BY <3>1, <3>2, Swept DEF SlotsInv, FreeIsEmpty
  <2> QED
    BY <2>2, <2>3
<1>3. ASSUME NEW c \in Callers, Evict(c) PROVE Goal
  <2>1. PICK kept \in Evictions(Pending, Present \ Pending, [l \in Present |-> slot[entries[l]].at],
                               clock, Ttl, Cap) :
          entries' = [l \in Keys |-> IF l \in kept THEN entries[l] ELSE None]
    BY <1>3 DEF Evict
  <2>2. cleared' = cleared
    BY <1>3 DEF Evict, Leave, worldVars
  <2> QED
    BY <2>1, <2>2
<1>4. ASSUME ClearAll PROVE FALSE
  BY <1>4 DEF ClearAll
<1>5. ASSUME UNCHANGED <<entries, cleared>> PROVE Goal
  BY <1>5
<1> HIDE DEF Goal
<1>6. \/ \E c \in Callers : CellFor(c) \/ Swap(c) \/ Evict(c)
      \/ ClearAll
      \/ UNCHANGED <<entries, cleared>>
  BY DEF Next, CallerNext, Call, CallForced, Peek, Hit, Drive, Share, Resolve, Cancel, Leave, Commit,
         Invalidate, Tick, cacheVars, worldVars, vars
<1>7. Goal
  BY <1>1, <1>2, <1>3, <1>4, <1>5, <1>6
<1> QED
  BY <1>7 DEF Goal

\* An unresolved slot leaves the map by a clear() only.
LEMMA UnresolvedStays ==
  ASSUME SlotsInv, [Next]_vars, NEW k \in Keys, entries[k] # None, ~Resolved(entries[k])
  PROVE  entries'[k] = entries[k] \/ (ClearAll /\ UNCHANGED cell)
<1>1. ASSUME NEW c \in Callers, CellFor(c) PROVE entries'[k] = entries[k]
  BY <1>1 DEF CellFor, Present, SlotsInv, TypeOK
<1>2. ASSUME NEW c \in Callers, Swap(c) PROVE entries'[k] = entries[k]
  <2>1. Resolved(cell[c])
    BY <1>2 DEF Swap, Goto, SlotsInv, CallersKnowTheirSlot, KnowsItsSlot
  <2> QED
    BY <1>2, <2>1 DEF Swap, SlotsInv, TypeOK
<1>3. ASSUME NEW c \in Callers, Evict(c) PROVE entries'[k] = entries[k]
  <2>1. PICK kept \in Evictions(Pending, Present \ Pending, [l \in Present |-> slot[entries[l]].at],
                               clock, Ttl, Cap) :
          entries' = [l \in Keys |-> IF l \in kept THEN entries[l] ELSE None]
    BY <1>3 DEF Evict
  <2>2. Pending \subseteq kept
    BY EvictionKeeps
  <2>3. k \in Pending
    BY DEF Pending, Present
  <2> QED
    BY <2>1, <2>2, <2>3
<1>4. \/ \E c \in Callers : CellFor(c) \/ Swap(c) \/ Evict(c)
      \/ ClearAll /\ UNCHANGED cell
      \/ UNCHANGED entries
  BY DEF Next, CallerNext, Call, CallForced, Peek, Hit, Drive, Share, Resolve, Cancel, Commit, Invalidate,
         Tick, cacheVars, callVars, vars
<1> QED
  BY <1>1, <1>2, <1>3, <1>4

\* A caller that has a slot after a step had it, and is the same call, or has just
\* looked it up.
LEMMA CellsChange ==
  ASSUME SlotsInv, [Next]_vars, NEW c \in Callers, cell'[c] # None
  PROVE  \/ CellFor(c) /\ cell'[c] = entries'[key[c]] /\ key[c] \in Keys /\ floor'[c] = floor[c]
         \/ /\ cell'[c] = cell[c] /\ key'[c] = key[c] /\ floor'[c] = floor[c]
            /\ pc'[c] \in {"peek", "init", "fetching"} => pc[c] \in {"peek", "init", "fetching"}
            /\ pc'[c] = "fetching" => Drive(c) \/ (pc[c] = "fetching" /\ val'[c] = val[c])
<1> DEFINE Same == /\ cell'[c] = cell[c] /\ key'[c] = key[c] /\ floor'[c] = floor[c]
                   /\ pc'[c] \in {"peek", "init", "fetching"} => pc[c] \in {"peek", "init", "fetching"}
                   /\ pc'[c] = "fetching" => Drive(c) \/ (pc[c] = "fetching" /\ val'[c] = val[c])
           Looked == CellFor(c) /\ cell'[c] = entries'[key[c]] /\ key[c] \in Keys /\ floor'[c] = floor[c]
<1>1. ASSUME CallerNext(c) PROVE Same \/ Looked
  <2> USE DEF Goto, SlotsInv, TypeOK
  <2>1. ASSUME NEW k \in Keys, Call(c, k) \/ CallForced(c, k) PROVE FALSE
    BY <2>1 DEF Call, CallForced, CallersKnowTheirSlot, KnowsItsSlot
  <2>2. CASE CellFor(c)
    BY <2>2 DEF CellFor, CallersKnowTheirSlot, KnowsItsSlot
  <2>3. CASE Peek(c)
    BY <2>3 DEF Peek
  <2>4. CASE Swap(c)
    BY <2>4 DEF Swap
  <2>5. CASE Drive(c)
    BY <2>5 DEF Drive
  <2>6. CASE Share(c)
    BY <2>6 DEF Share
  <2>7. CASE Resolve(c)
    BY <2>7 DEF Resolve
  <2>8. ASSUME NEW from, Leave(c, from) PROVE FALSE
    BY <2>8 DEF Leave
  <2> HIDE DEF Same, Looked
  <2> QED
    BY <1>1, <2>1, <2>2, <2>3, <2>4, <2>5, <2>6, <2>7, <2>8 DEF CallerNext, Hit, Evict, Cancel
<1>2. CASE \E d \in Callers : d # c /\ CallerNext(d)
  BY <1>2, OthersWait
<1>3. CASE UNCHANGED callVars
  BY <1>3 DEF callVars
<1> QED
  BY <1>1, <1>2, <1>3, WorldGrows

--------------------------------------------------------------------------------
(* Flights *)

\* At the start nobody fetches.
LEMMA FlightsInit == Init => FlightsInv
BY DEF Init, FlightsInv, OneDriver, DrivenIsUnresolved, WaitingAreJoined, Driving

\* Who fetches after a step did before, for the same slot, or has just begun.
LEMMA DrivingChange ==
  ASSUME SlotsInv, [Next]_vars, NEW c \in Driving'
  PROVE  /\ c \in Callers /\ cell'[c] = cell[c] /\ key'[c] = key[c] /\ floor'[c] = floor[c]
         /\ cell[c] \in Slots /\ cell[c] # None /\ key[c] \in Keys
         /\ cell[c] \in Held(entries, cell) /\ cell[c] \in Held(entries', cell')
         /\ Drive(c) \/ (c \in Driving /\ val'[c] = val[c])
<1>1. c \in Callers /\ pc'[c] = "fetching"
  BY DEF Driving
<1>2. SlotsInv'
  BY SlotsInductive
<1>3. cell'[c] # None
  <2>1. KnowsItsSlot(c)'
    BY <1>1, <1>2 DEF SlotsInv, CallersKnowTheirSlot
  <2>2. PICK i \in Arcs : cell'[c] = <<key'[c], i>>
    BY <1>1, <2>1 DEF KnowsItsSlot
  <2>3. key'[c] \in Keys
    BY <1>1, <2>1 DEF KnowsItsSlot
  <2> QED
    BY <2>2, <2>3, CacheAssumption DEF Slots
<1>4. ~CellFor(c)
  BY <1>1 DEF CellFor, Goto, SlotsInv, TypeOK
<1>5. /\ cell'[c] = cell[c] /\ key'[c] = key[c] /\ floor'[c] = floor[c]
      /\ pc[c] \in {"peek", "init", "fetching"}
      /\ Drive(c) \/ (pc[c] = "fetching" /\ val'[c] = val[c])
  BY <1>1, <1>3, <1>4, CellsChange
<1>6. key[c] \in Keys /\ cell[c] \in Slots
  BY <1>1, <1>5, HasSlot
<1> QED
  BY <1>1, <1>3, <1>5, <1>6 DEF Driving, Held

\* The permit keeps the drivers of a slot to one, get_or_init keeps a driven slot
\* unresolved, and only clear(), which marks it, takes an unresolved slot out of the map.
LEMMA FlightsInductive == SlotsInv /\ FlightsInv /\ [Next]_vars => FlightsInv'
<1> SUFFICES ASSUME SlotsInv, FlightsInv, [Next]_vars PROVE FlightsInv'
  OBVIOUS
<1>1. OneDriver'
  <2> SUFFICES ASSUME NEW c \in Driving', NEW d \in Driving', cell'[c] = cell'[d] PROVE c = d
    BY DEF OneDriver
  <2>1. cell[c] = cell[d]
    BY DrivingChange
  <2>2. CASE c \in Driving /\ d \in Driving
    BY <2>1, <2>2 DEF FlightsInv, OneDriver
  <2>3. ASSUME NEW e \in Callers, NEW f \in Driving, Drive(e), cell[e] = cell[f] PROVE FALSE
    BY <2>3 DEF Drive
  <2>4. ASSUME Drive(c), Drive(d) PROVE c = d
    BY <2>4, OthersWait DEF Drive, Goto, CallerNext, Driving
  <2> QED
    BY <2>1, <2>2, <2>3, <2>4, DrivingChange
<1>2. DrivenIsUnresolved'
  <2> SUFFICES ASSUME NEW c \in Driving' PROVE ~Resolved(cell[c])'
    BY DEF DrivenIsUnresolved
  <2>1. cell'[c] = cell[c] /\ cell[c] \in Slots
    BY DrivingChange
  <2>2. CASE Drive(c)
    BY <2>1, <2>2 DEF Drive, cacheVars, Resolved
  <2>3. CASE c \in Driving
    <3>1. ASSUME NEW d \in Callers, Resolve(d), cell[d] = cell[c] PROVE FALSE
      <4>1. d \in Driving
        BY <3>1 DEF Resolve, Goto, Driving
      <4>2. d = c
        BY <2>3, <3>1, <4>1 DEF FlightsInv, OneDriver
      <4> QED
        BY <3>1, <4>2 DEF Resolve, Goto, Driving, SlotsInv, TypeOK
    <3>2. slot'[cell[c]].value = slot[cell[c]].value
      BY <2>1, <3>1, SlotsKept, DrivingChange
    <3> QED
      BY <2>1, <2>3, <3>2 DEF FlightsInv, DrivenIsUnresolved, Resolved
  <2> QED
    BY <2>2, <2>3, DrivingChange
<1>3. WaitingAreJoined'
  <2> SUFFICES ASSUME NEW c \in Callers, pc'[c] \in {"peek", "init", "fetching"}, ~Resolved(cell[c])'
               PROVE  entries'[key'[c]] = cell'[c] \/ slot'[cell'[c]].displaced
    BY DEF WaitingAreJoined
  <2>1. SlotsInv'
    BY SlotsInductive
  <2>2. cell'[c] \in Slots /\ cell'[c] # None
    <3>1. KnowsItsSlot(c)'
      BY <2>1 DEF SlotsInv, CallersKnowTheirSlot
    <3>2. PICK i \in Arcs : cell'[c] = <<key'[c], i>>
      BY <3>1 DEF KnowsItsSlot
    <3>3. key'[c] \in Keys
      BY <3>1 DEF KnowsItsSlot
    <3> QED
      BY <3>2, <3>3, CacheAssumption DEF Slots
  <2>3. CASE CellFor(c)
    BY <2>3 DEF CellFor, SlotsInv, TypeOK
  <2>4. ASSUME cell'[c] = cell[c], key'[c] = key[c], pc[c] \in {"peek", "init", "fetching"}
        PROVE  entries'[key'[c]] = cell'[c] \/ slot'[cell'[c]].displaced
    <3>1. cell[c] \in Held(entries', cell')
      BY <2>4 DEF Held
    <3>2. ~Resolved(cell[c])
      <4>1. slot'[cell[c]].value = None
        BY <2>4 DEF Resolved
      <4> QED
        BY <2>2, <2>4, <3>1, <4>1, ResolvedStays DEF Resolved
    <3>3. ASSUME NEW d \in Callers, Resolve(d), cell[d] = cell[c] PROVE FALSE
      <4>1. pc'[d] = "evicting" /\ cell'[d] = cell[d]
        BY <3>3 DEF Resolve, Goto, SlotsInv, TypeOK
      <4>2. Resolved(cell[d])'
        BY <2>1, <4>1 DEF SlotsInv, CallersKnowTheirSlot, KnowsItsSlot
      <4> QED
        BY <2>4, <3>3, <4>1, <4>2 DEF Resolved
    <3>4. slot[cell[c]].displaced => slot'[cell[c]].displaced
      BY <2>2, <2>4, <3>1, <3>3, SlotsKept
    <3>5. key[c] \in Keys
      BY <2>4, HasSlot
    <3>6. CASE entries[key[c]] = cell[c]
      <4>1. entries'[key[c]] = cell[c] \/ (ClearAll /\ UNCHANGED cell)
        BY <2>2, <2>4, <3>2, <3>5, <3>6, UnresolvedStays
      <4>2. ASSUME ClearAll, UNCHANGED cell PROVE slot'[cell[c]].displaced
        BY <2>2, <2>4, <3>1, <3>5, <3>6, <4>2, ClearMarks DEF SlotsInv
      <4> QED
        BY <2>4, <4>1, <4>2
    <3>7. CASE slot[cell[c]].displaced
      BY <2>4, <3>4, <3>7
    <3> QED
      BY <2>4, <3>2, <3>6, <3>7 DEF FlightsInv, WaitingAreJoined
  <2> QED
    BY <2>2, <2>3, <2>4, CellsChange
<1> QED
  BY <1>1, <1>2, <1>3 DEF FlightsInv

--------------------------------------------------------------------------------
(* Ages *)

\* Nothing is older than the initial version.
LEMMA AgesInit == Init => AgesInv
BY DEF Init, AgesInv, FloorsAreCleared, MapIsRecent, HeldIsRecent, FetchesAreRecent, Present, Driving

\* The last clear() is never before an earlier one, and no call began after it.
LEMMA FloorsInductive ==
  ASSUME SlotsInv, FloorsAreCleared, [Next]_vars
  PROVE  FloorsAreCleared' /\ cleared <= cleared' /\ cleared' \in Nat
<1> USE CacheAssumption DEF SlotsInv, TypeOK
<1>1. cleared \in Nat /\ world \in Nat /\ cleared <= world
  OBVIOUS
<1>2. cleared' = cleared \/ cleared' = world
  BY DEF Next, CallerNext, Call, CallForced, ClearAll, CellFor, Peek, Hit, Swap, Drive, Share, Resolve,
         Evict, Cancel, Leave, Commit, Invalidate, Tick, worldVars, vars
<1>3. ASSUME NEW c \in Callers PROVE floor'[c] <= cleared'
  <2>1. floor[c] <= cleared /\ floor[c] \in Nat
    BY DEF FloorsAreCleared
  <2>2. ASSUME CallerNext(c) PROVE floor'[c] \in {0, floor[c], cleared'}
    <3>1. ASSUME NEW k \in Keys, Call(c, k) \/ CallForced(c, k) PROVE floor'[c] = cleared'
      BY <3>1 DEF Call, CallForced, worldVars
    <3>2. ASSUME NEW from, Leave(c, from) PROVE floor'[c] = 0
      BY <3>2 DEF Leave
    <3> QED
      BY <2>2, <3>1, <3>2
         DEF CallerNext, CellFor, Peek, Hit, Swap, Drive, Share, Resolve, Evict, Cancel
  <2>3. floor'[c] \in {0, floor[c], cleared'}
    BY <2>2, OthersWait, WorldGrows DEF callVars
  <2> QED
    BY <1>1, <1>2, <2>1, <2>3
<1> QED
  BY <1>1, <1>2, <1>3 DEF FloorsAreCleared

\* A slot gets its value from the fetch of its driver, under no version older than
\* the one this fetch began under.
LEMMA ValueChange ==
  ASSUME SlotsInv, [Next]_vars, NEW s \in Slots, s \in Held(entries', cell'), slot'[s].value # None
  PROVE  \/ slot'[s].value = slot[s].value
         \/ \E d \in Driving : /\ Resolve(d) /\ cell[d] = s
                               /\ val[d] \in Nat /\ slot'[s].value \in Nat /\ slot'[s].value >= val[d]
<1>1. CASE \A d \in Callers : Resolve(d) => cell[d] # s
  BY <1>1, SlotsKept
<1>2. ASSUME NEW d \in Callers, Resolve(d), cell[d] = s
      PROVE  /\ d \in Driving
             /\ val[d] \in Nat /\ slot'[s].value \in Nat /\ slot'[s].value >= val[d]
  <2>1. d \in Driving /\ val[d] \in 0 .. world
    BY <1>2 DEF Resolve, Goto, Driving, SlotsInv, CallersKnowTheirSlot, KnowsItsSlot
  <2>2. PICK v \in val[d] .. world :
          slot' = [slot EXCEPT ![cell[d]].value = v, ![cell[d]].at = clock]
    BY <1>2 DEF Resolve
  <2>3. slot'[s].value = v
    BY <1>2, <2>2 DEF SlotsInv, TypeOK
  <2> QED
    BY <2>1, <2>2, <2>3, CacheAssumption DEF SlotsInv, TypeOK
<1> QED
  BY <1>1, <1>2

\* A slot is of one key.
LEMMA SlotOfOneKey ==
  ASSUME SlotsInv, NEW d \in Driving, NEW k \in Keys, entries[k] = cell[d]
  PROVE  key[d] = k
<1>1. d \in Callers /\ key[d] \in Keys /\ cell[d] # None
  BY HasSlot DEF Driving
<1>2. PICK i \in Arcs : cell[d] = <<key[d], i>>
  BY DEF Driving, SlotsInv, CallersKnowTheirSlot, KnowsItsSlot
<1>3. PICK j \in Arcs : entries[k] = <<k, j>>
  BY <1>1 DEF SlotsInv, EntriesAreKeyed
<1> QED
  BY <1>2, <1>3

\* A slot in use that the map has after a step, it had before.
LEMMA StillMapped ==
  ASSUME SlotsInv, [Next]_vars, NEW k \in Keys, NEW d \in Driving, entries'[k] = cell[d]
  PROVE  entries[k] = cell[d] /\ key[d] = k /\ cleared' = cleared
<1>1. cell[d] \in Held(entries, cell) /\ cell[d] # None
  BY HasSlot DEF Driving, Held
<1>2. entries[k] = cell[d] /\ cleared' = cleared
  BY <1>1, EntriesChange
<1> QED
  BY <1>2, SlotOfOneKey

\* What the map, the callers and the fetches have stays as recent as the last clear() asks.
LEMMA AgesInductive == SlotsInv /\ AgesInv /\ [Next]_vars => AgesInv'
<1> SUFFICES ASSUME SlotsInv, AgesInv, [Next]_vars PROVE AgesInv'
  OBVIOUS
<1>1. FloorsAreCleared' /\ cleared <= cleared' /\ cleared' \in Nat /\ cleared \in Nat
  BY FloorsInductive, CacheAssumption DEF AgesInv, SlotsInv, TypeOK
<1>2. \A c \in Callers : floor[c] \in Nat /\ floor'[c] \in Nat
  BY SlotsInductive, CacheAssumption DEF SlotsInv, TypeOK
<1>3. \A s \in Slots : slot[s].value # None => slot[s].value \in Nat
  BY CacheAssumption DEF SlotsInv, TypeOK
<1>4. MapIsRecent'
  <2> SUFFICES ASSUME NEW k \in Keys, entries'[k] # None, slot'[entries'[k]].value # None
               PROVE  slot'[entries'[k]].value >= cleared'
    BY DEF MapIsRecent, Present, Resolved
  <2>1. cleared' = cleared /\ entries'[k] = entries[k]
    BY EntriesChange DEF Empty
  <2>2. entries[k] \in Slots /\ entries[k] \in Held(entries', cell')
    BY <2>1 DEF SlotsInv, TypeOK, Held
  <2>3. CASE slot'[entries[k]].value = slot[entries[k]].value
    BY <2>1, <2>2, <2>3 DEF AgesInv, MapIsRecent, Present, Resolved
  <2>4. ASSUME NEW d \in Driving, cell[d] = entries[k],
               val[d] \in Nat, slot'[entries[k]].value \in Nat, slot'[entries[k]].value >= val[d]
        PROVE  slot'[entries[k]].value >= cleared
    <3>1. val[d] >= cleared
      BY <2>4, SlotOfOneKey DEF AgesInv, FetchesAreRecent
    <3> QED
      BY <1>1, <2>4, <3>1
  <2> QED
    BY <2>1, <2>2, <2>3, <2>4, ValueChange
<1>5. HeldIsRecent'
  <2> SUFFICES ASSUME NEW c \in Callers, cell'[c] # None, slot'[cell'[c]].value # None
               PROVE  slot'[cell'[c]].value >= floor'[c]
    BY DEF HeldIsRecent, Resolved
  <2>1. SlotsInv'
    BY SlotsInductive
  <2>2. cell'[c] \in Slots /\ cell'[c] \in Held(entries', cell')
    BY <2>1 DEF SlotsInv, TypeOK, Held
  <2>3. slot'[cell'[c]].value \in Nat
    BY <2>1, <2>2, CacheAssumption DEF SlotsInv, TypeOK
  <2>4. ASSUME cell'[c] = entries'[key[c]], key[c] \in Keys
        PROVE  slot'[cell'[c]].value >= floor'[c]
    <3>1. slot'[cell'[c]].value >= cleared'
      BY <1>4, <2>4 DEF MapIsRecent, Present, Resolved
    <3>2. floor'[c] <= cleared'
      BY <1>1 DEF FloorsAreCleared
    <3> QED
      BY <1>1, <1>2, <2>3, <3>1, <3>2
  <2>5. ASSUME cell'[c] = cell[c], floor'[c] = floor[c]
        PROVE  slot'[cell'[c]].value >= floor'[c]
    <3>1. CASE slot'[cell[c]].value = slot[cell[c]].value
      BY <2>5, <3>1 DEF AgesInv, HeldIsRecent, Resolved
    <3>2. ASSUME NEW d \in Driving, cell[d] = cell[c],
                 val[d] \in Nat, slot'[cell[c]].value \in Nat, slot'[cell[c]].value >= val[d]
          PROVE  slot'[cell[c]].value >= floor[c]
      <4>1. val[d] >= floor[c]
        BY <3>2 DEF AgesInv, FetchesAreRecent
      <4> QED
        BY <1>2, <3>2, <4>1
    <3> QED
      BY <2>2, <2>5, <3>1, <3>2, ValueChange
  <2> QED
    BY <2>4, <2>5, CellsChange
<1>6. FetchesAreRecent'
  <2> SUFFICES ASSUME NEW d \in Driving'
               PROVE  /\ \A c \in Callers : cell'[c] = cell'[d] => val'[d] >= floor'[c]
                      /\ entries'[key'[d]] = cell'[d] => val'[d] >= cleared'
    BY DEF FetchesAreRecent
  <2>1. /\ d \in Callers /\ cell'[d] = cell[d] /\ key'[d] = key[d]
        /\ cell[d] # None /\ key[d] \in Keys
    BY DrivingChange
  <2>2. CASE Drive(d)
    <3>1. val'[d] = world /\ cleared' = cleared /\ cleared <= world /\ world \in Nat
      BY <2>1, <2>2, CacheAssumption DEF Drive, worldVars, SlotsInv, TypeOK
    <3>2. \A c \in Callers : floor'[c] <= cleared'
      BY <1>1 DEF FloorsAreCleared
    <3> QED
      BY <1>1, <1>2, <3>1, <3>2
  <2>3. ASSUME d \in Driving, val'[d] = val[d]
        PROVE  /\ \A c \in Callers : cell'[c] = cell'[d] => val'[d] >= floor'[c]
               /\ entries'[key'[d]] = cell'[d] => val'[d] >= cleared'
    <3>1. ASSUME NEW k \in Keys, entries'[k] = cell[d] PROVE val[d] >= cleared'
      BY <2>3, <3>1, StillMapped DEF AgesInv, FetchesAreRecent
    <3>2. ASSUME NEW c \in Callers, cell'[c] = cell[d] PROVE val[d] >= floor'[c]
      <4>1. CASE cell'[c] = entries'[key[c]] /\ key[c] \in Keys
        <5>1. val[d] >= cleared'
          BY <3>1, <3>2, <4>1
        <5>2. floor'[c] <= cleared' /\ val[d] \in Nat
          BY <1>1, <2>3, CacheAssumption
             DEF FloorsAreCleared, Driving, SlotsInv, TypeOK, CallersKnowTheirSlot, KnowsItsSlot
        <5> QED
          BY <1>1, <1>2, <5>1, <5>2
      <4>2. CASE cell'[c] = cell[c] /\ floor'[c] = floor[c]
        BY <2>3, <3>2, <4>2 DEF AgesInv, FetchesAreRecent
      <4> QED
        BY <2>1, <3>2, <4>1, <4>2, CellsChange
    <3> QED
      BY <2>1, <2>3, <3>1, <3>2
  <2> QED
    BY <2>2, <2>3, DrivingChange
<1> QED
  BY <1>1, <1>4, <1>5, <1>6 DEF AgesInv

--------------------------------------------------------------------------------
(* Room *)

\* The sets counted here are of keys and of callers.
LEMMA FiniteRoom ==
  /\ IsFiniteSet(Present) /\ IsFiniteSet(Pending) /\ IsFiniteSet(Settled) /\ IsFiniteSet(Abandoned)
  /\ IsFiniteSet(Evicting) /\ IsFiniteSet(Inserting) /\ IsFiniteSet(Settled') /\ IsFiniteSet(Evicting')
<1>1. \A S \in SUBSET Keys : IsFiniteSet(S)
  BY CacheAssumption, FS_Subset
<1>2. \A S \in SUBSET Callers : IsFiniteSet(S)
  BY CacheAssumption, FS_Subset
<1>3. Present \subseteq Keys /\ Pending \subseteq Keys /\ Settled \subseteq Keys /\ Abandoned \subseteq Keys
  BY DEF Present, Pending, Settled, Abandoned
<1>4. Evicting \subseteq Callers /\ Inserting \subseteq Callers
  BY DEF Evicting, Inserting
<1>5. Settled' \subseteq Keys /\ Evicting' \subseteq Callers
  BY DEF Present, Settled, Evicting
<1> QED
  BY <1>1, <1>2, <1>3, <1>4, <1>5

\* At the start the map is empty.
LEMMA RoomInit == Init => RoomInv
<1> SUFFICES ASSUME Init PROVE RoomInv
  OBVIOUS
<1>1. Settled = {} /\ Evicting = {}
  BY DEF Init, Settled, Present, Evicting
<1> QED
  BY <1>1, FS_EmptySet, CacheAssumption DEF RoomInv

\* Entries are resolved one at a time, by the fetch of their key.
LEMMA SettledChange ==
  ASSUME SlotsInv, [Next]_vars, NEW k \in Settled'
  PROVE  k \in Settled \/ \E d \in Callers : Resolve(d) /\ key[d] = k
<1>1. k \in Keys /\ entries'[k] # None /\ slot'[entries'[k]].value # None
  BY DEF Settled, Present, Pending, Resolved
<1>2. entries'[k] = entries[k]
  BY <1>1, EntriesChange DEF Empty
<1>3. entries[k] \in Slots /\ entries[k] \in Held(entries', cell')
  BY <1>1, <1>2 DEF SlotsInv, TypeOK, Held
<1>4. CASE slot'[entries[k]].value = slot[entries[k]].value
  BY <1>1, <1>2, <1>4 DEF Settled, Present, Pending, Resolved
<1>5. CASE \E d \in Driving : Resolve(d) /\ cell[d] = entries[k]
  BY <1>1, <1>5, SlotOfOneKey DEF Driving
<1> QED
  BY <1>1, <1>2, <1>3, <1>4, <1>5, ValueChange

\* A caller that is to evict goes on to do so.
LEMMA EvictingStays ==
  ASSUME SlotsInv, [Next]_vars, NEW c \in Evicting
  PROVE  c \in Evicting' \/ Evict(c)
<1>1. c \in Callers /\ pc[c] = "evicting"
  BY DEF Evicting
<1>2. ASSUME CallerNext(c) PROVE Evict(c)
  BY <1>1, <1>2
     DEF CallerNext, Call, CallForced, CellFor, Peek, Hit, Swap, Drive, Share, Resolve, Cancel, Leave, Goto
<1>3. CASE pc'[c] = pc[c]
  BY <1>1, <1>3 DEF Evicting
<1> QED
  BY <1>1, <1>2, <1>3, OthersWait, WorldGrows DEF callVars

\* A fetch that ends owes an eviction for the entry it resolves.
LEMMA ResolveOwes ==
  ASSUME SlotsInv, RoomInv, [Next]_vars, NEW c \in Callers, Resolve(c)
  PROVE  RoomInv'
<1>1. Settled' \subseteq Settled \cup {key[c]}
  <2>1. ASSUME NEW d \in Callers, Resolve(d) PROVE d = c
    <3>1. d = c \/ pc'[d] = pc[d]
      BY OthersWait DEF CallerNext
    <3> QED
      BY <2>1, <3>1 DEF Resolve, Goto, SlotsInv, TypeOK
  <2> QED
    BY <2>1, SettledChange
<1>2. Evicting' = Evicting \cup {c} /\ c \notin Evicting
  BY DEF Resolve, Goto, Evicting, SlotsInv, TypeOK
<1>3. Cardinality(Evicting') = Cardinality(Evicting) + 1
  BY <1>2, FiniteRoom, FS_AddElement
<1>4. Cardinality(Settled') <= Cardinality(Settled) + 1
  <2>1. /\ IsFiniteSet(Settled \cup {key[c]})
        /\ Cardinality(Settled \cup {key[c]}) \in {Cardinality(Settled), Cardinality(Settled) + 1}
    BY FiniteRoom, FS_AddElement
  <2>2. Cardinality(Settled') <= Cardinality(Settled \cup {key[c]})
    BY <1>1, <2>1, FS_Subset
  <2> QED
    BY <2>1, <2>2, FiniteRoom, FS_CardinalityType
<1>5. /\ Cardinality(Settled) \in Nat /\ Cardinality(Settled') \in Nat
      /\ Cardinality(Evicting) \in Nat /\ Cardinality(Evicting') \in Nat /\ Cap \in Nat
  BY FiniteRoom, FS_CardinalityType, CacheAssumption
<1> QED
  BY <1>3, <1>4, <1>5 DEF RoomInv

\* An eviction brings the resolved entries down to the capacity, or by one.
LEMMA EvictPays ==
  ASSUME SlotsInv, RoomInv, [Next]_vars, NEW c \in Callers, Evict(c)
  PROVE  RoomInv'
<1> DEFINE at == [k \in Present |-> slot[entries[k]].at]
           fresh == {k \in Settled : clock - at[k] < Ttl}
<1>1. PICK kept \in Evictions(Pending, Settled, at, clock, Ttl, Cap) :
        entries' = [k \in Keys |-> IF k \in kept THEN entries[k] ELSE None]
  BY DEF Evict, Settled
<1>2. Settled' \subseteq kept /\ Settled' \subseteq Settled
  <2>1. ASSUME NEW k \in Settled' PROVE k \in kept
    BY <1>1, <2>1 DEF Settled, Present
  <2>2. ASSUME NEW k \in Settled', NEW d \in Callers, Resolve(d) PROVE FALSE
    <3>1. d = c \/ pc'[d] = pc[d]
      BY OthersWait DEF CallerNext
    <3> QED
      BY <2>2, <3>1 DEF Resolve, Evict, Goto, SlotsInv, TypeOK
  <2> QED
    BY <2>1, <2>2, SettledChange
<1>3. Pending \cap Settled = {}
  BY DEF Settled
<1>4. Evicting' = Evicting \ {c} /\ c \in Evicting
  BY DEF Evict, Leave, Goto, Evicting, SlotsInv, TypeOK
<1>5. Cardinality(Evicting') = Cardinality(Evicting) - 1
  BY <1>4, FiniteRoom, FS_RemoveElement
<1>6. /\ Cardinality(Settled) \in Nat /\ Cardinality(Settled') \in Nat
      /\ Cardinality(Evicting) \in Nat /\ Cardinality(Evicting') \in Nat /\ Cap \in Nat
  BY FiniteRoom, FS_CardinalityType, CacheAssumption
<1>7. fresh \subseteq Settled /\ IsFiniteSet(fresh) /\ IsFiniteSet(Pending \cup fresh)
  <2>1. fresh \subseteq Settled
    OBVIOUS
  <2> HIDE DEF fresh
  <2> QED
    BY <2>1, FiniteRoom, FS_Subset, FS_Union
<1>8. kept \in IF Cardinality(Pending \cup fresh) > Cap /\ fresh # {}
               THEN {(Pending \cup fresh) \ {k} : k \in Oldest(fresh, at)}
               ELSE {Pending \cup fresh}
  BY <1>1 DEF Evictions
<1> HIDE DEF fresh, at
<1>9. ASSUME kept = Pending \cup fresh, fresh = {} PROVE RoomInv'
  <2>1. Settled' = {}
    BY <1>2, <1>3, <1>9
  <2> QED
    BY <1>6, <2>1, FS_EmptySet DEF RoomInv
<1>10. ASSUME kept = Pending \cup fresh, ~(Cardinality(Pending \cup fresh) > Cap) PROVE RoomInv'
  <2>1. Cardinality(Settled') <= Cardinality(Pending \cup fresh)
    BY <1>2, <1>7, <1>10, FS_Subset
  <2>2. Cardinality(Pending \cup fresh) \in Nat
    BY <1>7, FS_CardinalityType
  <2> QED
    BY <1>6, <1>10, <2>1, <2>2 DEF RoomInv
<1>11. ASSUME NEW k \in Oldest(fresh, at), kept = (Pending \cup fresh) \ {k} PROVE RoomInv'
  <2>1. k \in Settled
    BY <1>7 DEF Oldest
  <2>2. Settled' \subseteq Settled \ {k}
    BY <1>2, <1>11
  <2>3. IsFiniteSet(Settled \ {k}) /\ Cardinality(Settled \ {k}) = Cardinality(Settled) - 1
    BY <2>1, FiniteRoom, FS_RemoveElement
  <2>4. Cardinality(Settled') <= Cardinality(Settled) - 1
    BY <2>2, <2>3, FS_Subset
  <2> QED
    BY <1>5, <1>6, <2>4 DEF RoomInv
<1> QED
  BY <1>8, <1>9, <1>10, <1>11

\* The resolved entries exceed the capacity by no more than the evictions still to come.
LEMMA RoomInductive == SlotsInv /\ RoomInv /\ [Next]_vars => RoomInv'
<1> SUFFICES ASSUME SlotsInv, RoomInv, [Next]_vars PROVE RoomInv'
  OBVIOUS
<1>1. CASE \E c \in Callers : Resolve(c)
  BY <1>1, ResolveOwes
<1>2. CASE \E c \in Callers : Evict(c)
  BY <1>2, EvictPays
<1>3. CASE ~\E c \in Callers : Resolve(c) \/ Evict(c)
  <2>1. Settled' \subseteq Settled
    BY <1>3, SettledChange
  <2>2. Evicting \subseteq Evicting'
    BY <1>3, EvictingStays DEF Evicting
  <2>3. /\ Cardinality(Settled') <= Cardinality(Settled)
        /\ Cardinality(Evicting) <= Cardinality(Evicting')
    BY <2>1, <2>2, FiniteRoom, FS_Subset
  <2> QED
    BY <2>3, FiniteRoom, FS_CardinalityType, CacheAssumption, SMTT(20) DEF RoomInv
<1> QED
  BY <1>1, <1>2, <1>3

\* Disjoint sets add up.
LEMMA DisjointSum ==
  ASSUME NEW S, NEW T, IsFiniteSet(S), IsFiniteSet(T), S \cap T = {}
  PROVE  Cardinality(S \cup T) = Cardinality(S) + Cardinality(T)
<1>1. Cardinality(S \cup T) = Cardinality(S) + Cardinality(T) - Cardinality(S \cap T)
  BY FS_Union
<1>2. Cardinality(S \cap T) = 0
  BY FS_EmptySet
<1>3. Cardinality(S) \in Nat /\ Cardinality(T) \in Nat
  BY FS_CardinalityType
<1> QED
  BY <1>1, <1>2, <1>3

\* What is in the map is resolved, abandoned, or waited for by a call that has not
\* come to its eviction.
LEMMA RoomIsEnough == SlotsInv /\ RoomInv => CapIsPaidBack
<1> SUFFICES ASSUME SlotsInv, RoomInv PROVE CapIsPaidBack
  OBVIOUS
<1> DEFINE waited == Pending \ Abandoned
           waiting == Inserting \ Evicting
<1>1. IsFiniteSet(waited) /\ IsFiniteSet(waiting)
  BY FiniteRoom, FS_Difference
<1>2. Cardinality(waited) <= Cardinality(waiting)
  <2> DEFINE f == [k \in waited |-> CHOOSE c \in Inserting : cell[c] = entries[k]]
  <2>1. ASSUME NEW k \in waited PROVE f[k] \in waiting /\ cell[f[k]] = entries[k]
    <3>1. \E c \in Inserting : cell[c] = entries[k]
      BY DEF Abandoned
    <3>2. f[k] \in Inserting /\ cell[f[k]] = entries[k]
      BY <3>1
    <3>3. ~Resolved(cell[f[k]])
      BY <3>2 DEF Pending
    <3> HIDE DEF f
    <3>4. f[k] \notin Evicting
      BY <3>3 DEF Evicting, SlotsInv, CallersKnowTheirSlot, KnowsItsSlot
    <3> QED
      BY <3>2, <3>4
  <2>2. f \in [waited -> waiting]
    BY <2>1
  <2>3. ASSUME NEW k \in waited, NEW l \in waited, f[k] = f[l] PROVE k = l
    <3>1. entries[k] = entries[l] /\ entries[k] # None /\ entries[l] # None /\ k \in Keys /\ l \in Keys
      BY <2>1, <2>3 DEF Pending, Present
    <3> QED
      BY <3>1 DEF SlotsInv, EntriesAreKeyed
  <2> HIDE DEF f, waited, waiting
  <2>4. ~(Cardinality(waiting) < Cardinality(waited))
    BY <1>1, <2>2, <2>3, FS_PigeonHole
  <2> QED
    BY <1>1, <2>4, FS_CardinalityType
<1>3. Cardinality(Pending) = Cardinality(Abandoned) + Cardinality(waited)
  <2>1. Pending = Abandoned \cup waited /\ Abandoned \cap waited = {}
    BY DEF Abandoned
  <2> QED
    BY <1>1, <2>1, FiniteRoom, DisjointSum
<1>4. Cardinality(Inserting) = Cardinality(Evicting) + Cardinality(waiting)
  <2>1. Inserting = Evicting \cup waiting /\ Evicting \cap waiting = {}
    BY DEF Evicting, Inserting
  <2> QED
    BY <1>1, <2>1, FiniteRoom, DisjointSum
<1>5. Cardinality(Present) = Cardinality(Settled) + Cardinality(Pending)
  <2>1. Present = Settled \cup Pending /\ Settled \cap Pending = {}
    BY DEF Settled, Pending
  <2> QED
    BY <2>1, FiniteRoom, DisjointSum
<1> HIDE DEF waited, waiting
<1>6. /\ Cardinality(Settled) \in Nat /\ Cardinality(Evicting) \in Nat /\ Cardinality(Abandoned) \in Nat
      /\ Cap \in Nat
  BY FiniteRoom, FS_CardinalityType, CacheAssumption
<1>7. Cardinality(waited) \in Nat /\ Cardinality(waiting) \in Nat
  BY <1>1, FS_CardinalityType
<1> QED
  BY <1>2, <1>3, <1>4, <1>5, <1>6, <1>7 DEF RoomInv, CapIsPaidBack

--------------------------------------------------------------------------------
(* Theorems *)

\* The map, the slots and the locals of the calls keep their types.
THEOREM TypeCorrect == SafeSpec => []SlotsInv /\ []TypeOK
<1>1. Init => SlotsInv
  BY SlotsInit
<1>2. SlotsInv /\ [Next]_vars => SlotsInv'
  BY SlotsInductive
<1>3. SlotsInv => TypeOK
  BY DEF SlotsInv
<1> QED
  BY <1>1, <1>2, <1>3, PTL DEF SafeSpec

\* Single flight: a fetch that runs is the one its key's next callers join, unless
\* the cache was cleared under it. OnceCell's permit and ptr_eq in refresh are what
\* it rests on.
THEOREM SingleFlight == SafeSpec => []FlightIsShared
<1>1. SlotsInv /\ FlightsInv /\ [Next]_vars => FlightsInv'
  BY FlightsInductive
<1>2. FlightsInv => FlightIsShared
  BY DEF FlightsInv, FlightIsShared, Driving, DrivenIsUnresolved, WaitingAreJoined
<1> QED
  BY <1>1, <1>2, FlightsInit, TypeCorrect, PTL DEF SafeSpec

\* clear() is a barrier: no call answers with what was read before the commit whose
\* invalidation came before the call.
THEOREM ClearBarrier == SafeSpec => ClearIsBarrier
<1>1. SlotsInv /\ AgesInv /\ [Next]_vars => AgesInv'
  BY AgesInductive
<1>2. SlotsInv /\ AgesInv =>
        [\A c \in Callers : Hit(c) \/ Evict(c) => slot[cell[c]].value >= floor[c]]_vars
  <2> SUFFICES ASSUME SlotsInv, AgesInv, NEW c \in Callers, Hit(c) \/ Evict(c)
               PROVE  slot[cell[c]].value >= floor[c]
    OBVIOUS
  <2>1. pc[c] \in {"peek", "evicting"}
    BY DEF Hit, Evict
  <2>2. Resolved(cell[c])
    BY <2>1 DEF Hit, Evict, SlotsInv, CallersKnowTheirSlot, KnowsItsSlot
  <2>3. cell[c] # None
    BY <2>1, HasSlot
  <2> QED
    BY <2>2, <2>3 DEF AgesInv, HeldIsRecent
<1> QED
  BY <1>1, <1>2, AgesInit, TypeCorrect, PTL DEF SafeSpec, ClearIsBarrier

\* The map outgrows its capacity by no more than the calls under way and the slots
\* of calls that were dropped.
THEOREM CapPaidBack == SafeSpec => []CapIsPaidBack
<1>1. SlotsInv /\ RoomInv /\ [Next]_vars => RoomInv'
  BY RoomInductive
<1>2. SlotsInv /\ RoomInv => CapIsPaidBack
  BY RoomIsEnough
<1> QED
  BY <1>1, <1>2, RoomInit, TypeCorrect, PTL DEF SafeSpec
================================================================================
