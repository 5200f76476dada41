----------------------------- MODULE CacheEviction -----------------------------
(***************************************************************************)
(* FlightCache::evict (src/src/cache/flight.rs) as an operator, shared by  *)
(* the modules that run a cache: which keys an eviction may leave.         *)
(***************************************************************************)
EXTENDS Naturals, FiniteSets

\* The resolved entries of least timestamp. Of several, the iteration order of
\* the map decides.
Oldest(keys, at) == {k \in keys : \A l \in keys : at[k] <= at[l]}

\* `pending` are the keys whose slot is not resolved, `resolved` the others, with
\* their timestamps in `at`. The expired go, then one more if the map is over its
\* capacity; a pending key never goes.
Evictions(pending, resolved, at, now, ttl, cap) ==
  LET fresh == {k \in resolved : now - at[k] < ttl}
      kept  == pending \cup fresh
  IN  IF Cardinality(kept) > cap /\ fresh # {}
      THEN {kept \ {k} : k \in Oldest(fresh, at)}
      ELSE {kept}
================================================================================
