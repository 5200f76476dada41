--------------------------------- MODULE Ordered ---------------------------------
(***************************************************************************)
(* The places of a list that are kept, in their order: what a filter, a    *)
(* retain or a dedup leaves. SelectSeq would do where nothing is proved:   *)
(* it is recursive, and what it returns cannot be reasoned about.          *)
(***************************************************************************)
EXTENDS Naturals, FiniteSets

\* The elements of S, a finite set of numbers, in increasing order.
InOrder(S) ==
  CHOOSE f \in [1 .. Cardinality(S) -> S] : \A k, l \in DOMAIN f : k < l => f[k] < f[l]

================================================================================
