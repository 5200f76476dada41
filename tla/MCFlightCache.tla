----------------------------- MODULE MCFlightCache -----------------------------
(* FlightCache over two keys and a map of one entry: every second key is over  *)
(* capacity.                                                                   *)
EXTENDS FlightCache

CONSTANTS a, b, c1, c2

TwoKeys == {a, b}
OneKey == {a}
TwoCallers == {c1, c2}
NoCallers == {}
OneCaller == {c1}
ArcIds == 1 .. 3
================================================================================
