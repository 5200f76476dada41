-------------------------------- MODULE MCFstab --------------------------------
(* Fstab with two devices that have their own mount points. What is said of    *)
(* the first covers every branch of the watcher; the second is there to edit,  *)
(* to rebuild and to be overwritten at the same time.                          *)
EXTENDS Fstab

CONSTANTS a, b, home, data, srv

TwoDevices == {a, b}
Dirs == {home, data, srv}
Plain == {}

Opt(n) == [name |-> n, padded |-> FALSE]
Item(dir, opts) == [kind |-> "fstab", dir |-> dir, opts |-> opts]

AtHome == Item(home, <<Opt("ro"), Opt("nofail")>>)
Reordered == Item(home, <<Opt("nofail"), Opt("ro"), Opt(Empty)>>)
Writable == Item(home, <<Opt("nofail")>>)
AtData == Item(data, <<Opt("ro"), Opt("nofail")>>)
Unreadable == Item(None, <<Opt("ro")>>)
AtSrv == Item(srv, <<Opt("ro")>>)

OneDevice == {a}
First == {[d \in TwoDevices |-> IF d = a THEN <<AtHome>> ELSE <<AtSrv>>]}

Said ==
  [d \in TwoDevices |->
     IF d = a THEN {<<>>, <<AtHome>>, <<Reordered>>, <<Writable>>, <<AtData>>, <<Unreadable>>}
     ELSE {<<AtSrv>>}]
================================================================================
