------------------------------- MODULE MCMonitor -------------------------------
(* Monitor with three calls and room for two parked at a time. What the calls  *)
(* may ask covers every intent: a mount, its unmount, an options change, a     *)
(* move, and an update that only reorders.                                     *)
EXTENDS Monitor

CONSTANTS d, home, data

ThreeCalls == 1 .. 3
TwoCalls == 1 .. 2
OwnSerials == <<1, 2, 3>>
TwoSerials == <<1, 2>>
SameSerial == <<1, 1>>

Dirs == {home, data}
Plain == {}
Encrypted == {d}

Opt(n) == [name |-> n, padded |-> FALSE]
Item(dir, opts) == [kind |-> "fstab", dir |-> dir, opts |-> opts]

AtHome == Item(home, <<Opt("ro"), Opt("nofail")>>)
Reordered == Item(home, <<Opt("nofail"), Opt("ro"), Opt(Empty)>>)
Writable == Item(home, <<Opt("nofail")>>)
AtData == Item(data, <<Opt("ro"), Opt("nofail")>>)

Ask(member, items) == [member |-> member, path |-> d, items |-> items]

Asked ==
  {Ask("AddConfigurationItem", <<AtHome>>),
   Ask("UpdateConfigurationItem", <<AtHome, Reordered>>),
   Ask("UpdateConfigurationItem", <<AtHome, Writable>>),
   Ask("UpdateConfigurationItem", <<AtHome, AtData>>),
   Ask("RemoveConfigurationItem", <<AtHome>>)}
================================================================================
