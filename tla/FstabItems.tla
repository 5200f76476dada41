------------------------------- MODULE FstabItems -------------------------------
(***************************************************************************)
(* The data the two UDisks2 listeners work on, as operators: configuration *)
(* items and what they ask for (intent.rs, mount_info.rs), and the library *)
(* calls a report comes down to (mount_info.rs, apply.rs).                 *)
(*                                                                         *)
(* An item is a record [kind, dir, opts]: dir and opts are None when the   *)
(* detail is missing or is not a byte array. The options are the sequence  *)
(* of what stands between the commas: a name, Empty for nothing, and whether  *)
(* there is white space around it.                                         *)
(***************************************************************************)
EXTENDS Sequences, SequencesExt, Ordered

CONSTANT None   \* a missing detail, no entry, no intent, no declaration

Empty == ""   \* between two commas with nothing between them
Blank == [name |-> Empty, padded |-> FALSE]

\* fstab_details: both details, or nothing.
FstabDetails(item) ==
  IF None \in {item.dir, item.opts} THEN None
  ELSE [mount_point |-> item.dir, options |-> item.opts]

\* intent.rs, fstab_entry.
ItemEntry(item) == IF item.kind = "fstab" THEN FstabDetails(item) ELSE None

FstabPlaces(configuration) == {i \in DOMAIN configuration : configuration[i].kind = "fstab"}

\* mount_info.rs, fstab_entry: what the first item of kind "fstab" of a whole
\* Block.Configuration value says.
LookupEntry(configuration) == FstabDetails(configuration[Min(FstabPlaces(configuration))])

Lookup(configuration) ==
  IF FstabPlaces(configuration) = {} THEN "absent"
  ELSE IF LookupEntry(configuration) = None THEN "malformed" ELSE "entry"

\* Mutant: the two strings are compared.
SameSpelling(a, b) == a = b

\* same_options: the same set, empty segments aside. Nothing is trimmed here.
SameOptions(a, b) == ToSet(a) \ {Blank} = ToSet(b) \ {Blank}

\* apply.rs, option_list: trimmed, then the empty ones go; order and duplicates stay.
OptionList(options) ==
  LET at == InOrder({i \in DOMAIN options : options[i].name # Empty})
  IN  [k \in DOMAIN at |-> options[at[k]].name]

--------------------------------------------------------------------------------
(* intent() *)

Mount(entry) == [does |-> "mount", new |-> entry]
Unmount(entry) == [does |-> "unmount", old |-> entry]
Options(current, options) == [does |-> "options", old |-> current, options |-> options]
Move(old, new) == [does |-> "move", old |-> old, new |-> new]

Update(old, new) ==
  IF old.mount_point # new.mount_point THEN Move(old, new)
  ELSE IF SameOptions(old.options, new.options) THEN None
  ELSE Options(old, new.options)

\* The member called, with its one or two items.
Intent(member, items) ==
  LET entry == [i \in DOMAIN items |-> ItemEntry(items[i])]
      all(n) == Len(items) = n /\ None \notin ToSet(entry)
  IN  CASE member = "AddConfigurationItem" /\ all(1) -> Mount(entry[1])
        [] member = "RemoveConfigurationItem" /\ all(1) -> Unmount(entry[1])
        [] member = "UpdateConfigurationItem" /\ all(2) -> Update(entry[1], entry[2])
        [] OTHER -> None

--------------------------------------------------------------------------------
(* report_mount, report_unmount, report_options_changed: calls to the library *)

\* gather(): the entry, with the disk it is on.
Info(entry, disk) ==
  [mount_point |-> entry.mount_point, options |-> entry.options, disk |-> disk]

AddMount(info, luks) ==
  [op |-> "add_mount", mount_point |-> info.mount_point,
   entry |-> [disk |-> info.disk, options |-> OptionList(info.options), luks |-> luks]]

RemoveMount(info) == [op |-> "remove_mount", mount_point |-> info.mount_point]

\* report_mount: a LUKS mount when there is a backing device.
ReportMount(info, luks) == AddMount(info, luks)

\* report_options_changed: the whole entry again, as a plain device whatever it is.
ReportOptionsChanged(info, options) == AddMount([info EXCEPT !.options = options], FALSE)

\* Mutant: a move forgets the old mount point.
CallsForgettingOld(intent, disk, luks) ==
  CASE intent.does \in {"mount", "move"} -> <<ReportMount(Info(intent.new, disk), luks)>>
    [] intent.does = "unmount" -> <<RemoveMount(Info(intent.old, disk))>>
    [] intent.does = "options" -> <<ReportOptionsChanged(Info(intent.old, disk), intent.options)>>

\* monitor.rs, report: the library calls for an intent, in order.
LibraryCalls(intent, disk, luks) ==
  CASE intent.does = "mount" -> <<ReportMount(Info(intent.new, disk), luks)>>
    [] intent.does = "unmount" -> <<RemoveMount(Info(intent.old, disk))>>
    [] intent.does = "options" -> <<ReportOptionsChanged(Info(intent.old, disk), intent.options)>>
    [] intent.does = "move" -> <<RemoveMount(Info(intent.old, disk)),
                                 ReportMount(Info(intent.new, disk), luks)>>

\* fileSystems after one call of the library.
Applied(declared, call) ==
  [declared EXCEPT ![call.mount_point] = IF call.op = "add_mount" THEN call.entry ELSE None]
================================================================================
