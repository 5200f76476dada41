--------------------------------- MODULE Listing ---------------------------------
(***************************************************************************)
(* The listings of org.modulix.Store1 that tell what is installed          *)
(* (store/mod.rs, store/entry.rs): a page of rows, which a slow cache keeps *)
(* without their install flags; the flags, stamped from a quick cache of   *)
(* what the configuration declares; and the rows collapsed to one for each *)
(* group of variants.                                                      *)
(*                                                                         *)
(* The configuration changes under it: by a command, whose transaction     *)
(* writes, and then either succeeds, and the quick caches are invalidated, *)
(* or is rolled back; and by what invalidates nothing, an edit, the mx     *)
(* tool, a UDisks2 report, the first names of a command that fails later.  *)
(*                                                                         *)
(* Module FlightCache has the steps of one look-up. Here a cached page is  *)
(* read, or fetched and cached, in one step, no page depending on what     *)
(* changes meanwhile; a quick cache is looked up, fetched by one caller    *)
(* for all that share its slot, part by part, and cleared in between. The  *)
(* order of the alternates and the ranks behind it are left out.           *)
(***************************************************************************)
EXTENDS Naturals, Sequences, FiniteSets, SequencesExt, Ordered

CONSTANTS
  Items,       \* records: kind "package", "module" or "plugin", and name
  AppId,       \* the AppStream id of each package, the Flathub id of each module, or None
  Pname,       \* the pname of each package and of the package a module wraps, or None
  Hits,        \* for each query the items the index finds, best first
  Dotted,      \* the group ids with a dot in them
  Calls,
  Requests,    \* the requests each call may make: a method and its argument
  Declared,    \* what the configuration declares when the daemon starts
  Touched,     \* bound: the items that change
  Ttl,         \* INSTALLED_CACHE_TTL
  PageTtl,     \* SEARCH_CACHE_TTL, ALT_CACHE_TTL, PLUGINS_CACHE_TTL
  MaxClock,    \* bound: ticks of the clock
  MaxCommits,  \* bound: commands
  MaxEdits,    \* bound: other changes of the configuration
  MaxFaults,   \* bound: searches, look-ups and listings that fail
  None

Of(kind) == {i \in Items : i.kind = kind}

\* INSTALLED_CACHE, INSTALLED_PLUGINS_CACHE, INSTALLED_PLUGINS_ALL_CACHE, and what
\* one fetch of each reads, in order.
Parts == [installed |-> <<Of("package"), Of("module")>>,
          plugins |-> <<Of("plugin")>>,
          all_plugins |-> <<Of("plugin")>>]
Caches == DOMAIN Parts

Asked == UNION {Requests[c] : c \in Calls}

\* The index finds packages for a package search and modules for a module search, and
\* an item at most once; a package has a name, its attribute.
HitsAssumption ==
  \A r \in Asked :
    /\ r = [method |-> r.method, arg |-> r.arg, desktop |-> r.desktop]
    /\ r.method = "search_packages" =>
         Hits[r.arg] \in Seq(Of("package")) /\ IsInjective(Hits[r.arg])
    /\ r.method = "search_modules" => Hits[r.arg] \in Seq(Of("module"))
    /\ r.method = "packages_for_app_id" /\ r.arg \notin Dotted =>
         (\E p \in Of("package") : AppId[p] = r.arg) \/ Hits[r.arg] \in Seq(Of("package"))

ASSUME ListingAssumption ==
  /\ IsFiniteSet(Items) /\ IsFiniteSet(Calls)
  /\ DOMAIN Requests = Calls
  /\ DOMAIN AppId = Items /\ DOMAIN Pname = Items
  /\ \A p \in Of("package") : p.name # None
  /\ HitsAssumption
  /\ Touched \subseteq Items /\ Declared \subseteq Items
  /\ Ttl \in Nat \ {0} /\ PageTtl \in Nat
  /\ {MaxClock, MaxCommits, MaxEdits, MaxFaults} \subseteq Nat
  /\ None \notin Nat

VARIABLES
  config,   \* what the configuration declares
  command,  \* what a command that has written and not ended found there, or None
  clock,
  pages,    \* the slow caches, by request; history: whether each page is whole
  slots,    \* each quick cache: the slots its key has in the map and with callers
  mapped,   \* the one in the map
  pc, request, page, slot, part, seen, rows,  \* each call: where it stands, what it asked,
            \* its page, its slot, the part it reads next, what it has read, its reply
  commits, edits, faults,
  changed,  \* history: when each item last changed with the caches none the wiser, or
            \* was overlooked
  either,   \* history: the items whose flag a call may tell either way
  short     \* history: the calls whose page a failed look-up has left short

callVars == <<pc, request, page, slot, part, seen, rows>>
vars == <<config, command, clock, pages, slots, mapped, callVars, commits, edits, faults, changed, either, short>>

NewSlot == [state |-> "empty", items |-> {}, at |-> 0]

\* A slot for each call, and one in the map; a slot nobody refers to is used again.
SlotIds == 0 .. Cardinality(Calls)

Fetching(c) == pc[c] = "fetching"

CacheOf(r) ==
  CASE r.method = "list_module_plugins" -> "plugins"
    [] r.method = "list_installed_plugins" -> "all_plugins"
    [] OTHER -> "installed"

Slot(c) == slots[CacheOf(request[c])][slot[c]]

\* The calls that fetch what a call waits for.
Fillers(c) == {d \in Calls : Fetching(d) /\ CacheOf(request[d]) = CacheOf(request[c]) /\ slot[d] = slot[c]}

TypeOK ==
  /\ config \subseteq Items
  /\ clock \in 0 .. MaxClock
  /\ \A c \in Calls : pc[c] \in {"idle", "paged", "waiting", "fetching", "replied"}
  /\ mapped \in [Caches -> SlotIds]
  /\ \A c \in Calls : pc[c] \in {"waiting", "fetching"} =>
       /\ Slot(c).items \subseteq Items
       /\ Slot(c).state = "full" <=> Fillers(c) = {}
       /\ Cardinality(Fillers(c)) <= 1

--------------------------------------------------------------------------------
(* Rows *)

Row(item, group) == [item |-> item, group |-> group, installed |-> FALSE]

\* package_entry: grouped by app id, else by pname, else alone under its name.
PackageEntry(p) ==
  Row(p, CASE AppId[p] # None -> AppId[p]
           [] AppId[p] = None /\ Pname[p] # None -> Pname[p]
           [] OTHER -> p.name)

\* module_entry: grouped by its Flathub id, else with the package it wraps.
ModuleEntry(m) == Row(m, IF AppId[m] # None THEN AppId[m] ELSE Pname[m])

\* InstalledSets::contains, stamp_installed.
Stamped(entries, items) ==
  [i \in DOMAIN entries |-> [entries[i] EXCEPT !.installed = entries[i].item \in items]]

\* The first row of each group, and every row without one.
Leads(entries) ==
  {i \in DOMAIN entries :
     entries[i].group = None \/ \A j \in 1 .. i - 1 : entries[j].group # entries[i].group}

RowsAt(entries, at) == [k \in 1 .. Len(at) |-> entries[at[k]]]

\* Mutant: the first row stands for its group, whatever is installed.
FirstOfGroup(entries) ==
  RowsAt(entries, InOrder(Leads(entries)))

\* Mutant: an installed variant is added beside the row of its group.
BesideGroup(entries) ==
  RowsAt(entries, InOrder(Leads(entries) \cup {i \in DOMAIN entries : entries[i].installed}))

\* dedup_by_group: a group keeps the place of its first row, which its first installed
\* one takes over.
DedupByGroup(entries) ==
  LET leads == InOrder(Leads(entries))
      installed(g) == {i \in DOMAIN entries : entries[i].group = g /\ entries[i].installed}
      winner(i) ==
        LET group == entries[i].group
        IN  IF group = None \/ installed(group) = {} THEN i
            ELSE CHOOSE j \in installed(group) : \A k \in installed(group) : j <= k
  IN  RowsAt(entries, [k \in DOMAIN leads |-> winner(leads[k])])

(* build_alt_entries *)

\* The curated attributes of an app id.
Table(gid) == {p \in Of("package") : AppId[p] = gid}

ModuleRows(gid) == {Row(m, gid) : m \in {m \in Of("module") : ModuleEntry(m).group = gid}}

\* Mutant: the attribute is compared with the group, not the pname.
VariantsByName(gid) ==
  IF Table(gid) # {} THEN {Row(p, gid) : p \in Table(gid)}
  ELSE IF gid \in Dotted THEN {}
       ELSE {Row(p, gid) : p \in {p \in ToSet(Hits[gid]) : p.name = gid}}

\* The curated attributes, else those a search for the pname finds under that pname.
Variants(gid) ==
  IF Table(gid) # {} THEN {Row(p, gid) : p \in Table(gid)}
  ELSE IF gid \in Dotted THEN {}
       ELSE {Row(p, gid) : p \in {p \in ToSet(Hits[gid]) : Pname[p] = gid}}

\* packages_for_app_id takes off ".desktop" when that gives a curated id; with it, the
\* id is dotted and is nobody's group.
AltEntries(r) ==
  IF r.desktop /\ Table(r.arg) = {} THEN {} ELSE ModuleRows(r.arg) \cup Variants(r.arg)

(* What the fetch closures make of a request *)

Found(r) ==
  CASE r.method = "search_packages" -> [i \in DOMAIN Hits[r.arg] |-> PackageEntry(Hits[r.arg][i])]
    [] r.method = "search_modules" -> [i \in DOMAIN Hits[r.arg] |-> ModuleEntry(Hits[r.arg][i])]
    [] r.method = "packages_for_app_id" -> SetToSeq(AltEntries(r))
    [] r.method = "list_module_plugins" -> SetToSeq({Row(p, None) : p \in Of("plugin")})

\* A search or a look-up that fails is an empty result. Of the alternates, a module
\* look-up that times out leaves the variants, a search that fails the modules.
Degraded(r) ==
  IF r.method # "packages_for_app_id" THEN {<<>>}
  ELSE LET parts == IF Table(r.arg) # {} THEN {Variants(r.arg)}
                    ELSE {Variants(r.arg), ModuleRows(r.arg), {}}
       IN  {SetToSeq(AltEntries(r) \cap p) : p \in parts}

\* The key a request's page is cached under: alternates under the id they resolve to.
Key(r) ==
  IF r.method = "packages_for_app_id" /\ Table(r.arg) # {} THEN [r EXCEPT !.desktop = FALSE] ELSE r

Init ==
  /\ config = Declared
  /\ command = None
  /\ clock = 0
  /\ pages = [r \in {Key(r) : r \in UNION {Requests[c] : c \in Calls}} |-> None]
  /\ slots = [k \in Caches |-> [i \in SlotIds |-> NewSlot]]
  /\ mapped = [k \in Caches |-> 0]
  /\ pc = [c \in Calls |-> "idle"]
  /\ request = [c \in Calls |-> None]
  /\ page = [c \in Calls |-> <<>>]
  /\ slot = [c \in Calls |-> None]
  /\ part = [c \in Calls |-> 0]
  /\ seen = [c \in Calls |-> {}]
  /\ rows = [c \in Calls |-> <<>>]
  /\ commits = 0 /\ edits = 0 /\ faults = 0
  /\ changed = [i \in Items |-> None]
  /\ either = [c \in Calls |-> {}]
  /\ short = {}

--------------------------------------------------------------------------------
(* The calls *)

Paged == {"search_packages", "search_modules", "packages_for_app_id", "list_module_plugins"}

Cached(r) == pages[Key(r)] # None /\ clock - pages[Key(r)].at < PageTtl

\* The items whose flag may be told either way: changed within the TTL of the quick
\* caches, and nobody told them.
Unsettled == {i \in Items : changed[i] # None /\ clock - changed[i] < Ttl}

Begin(c, r) ==
  /\ pc[c] = "idle"
  /\ request' = [request EXCEPT ![c] = r]
  /\ either' = [either EXCEPT ![c] = Unsettled]
  /\ UNCHANGED <<config, command, clock, slots, mapped, slot, part, seen, commits, edits, changed>>

\* The page is cached.
AskCached(c, r) ==
  /\ r.method \in Paged /\ Cached(r)
  /\ Begin(c, r)
  /\ pc' = [pc EXCEPT ![c] = "paged"]
  /\ page' = [page EXCEPT ![c] = pages[Key(r)].rows]
  /\ short' = IF pages[Key(r)].whole THEN short ELSE short \cup {c}
  /\ UNCHANGED <<pages, rows, faults>>

Fetch(c, r, found, whole) ==
  /\ r.method \in Paged /\ ~Cached(r)
  /\ Begin(c, r)
  /\ pc' = [pc EXCEPT ![c] = "paged"]
  /\ page' = [page EXCEPT ![c] = found]
  /\ pages' = [pages EXCEPT ![Key(r)] = [rows |-> found, at |-> clock, whole |-> whole]]
  /\ UNCHANGED rows

\* It is fetched, and cached before anything is stamped or collapsed.
AskFetched(c, r) ==
  /\ r.method \in Paged
  /\ Fetch(c, r, Found(r), TRUE)
  /\ UNCHANGED <<faults, short>>

\* The fetch fails, which is cached like an answer.
AskDegraded(c, r) ==
  /\ faults < MaxFaults /\ faults' = faults + 1
  /\ r.method \in Paged
  /\ \E found \in Degraded(r) : Fetch(c, r, found, FALSE)
  /\ short' = short \cup {c}

\* list_installed_packages and list_installed_modules read the configuration.
ListInstalled(c, r) ==
  /\ r.method \in {"list_installed_packages", "list_installed_modules"}
  /\ Begin(c, r)
  /\ pc' = [pc EXCEPT ![c] = "replied"]
  /\ LET packages == SetToSeq(config \cap Of("package"))
         modules == SetToSeq(config \cap Of("module"))
         installed(entries) == [i \in DOMAIN entries |-> [entries[i] EXCEPT !.installed = TRUE]]
     IN  rows' = [rows EXCEPT ![c] =
           IF r.method = "list_installed_packages"
           THEN DedupByGroup(installed([i \in DOMAIN packages |-> PackageEntry(packages[i])]))
           ELSE installed([i \in DOMAIN modules |-> ModuleEntry(modules[i])])]
  /\ UNCHANGED <<pages, page, faults, short>>

\* list_installed_plugins has no page: its rows are what the cache declares.
AskPlugins(c, r) ==
  /\ r.method = "list_installed_plugins"
  /\ Begin(c, r)
  /\ pc' = [pc EXCEPT ![c] = "paged"]
  /\ UNCHANGED <<pages, page, rows, faults, short>>

Holds(k, i) == \E c \in Calls : slot[c] = i /\ CacheOf(request[c]) = k

\* The slots of ks go from the map, and stay with the callers that have them; those of
\* filling begin to be filled.
Replaced(ks, filling) ==
  LET next(k) ==
        IF k \in ks /\ Holds(k, mapped[k])
        THEN CHOOSE i \in SlotIds \ {mapped[k]} : ~Holds(k, i)
        ELSE mapped[k]
  IN  /\ mapped' = [k \in Caches |-> next(k)]
      /\ slots' = [k \in Caches |->
           [slots[k] EXCEPT ![next(k)] =
              IF k \in filling THEN [NewSlot EXCEPT !.state = "fetching"]
              ELSE IF k \in ks THEN NewSlot ELSE @]]

stampFrame == <<config, command, clock, pages, request, page, commits, edits, changed, either, short>>

\* installed_sets, installed_plugins and installed_plugins_all: the slot of the key is
\* looked up, and put in place of one that is out of date.
Stale(k) ==
  LET current == slots[k][mapped[k]]
  IN  current.state = "full" /\ clock - current.at >= Ttl

\* It has its value, or another caller is fetching it.
Join(c) ==
  LET k == CacheOf(request[c])
  IN  /\ pc[c] = "paged"
      /\ ~Stale(k) /\ slots[k][mapped[k]].state # "empty"
      /\ pc' = [pc EXCEPT ![c] = "waiting"]
      /\ slot' = [slot EXCEPT ![c] = mapped[k]]
      /\ UNCHANGED <<stampFrame, slots, mapped, part, seen, rows, faults>>

\* The mapped slot of k, which becomes this caller's to fill.
DriveSlot(c, k) ==
  /\ pc' = [pc EXCEPT ![c] = "fetching"]
  /\ slot' = [slot EXCEPT ![c] = mapped'[k]]
  /\ part' = [part EXCEPT ![c] = 1]
  /\ UNCHANGED <<stampFrame, seen, rows, faults>>

\* Mutant: a caller that finds another at work starts a fetch of its own.
DriveAnyway(c) ==
  LET k == CacheOf(request[c])
  IN  /\ pc[c] = "paged" /\ (Stale(k) \/ slots[k][mapped[k]].state # "full")
      /\ Replaced(IF Stale(k) THEN {k} ELSE {}, {k})
      /\ DriveSlot(c, k)

\* It is empty, and this caller the first: it fetches for all.
Drive(c) ==
  LET k == CacheOf(request[c])
  IN  /\ pc[c] = "paged" /\ (Stale(k) \/ slots[k][mapped[k]].state = "empty")
      /\ Replaced(IF Stale(k) THEN {k} ELSE {}, {k})
      /\ DriveSlot(c, k)

Also(items) ==
  [c \in Calls |-> IF pc[c] \in {"idle", "replied"} THEN {} ELSE either[c] \cup items]

\* One listing of the configuration files; after the last the slot has its value.
ReadPart(c, read) ==
  LET k == CacheOf(request[c])
      all == seen[c] \cup read
  IN  /\ Fetching(c)
      /\ IF part[c] < Len(Parts[k])
         THEN /\ part' = [part EXCEPT ![c] = @ + 1]
              /\ seen' = [seen EXCEPT ![c] = all]
              /\ UNCHANGED <<pc, slots>>
         ELSE /\ part' = [part EXCEPT ![c] = 0]
              /\ seen' = [seen EXCEPT ![c] = {}]
              /\ pc' = [pc EXCEPT ![c] = "waiting"]
              /\ slots' = [slots EXCEPT ![k][slot[c]] = [state |-> "full", items |-> all, at |-> clock]]
      /\ UNCHANGED <<config, command, clock, pages, mapped, request, page, slot, rows, commits, edits, short>>

Read(c) ==
  /\ Fetching(c)
  /\ ReadPart(c, config \cap Parts[CacheOf(request[c])][part[c]])
  /\ UNCHANGED <<faults, changed, either>>

\* A listing that fails is taken for an empty one.
ReadFails(c) ==
  /\ Fetching(c)
  /\ faults < MaxFaults /\ faults' = faults + 1
  /\ ReadPart(c, {})
  /\ LET lost == config \cap Parts[CacheOf(request[c])][part[c]]
     IN  /\ changed' = [i \in Items |-> IF i \in lost THEN clock ELSE changed[i]]
         /\ either' = Also(lost)

\* The slot has its value: the page is stamped with it, then collapsed.
Reply(c) ==
  /\ pc[c] = "waiting" /\ Slot(c).state = "full"
  /\ pc' = [pc EXCEPT ![c] = "replied"]
  /\ LET items == Slot(c).items
         stamped == Stamped(page[c], items)
         plugins == SetToSeq(items)
     IN  rows' = [rows EXCEPT ![c] =
           CASE request[c].method = "search_packages" -> DedupByGroup(stamped)
             [] request[c].method = "list_installed_plugins" ->
                  [i \in DOMAIN plugins |-> [Row(plugins[i], None) EXCEPT !.installed = TRUE]]
             [] OTHER -> stamped]
  /\ slot' = [slot EXCEPT ![c] = None]
  /\ UNCHANGED <<stampFrame, slots, mapped, part, seen, faults>>

--------------------------------------------------------------------------------
(* The configuration *)

\* An item is in the configuration files from now on, or is not.
Put(i, there) ==
  /\ config' = IF there THEN config \cup {i} ELSE config \ {i}
  /\ changed' = [changed EXCEPT ![i] = clock]
  /\ either' = Also({i})
  /\ UNCHANGED <<clock, pages, slots, mapped, callVars, faults, short>>

\* The transaction of a command, under the guard of rebuild.rs, installs or uninstalls
\* an item. Its rebuild is still to come, and a listing finds what it wrote.
Write(i) ==
  /\ commits < MaxCommits /\ commits' = commits + 1
  /\ command = None /\ command' = [item |-> i, was |-> i \in config]
  /\ Put(i, i \notin config)
  /\ UNCHANGED edits

\* The rebuild fails and the library puts back what was there. The command is an error,
\* and invalidates nothing.
RollBack ==
  /\ command # None /\ command' = None
  /\ Put(command.item, command.was)
  /\ UNCHANGED <<commits, edits>>

\* By anything else.
Edit(i) ==
  /\ edits < MaxEdits /\ edits' = edits + 1
  /\ Put(i, i \notin config)
  /\ UNCHANGED <<command, commits>>

Settle ==
  /\ command # None /\ command' = None
  /\ changed' = [i \in Items |-> None]
  /\ UNCHANGED <<config, clock, pages, callVars, commits, edits, faults, either, short>>

\* Mutant: the cache of every installed plugin is forgotten.
InvalidateTwo == Settle /\ Replaced({"installed", "plugins"}, {})

\* The command has succeeded: invalidate_installed clears the three quick caches. The
\* client is told of the success after that.
Invalidate == Settle /\ Replaced(Caches, {})

\* What the fetch of a mapped slot has read otherwise than it is. The slot counts its age
\* from the end of the fetch, so that such a change is as good as made now.
Overlooked ==
  {i \in Items : \E d \in Calls :
     LET k == CacheOf(request[d])
     IN  /\ Fetching(d) /\ slot[d] = mapped[k]
         /\ \E j \in 1 .. part[d] - 1 : i \in Parts[k][j]
         /\ ~(i \in seen[d] <=> i \in config)}

Tick ==
  /\ clock < MaxClock /\ clock' = clock + 1
  /\ changed' = [i \in Items |-> IF i \in Overlooked THEN clock + 1 ELSE changed[i]]
  /\ UNCHANGED <<config, command, pages, slots, mapped, callVars, commits, edits, faults, either, short>>

Next ==
  \/ \E c \in Calls :
       \/ \E r \in Requests[c] :
            \/ AskCached(c, r) \/ AskFetched(c, r) \/ AskDegraded(c, r)
            \/ ListInstalled(c, r) \/ AskPlugins(c, r)
       \/ Join(c) \/ Drive(c) \/ Read(c) \/ ReadFails(c) \/ Reply(c)
  \/ \E i \in Touched : Write(i) \/ Edit(i)
  \/ RollBack \/ Invalidate \/ Tick

Spec == Init /\ [][Next]_vars

--------------------------------------------------------------------------------
(* Properties *)

Replies(c) == pc[c] # "replied" /\ pc'[c] = "replied"

Shown(c) == {rows[c][i] : i \in DOMAIN rows[c]}

\* The flag of every row is what the configuration declares, however long its page has
\* been cached and whichever fetch its flags come from: but for what changed during the
\* call, or within the TTL before it by no command that has since succeeded; the TTL
\* counts from the end of a fetch that had read it before the change (flight.rs).
FlagsAreRecent ==
  [][\A c \in Calls : Replies(c) =>
       \A row \in Shown(c)' :
         row.item \notin either[c] => (row.installed <=> row.item \in config)]_vars

\* The row of a group is one the user has, if there is one: the one its Uninstall button
\* targets. So an item of the page that is declared, then and for a while, is shown or
\* gives way to another installed one of its group.
InstalledRepresents ==
  [][\A c \in Calls : Replies(c) /\ request'[c].method = "search_packages" =>
       \A i \in DOMAIN page[c] :
         page[c][i].item \in config \ either[c] =>
           \E row \in Shown(c)' : row.group = page[c][i].group /\ row.installed]_vars

\* A reply has one row for each group of its page, in the order their first rows have
\* there, and shows each item once.
OneRowPerGroup ==
  \A c \in Calls : pc[c] = "replied" /\ request[c].method = "search_packages" =>
    /\ \A i, j \in DOMAIN rows[c] : i # j => rows[c][i].item # rows[c][j].item
    /\ LET group(i) == page[c][i].group
           firsts == {i \in DOMAIN page[c] : \A j \in 1 .. i - 1 : group(j) # group(i)}
           nth(k) == CHOOSE i \in firsts : Cardinality({j \in firsts : j <= i}) = k
       IN  /\ Len(rows[c]) = Cardinality(firsts)
           /\ \A k \in DOMAIN rows[c] : rows[c][k].group = group(nth(k))

\* The variants a search collapses into the row of their group stay reachable, among
\* the group's alternates: unless a look-up failed, or the group is one that a dot in
\* its pname makes pass for an app id.
HiddenStayReachable ==
  \A c, d \in Calls :
    /\ pc[c] = "replied" /\ request[c].method = "search_packages"
    /\ pc[d] = "replied" /\ request[d].method = "packages_for_app_id"
    /\ d \notin short
    /\ Table(request[d].arg) # {} \/ ~(request[d].desktop \/ request[d].arg \in Dotted)
    => \A i \in DOMAIN page[c] :
         LET item == page[c][i].item
         IN  page[c][i].group = request[d].arg =>
               \E row \in Shown(c) \cup Shown(d) : row.item = item
================================================================================
