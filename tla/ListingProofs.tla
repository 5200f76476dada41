----------------------------- MODULE ListingProofs -----------------------------
(***************************************************************************)
(* What the listings of org.modulix.Store1 tell is right for any number of *)
(* calls, any configuration and any index.                                 *)
(*                                                                         *)
(* The argument has four parts. Shapes: what each call is about, and that *)
(* the rows of its page are of the kind the quick cache it is stamped from *)
(* lists. Slots: a slot that is being filled has one filler, and nobody    *)
(* has one that is empty. Flags: what a slot has, or its filler has read   *)
(* so far, is what the configuration declares, but for the items whose     *)
(* flag may be told either way. Pages: a page is what its request finds,   *)
(* unless a look-up failed, and a reply is its page stamped or collapsed.  *)
(***************************************************************************)
EXTENDS Listing, OrderedProofs

\* What one fetch of a quick cache lists.
Reads(k) == UNION {Parts[k][j] : j \in DOMAIN Parts[k]}

\* What it has listed before its p-th part, and what the filler of a slot has so far.
ReadUpto(k, p) == UNION {Parts[k][j] : j \in 1 .. p - 1}
ReadBy(d) == ReadUpto(CacheOf(request[d]), part[d])

Fetches(d, k, i) == Fetching(d) /\ CacheOf(request[d]) = k /\ slot[d] = i
Has(c, k, i) == slot[c] = i /\ CacheOf(request[c]) = k

IsPage(s, r) ==
  /\ \E n \in Nat : DOMAIN s = 1 .. n
  /\ \A i \in DOMAIN s :
       s[i] = Row(s[i].item, s[i].group) /\ s[i].item \in Reads(CacheOf(r))
  /\ r.method = "search_packages" =>
       /\ \A i \in DOMAIN s : s[i].group # None
       /\ \A i, j \in DOMAIN s : s[i].item = s[j].item => i = j

--------------------------------------------------------------------------------
(* Shapes *)

StateType ==
  /\ config \subseteq Items
  /\ clock \in 0 .. MaxClock
  /\ command # None => command.item \in Items
  /\ mapped \in [Caches -> SlotIds]
  /\ slots \in [Caches -> [SlotIds ->
       [state : {"empty", "fetching", "full"}, items : SUBSET Items, at : 0 .. clock]]]
  /\ changed \in [Items -> (0 .. clock) \cup {None}]

CallFunctions ==
  /\ DOMAIN pc = Calls /\ DOMAIN request = Calls /\ DOMAIN page = Calls /\ DOMAIN slot = Calls
  /\ DOMAIN part = Calls /\ DOMAIN seen = Calls /\ DOMAIN rows = Calls /\ DOMAIN either = Calls

CallType(c) ==
  /\ pc[c] \in {"idle", "paged", "waiting", "fetching", "replied"}
  /\ pc[c] # "idle" => request[c] \in Requests[c]
  /\ pc[c] \in {"paged", "waiting", "fetching"} =>
       request[c].method \in Paged \cup {"list_installed_plugins"}
  /\ pc[c] \in {"waiting", "fetching"} => slot[c] \in SlotIds
  /\ pc[c] \notin {"waiting", "fetching"} => slot[c] = None
  /\ Fetching(c) => part[c] \in DOMAIN Parts[CacheOf(request[c])] /\ seen[c] \subseteq ReadBy(c)
  /\ ~Fetching(c) => seen[c] = {}
  /\ pc[c] # "idle" /\ request[c].method \in Paged => IsPage(page[c], request[c])

PagesFit ==
  /\ DOMAIN pages = {Key(r) : r \in Asked}
  /\ \A q \in DOMAIN pages : pages[q] # None => IsPage(pages[q].rows, q)

ShapesInv == StateType /\ CallFunctions /\ PagesFit /\ \A c \in Calls : CallType(c)

(* Slots *)

OneFiller == \A c, d \in Calls : \A k \in Caches, i \in SlotIds : Fetches(c, k, i) /\ Fetches(d, k, i) => c = d

FilledBySomeone ==
  \A k \in Caches, i \in SlotIds :
    slots[k][i].state = "fetching" <=> \E d \in Calls : Fetches(d, k, i)

NobodyHasEmpty == \A k \in Caches, i \in SlotIds : slots[k][i].state = "empty" => ~Holds(k, i)

ListsItsOwn == \A k \in Caches, i \in SlotIds : slots[k][i].items \subseteq Reads(k)

SlotsInv == OneFiller /\ FilledBySomeone /\ NobodyHasEmpty /\ ListsItsOwn

(* Flags *)

Tells(x, S) == x \in S <=> x \in config

UnsettledIsEither ==
  \A c \in Calls : pc[c] \notin {"idle", "replied"} => Unsettled \subseteq either[c]

MappedIsRecent ==
  \A k \in Caches : slots[k][mapped[k]].state = "full" =>
    \A x \in Reads(k) :
      Tells(x, slots[k][mapped[k]].items)
        \/ (changed[x] # None /\ slots[k][mapped[k]].at <= changed[x])

MappedReadsAreRecent ==
  \A k \in Caches : \A d \in Calls : Fetches(d, k, mapped[k]) =>
    \A x \in ReadBy(d) : Tells(x, seen[d]) \/ changed[x] = clock

HeldIsRecent ==
  \A k \in Caches, i \in SlotIds : \A c \in Calls : Has(c, k, i) /\
      slots[k][i].state = "full" =>
      \A x \in Reads(k) : Tells(x, slots[k][i].items) \/ x \in either[c]

HeldReadsAreRecent ==
  \A k \in Caches, i \in SlotIds : \A c, d \in Calls : Has(c, k, i) /\ Fetches(d, k, i) =>
    \A x \in ReadBy(d) : Tells(x, seen[d]) \/ x \in either[c]

FlagsInv ==
  /\ UnsettledIsEither
  /\ MappedIsRecent
  /\ MappedReadsAreRecent
  /\ HeldIsRecent
  /\ HeldReadsAreRecent

--------------------------------------------------------------------------------
(* Rows *)

\* Stamping sets the flag of each row, and nothing else.
LEMMA StampedRows ==
  ASSUME NEW s, NEW S, \A i \in DOMAIN s : s[i] = Row(s[i].item, s[i].group)
  PROVE  /\ DOMAIN Stamped(s, S) = DOMAIN s
         /\ \A i \in DOMAIN s :
              /\ Stamped(s, S)[i].item = s[i].item
              /\ Stamped(s, S)[i].group = s[i].group
              /\ Stamped(s, S)[i].installed = (s[i].item \in S)
BY DEF Stamped, Row

\* The lead of a group, the first row of it, is there when a row of it is.
LEMMA LeadOfGroup ==
  ASSUME NEW e, NEW n \in Nat, DOMAIN e = 1 .. n, NEW i \in 1 .. n
  PROVE  \E l \in Leads(e) : e[l].group = e[i].group
<1> DEFINE G == {j \in 1 .. n : e[j].group = e[i].group}
<1>1. G \in SUBSET Nat /\ i \in G
  OBVIOUS
<1>2. PICK l \in G : \A j \in G : l <= j
  <2> HIDE DEF G
  <2> QED
    BY <1>1, LeastOf
<1>3. l \in 1 .. n /\ e[l].group = e[i].group
  OBVIOUS
<1>4. ASSUME NEW j \in 1 .. l - 1 PROVE e[j].group # e[l].group
  <2>1. j \in 1 .. n /\ ~(l <= j)
    BY <1>3
  <2> QED
    BY <1>2, <1>3, <2>1
<1> QED
  BY <1>3, <1>4 DEF Leads

\* Collapsed, a page has a row for each lead, in order: a row of the lead's group, an
\* installed one if there is one, and the lead itself if it has no group.
LEMMA DedupedRows ==
  ASSUME NEW e, NEW n \in Nat, DOMAIN e = 1 .. n
  PROVE  /\ Leads(e) \in SUBSET (1 .. n) /\ IsFiniteSet(Leads(e)) /\ Cardinality(Leads(e)) \in Nat
         /\ \E w \in [1 .. Cardinality(Leads(e)) -> 1 .. n] :
              /\ DedupByGroup(e) = [k \in 1 .. Cardinality(Leads(e)) |-> e[w[k]]]
              /\ \A k \in 1 .. Cardinality(Leads(e)) :
                   LET l == InOrder(Leads(e))[k]
                   IN  /\ e[w[k]].group = e[l].group
                       /\ e[l].group = None => w[k] = l
                       /\ e[l].group # None =>
                            \A i \in 1 .. n : e[i].group = e[l].group /\ e[i].installed => e[w[k]].installed
<1> DEFINE L == Leads(e)
           c == Cardinality(L)
           leads == InOrder(L)
           installed(g) == {i \in DOMAIN e : e[i].group = g /\ e[i].installed}
           winner(i) ==
             LET group == e[i].group
             IN  IF group = None \/ installed(group) = {} THEN i
                 ELSE CHOOSE j \in installed(group) : \A k \in installed(group) : j <= k
           at == [k \in DOMAIN leads |-> winner(leads[k])]
<1>1. L \in SUBSET (1 .. n)
  BY DEF Leads
<1>2. IsFiniteSet(L)
  BY <1>1, FS_Interval, FS_Subset
<1>3. /\ c \in Nat
      /\ leads \in [1 .. c -> L]
  BY <1>1, <1>2, InOrderLists
<1>4. ASSUME NEW i \in 1 .. n
      PROVE  /\ winner(i) \in 1 .. n
             /\ e[winner(i)].group = e[i].group
             /\ e[i].group = None => winner(i) = i
             /\ e[i].group # None =>
                  \A j \in 1 .. n : e[j].group = e[i].group /\ e[j].installed => e[winner(i)].installed
  <2> DEFINE g == e[i].group
  <2>1. CASE g = None \/ installed(g) = {}
    BY <2>1
  <2>2. CASE g # None /\ installed(g) # {}
    <3>1. installed(g) \in SUBSET Nat
      OBVIOUS
    <3>2. \E j \in installed(g) : \A k \in installed(g) : j <= k
      <4> HIDE DEF installed
      <4> QED
        BY <2>2, <3>1, LeastOf
    <3>3. winner(i) = CHOOSE j \in installed(g) : \A k \in installed(g) : j <= k
      BY <2>2
    <3>4. winner(i) \in installed(g)
      <4> HIDE DEF installed, winner
      <4> QED
        BY <3>2, <3>3
    <3> QED
      <4> HIDE DEF winner
      <4> QED
        BY <3>4, <2>2
  <2> QED
    BY <2>1, <2>2
<1>5. DedupByGroup(e) = RowsAt(e, at)
  BY DEF DedupByGroup
<1> HIDE DEF winner, leads, c, L
<1>6. at = [k \in 1 .. c |-> at[k]] /\ at \in [1 .. c -> 1 .. n]
  BY <1>1, <1>3, <1>4
<1> HIDE DEF at
<1>7. Len(at) = c
  BY <1>3, <1>6, LenOfList
<1>8. DedupByGroup(e) = [k \in 1 .. c |-> e[at[k]]]
  BY <1>5, <1>7 DEF RowsAt
<1>9. \A k \in 1 .. c :
        LET l == leads[k]
        IN  /\ e[at[k]].group = e[l].group
            /\ e[l].group = None => at[k] = l
            /\ e[l].group # None =>
                 \A i \in 1 .. n : e[i].group = e[l].group /\ e[i].installed => e[at[k]].installed
  BY <1>1, <1>3, <1>4 DEF at
<1> QED
  BY <1>1, <1>2, <1>3, <1>6, <1>8, <1>9 DEF L, c, leads

\* The lead of a group has its place in the list of the leads.
LEMMA LeadIsListed ==
  ASSUME NEW e, NEW n \in Nat, DOMAIN e = 1 .. n, NEW l \in Leads(e)
  PROVE  \E k \in 1 .. Cardinality(Leads(e)) : InOrder(Leads(e))[k] = l
<1>1. Leads(e) \in SUBSET Nat /\ IsFiniteSet(Leads(e))
  BY DedupedRows
<1> QED
  BY <1>1, InOrderLists

\* Of a group with an installed row an installed one is shown.
LEMMA InstalledIsShown ==
  ASSUME NEW e, NEW n \in Nat, DOMAIN e = 1 .. n, NEW i \in 1 .. n, e[i].installed
  PROVE  \E k \in DOMAIN DedupByGroup(e) :
           DedupByGroup(e)[k].group = e[i].group /\ DedupByGroup(e)[k].installed
<1> DEFINE L == Leads(e)
           c == Cardinality(L)
<1>1. PICK w \in [1 .. c -> 1 .. n] :
        /\ DedupByGroup(e) = [k \in 1 .. c |-> e[w[k]]]
        /\ \A k \in 1 .. c :
             LET l == InOrder(L)[k]
             IN  /\ e[w[k]].group = e[l].group
                 /\ e[l].group = None => w[k] = l
                 /\ e[l].group # None =>
                      \A j \in 1 .. n : e[j].group = e[l].group /\ e[j].installed => e[w[k]].installed
  BY DedupedRows
<1>2. CASE e[i].group = None
  <2>1. i \in L
    BY <1>2 DEF Leads
  <2>2. PICK k \in 1 .. c : InOrder(L)[k] = i
    BY <2>1, LeadIsListed
  <2>3. w[k] = i
    BY <1>1, <1>2, <2>2
  <2> QED
    BY <1>1, <2>2, <2>3
<1>3. CASE e[i].group # None
  <2>1. PICK l \in L : e[l].group = e[i].group
    BY LeadOfGroup
  <2>2. PICK k \in 1 .. c : InOrder(L)[k] = l
    BY <2>1, LeadIsListed
  <2>3. e[w[k]].group = e[i].group /\ e[w[k]].installed
    BY <1>1, <1>3, <2>1, <2>2
  <2> QED
    BY <1>1, <2>2, <2>3
<1> QED
  BY <1>2, <1>3

LEMMA DedupedFrom ==
  ASSUME NEW e, NEW n \in Nat, DOMAIN e = 1 .. n
  PROVE  \A k \in DOMAIN DedupByGroup(e) : \E j \in 1 .. n : DedupByGroup(e)[k] = e[j]
BY DedupedRows, SMTT(30)

(* Pages *)

LEMMA CachesAre ==
  /\ Caches = {"installed", "plugins", "all_plugins"}
  /\ Reads("installed") = Of("package") \cup Of("module")
  /\ Reads("plugins") = Of("plugin")
  /\ Reads("all_plugins") = Of("plugin")
BY DEF Caches, Parts, Reads

LEMMA CacheOfIs == \A r : CacheOf(r) \in Caches
BY CachesAre DEF CacheOf

LEMMA FiniteItems == \A S \in SUBSET Items : IsFiniteSet(S)
BY ListingAssumption, FS_Subset

\* The rows of finitely many items in one group.
LEMMA FiniteRows ==
  ASSUME NEW S \in SUBSET Items, NEW g
  PROVE  IsFiniteSet({Row(x, g) : x \in S})
<1> DEFINE f == [x \in S |-> Row(x, g)]
<1>1. f \in Surjection(S, {Row(x, g) : x \in S})
  BY DEF Surjection
<1> QED
  BY <1>1, FiniteItems, FS_Surjection

\* The alternates of a group are rows of packages and modules.
LEMMA AlternatesAreRows ==
  ASSUME NEW r \in Asked, r.method = "packages_for_app_id"
  PROVE  /\ IsFiniteSet(AltEntries(r))
         /\ \A x \in AltEntries(r) :
              x = Row(x.item, x.group) /\ x.item \in Reads("installed")
<1> DEFINE g == r.arg
           modules == {m \in Of("module") : ModuleEntry(m).group = g}
<1>1. IsFiniteSet(ModuleRows(g)) /\ \A x \in ModuleRows(g) : \E m \in Of("module") : x = Row(m, g)
  <2>1. modules \in SUBSET Items
    BY DEF Of
  <2>2. ModuleRows(g) = {Row(m, g) : m \in modules}
    BY DEF ModuleRows
  <2> QED
    BY <2>1, <2>2, FiniteRows
<1>2. ASSUME ~(r.desktop /\ Table(g) = {})
      PROVE  \E S \in SUBSET Of("package") : Variants(g) = {Row(p, g) : p \in S}
  <2>1. CASE Table(g) # {}
    <3>1. Variants(g) = {Row(p, g) : p \in Table(g)}
      BY <2>1 DEF Variants
    <3>2. Table(g) \in SUBSET Of("package")
      BY DEF Table
    <3> QED
      BY <3>1, <3>2
  <2>2. CASE Table(g) = {} /\ g \in Dotted
    <3>1. Variants(g) = {Row(p, g) : p \in {}}
      BY <2>2 DEF Variants
    <3> QED
      BY <3>1
  <2>3. CASE Table(g) = {} /\ g \notin Dotted
    <3>1. Hits[g] \in Seq(Of("package"))
      BY <2>3, ListingAssumption DEF HitsAssumption, Table
    <3>2. ToSet(Hits[g]) \subseteq Of("package")
      BY <3>1 DEF ToSet
    <3> DEFINE S == {q \in ToSet(Hits[g]) : Pname[q] = g}
    <3>3. S \in SUBSET Of("package")
      BY <3>2
    <3>4. Variants(g) = {Row(p, g) : p \in S}
      BY <2>3 DEF Variants
    <3> HIDE DEF S
    <3> QED
      BY <3>3, <3>4
  <2> QED
    BY <2>1, <2>2, <2>3
<1>3. CASE r.desktop /\ Table(g) = {}
  <2>1. AltEntries(r) = {}
    BY <1>3 DEF AltEntries
  <2> QED
    BY <2>1, FS_EmptySet
<1>4. CASE ~(r.desktop /\ Table(g) = {})
  <2>1. PICK S \in SUBSET Of("package") : Variants(g) = {Row(p, g) : p \in S}
    BY <1>2, <1>4
  <2>2. IsFiniteSet(Variants(g))
    BY <2>1, FiniteRows DEF Of
  <2>3. AltEntries(r) = ModuleRows(g) \cup Variants(g)
    BY <1>4 DEF AltEntries
  <2>4. IsFiniteSet(AltEntries(r))
    BY <1>1, <2>2, <2>3, FS_Union, ZenonT(30)
  <2>5. \A x \in AltEntries(r) : \E i \in Of("package") \cup Of("module") : x = Row(i, g)
    BY <1>1, <2>1, <2>3
  <2> QED
    BY <2>4, <2>5, CachesAre DEF Row
<1> QED
  BY <1>3, <1>4

\* A finite set of rows, listed, is a page.
LEMMA ListedRows ==
  ASSUME NEW S, IsFiniteSet(S), NEW r, r.method # "search_packages",
         \A x \in S : x = Row(x.item, x.group) /\ x.item \in Reads(CacheOf(r))
  PROVE  IsPage(SetToSeq(S), r)
<1>1. /\ Cardinality(S) \in Nat
      /\ SetToSeq(S) \in [1 .. Cardinality(S) -> S]
  BY SetToSeqLists
<1> QED
  BY <1>1 DEF IsPage

\* What a fetch finds is a page of the request.
LEMMA FoundIsPage ==
  ASSUME NEW r \in Asked, r.method \in Paged
  PROVE  IsPage(Found(r), r)
<1>1. CASE r.method = "search_packages"
  <2>1. PICK n \in Nat : Hits[r.arg] \in [1 .. n -> Of("package")] /\ IsInjective(Hits[r.arg])
    BY <1>1, ListingAssumption DEF HitsAssumption
  <2>2. Found(r) = [i \in 1 .. n |-> PackageEntry(Hits[r.arg][i])]
    BY <1>1, <2>1 DEF Found
  <2>3. \A p \in Of("package") :
          /\ PackageEntry(p) = Row(PackageEntry(p).item, PackageEntry(p).group)
          /\ PackageEntry(p).item = p
          /\ PackageEntry(p).group # None
    BY ListingAssumption DEF PackageEntry, Row
  <2>4. Of("package") \subseteq Reads(CacheOf(r))
    BY <1>1, CachesAre DEF CacheOf
  <2> QED
    BY <2>1, <2>2, <2>3, <2>4, SMTT(30) DEF IsPage, IsInjective
<1>2. CASE r.method = "search_modules"
  <2>1. PICK n \in Nat : Hits[r.arg] \in [1 .. n -> Of("module")]
    BY <1>2, ListingAssumption DEF HitsAssumption
  <2>2. Found(r) = [i \in 1 .. n |-> ModuleEntry(Hits[r.arg][i])]
    BY <1>2, <2>1 DEF Found
  <2>3. \A m \in Of("module") :
          ModuleEntry(m) = Row(ModuleEntry(m).item, ModuleEntry(m).group) /\ ModuleEntry(m).item = m
    BY DEF ModuleEntry, Row
  <2>4. Of("module") \subseteq Reads(CacheOf(r))
    BY <1>2, CachesAre DEF CacheOf
  <2> QED
    BY <1>2, <2>1, <2>2, <2>3, <2>4 DEF IsPage
<1>3. CASE r.method = "packages_for_app_id"
  <2>1. Found(r) = SetToSeq(AltEntries(r)) /\ CacheOf(r) = "installed"
    BY <1>3 DEF Found, CacheOf
  <2> QED
    BY <1>3, <2>1, AlternatesAreRows, ListedRows
<1>4. CASE r.method = "list_module_plugins"
  <2>1. Found(r) = SetToSeq({Row(p, None) : p \in Of("plugin")}) /\ CacheOf(r) = "plugins"
    BY <1>4 DEF Found, CacheOf
  <2>2. IsFiniteSet({Row(p, None) : p \in Of("plugin")})
    BY FiniteRows DEF Of
  <2>3. \A x \in {Row(p, None) : p \in Of("plugin")} : x = Row(x.item, x.group) /\ x.item \in Reads("plugins")
    BY CachesAre DEF Row
  <2> QED
    BY <1>4, <2>1, <2>2, <2>3, ListedRows
<1> QED
  BY <1>1, <1>2, <1>3, <1>4 DEF Paged

\* So is what one that fails leaves.
LEMMA DegradedIsPage ==
  ASSUME NEW r \in Asked, r.method \in Paged, NEW found \in Degraded(r)
  PROVE  IsPage(found, r)
<1>1. CASE r.method # "packages_for_app_id"
  <2>1. found = <<>>
    BY <1>1 DEF Degraded
  <2> QED
    BY <2>1 DEF IsPage
<1>2. CASE r.method = "packages_for_app_id"
  <2>1. PICK p : found = SetToSeq(AltEntries(r) \cap p)
    BY <1>2 DEF Degraded
  <2>2. /\ IsFiniteSet(AltEntries(r) \cap p)
        /\ \A x \in AltEntries(r) \cap p : x = Row(x.item, x.group) /\ x.item \in Reads("installed")
    BY <1>2, AlternatesAreRows, FS_Subset
  <2>3. CacheOf(r) = "installed"
    BY <1>2 DEF CacheOf
  <2> QED
    BY <1>2, <2>1, <2>2, <2>3, ListedRows
<1> QED
  BY <1>1, <1>2

\* The key of a page is a request of the same method.
LEMMA KeyKeepsMethod ==
  ASSUME NEW r \in Asked
  PROVE  /\ CacheOf(Key(r)) = CacheOf(r)
         /\ \A s : IsPage(s, Key(r)) <=> IsPage(s, r)
<1>1. r = [method |-> r.method, arg |-> r.arg, desktop |-> r.desktop]
  BY ListingAssumption DEF HitsAssumption
<1>2. Key(r).method = r.method
  BY <1>1 DEF Key
<1> QED
  BY <1>2 DEF CacheOf, IsPage

(* Parts *)

LEMMA PartsAre ==
  ASSUME NEW k \in Caches
  PROVE  /\ Len(Parts[k]) \in Nat \ {0} /\ DOMAIN Parts[k] = 1 .. Len(Parts[k])
         /\ \A j \in DOMAIN Parts[k] : Parts[k][j] \subseteq Items
         /\ \A i, j \in DOMAIN Parts[k] : i # j => Parts[k][i] \cap Parts[k][j] = {}
<1>1. CASE k = "installed"
  <2>1. Parts[k] = <<Of("package"), Of("module")>>
    BY <1>1 DEF Parts
  <2>2. Of("package") \cap Of("module") = {}
    BY DEF Of
  <2>3. Of("package") \subseteq Items /\ Of("module") \subseteq Items
    BY DEF Of
  <2> QED
    BY <2>1, <2>2, <2>3
<1>2. CASE k \in {"plugins", "all_plugins"}
  <2>1. Parts[k] = <<Of("plugin")>>
    BY <1>2 DEF Parts
  <2>2. Of("plugin") \subseteq Items
    BY DEF Of
  <2> QED
    BY <2>1, <2>2
<1> QED
  BY <1>1, <1>2, CachesAre

LEMMA ReadsAreItems == \A k \in Caches : Reads(k) \subseteq Items
BY PartsAre DEF Reads

\* Part by part, a fetch reads what the cache lists, no item twice.
LEMMA NextPart ==
  ASSUME NEW k \in Caches, NEW p \in DOMAIN Parts[k]
  PROVE  /\ ReadUpto(k, p + 1) = ReadUpto(k, p) \cup Parts[k][p]
         /\ ReadUpto(k, p) \cap Parts[k][p] = {}
         /\ p >= Len(Parts[k]) => Reads(k) = ReadUpto(k, p) \cup Parts[k][p]
         /\ ReadUpto(k, p) \subseteq Items
<1>1. p \in 1 .. Len(Parts[k]) /\ Len(Parts[k]) \in Nat
  BY PartsAre
<1>2. 1 .. (p + 1) - 1 = (1 .. p - 1) \cup {p}
  BY <1>1
<1>3. ReadUpto(k, p + 1) = ReadUpto(k, p) \cup Parts[k][p]
  BY <1>2 DEF ReadUpto
<1>4. \A j \in 1 .. p - 1 : j \in DOMAIN Parts[k] /\ j # p
  BY <1>1, PartsAre
<1>5. ReadUpto(k, p) \cap Parts[k][p] = {} /\ ReadUpto(k, p) \subseteq Items
  BY <1>4, PartsAre DEF ReadUpto
<1>6. ASSUME p >= Len(Parts[k]) PROVE Reads(k) = ReadUpto(k, p) \cup Parts[k][p]
  <2>1. DOMAIN Parts[k] = (1 .. p - 1) \cup {p}
    BY <1>1, <1>6, PartsAre
  <2> QED
    BY <2>1 DEF Reads, ReadUpto
<1> QED
  BY <1>3, <1>5, <1>6

LEMMA NothingReadYet == \A k : ReadUpto(k, 1) = {}
BY DEF ReadUpto

--------------------------------------------------------------------------------
(* Shapes *)

\* When every call holds a slot, one of each key is left.
LEMMA SlotIsFree ==
  ASSUME NEW k, NEW i \in SlotIds, Holds(k, i)
  PROVE  \E j \in SlotIds \ {i} : ~Holds(k, j)
<1> SUFFICES ASSUME \A j \in SlotIds : Holds(k, j) PROVE FALSE
  OBVIOUS
<1> DEFINE f == [j \in SlotIds |-> CHOOSE c \in Calls : slot[c] = j /\ CacheOf(request[c]) = k]
<1>1. \A j \in SlotIds : f[j] \in Calls /\ slot[f[j]] = j
  BY DEF Holds
<1>2. f \in [SlotIds -> Calls]
  BY <1>1
<1> HIDE DEF f
<1>3. /\ IsFiniteSet(Calls) /\ Cardinality(Calls) \in Nat
      /\ IsFiniteSet(SlotIds) /\ Cardinality(SlotIds) = Cardinality(Calls) + 1
  BY ListingAssumption, FS_CardinalityType, FS_Interval, SMTT(30) DEF SlotIds
<1>4. \E x, y \in SlotIds : x # y /\ f[x] = f[y]
  BY <1>2, <1>3, FS_PigeonHole
<1> QED
  BY <1>1, <1>4

\* What goes in the map in place of a slot that goes from it has no holder.
LEMMA ReplacedSlots ==
  ASSUME mapped \in [Caches -> SlotIds], NEW ks, NEW filling, Replaced(ks, filling)
  PROVE  /\ mapped' \in [Caches -> SlotIds]
         /\ \A k \in Caches :
              /\ k \in ks => ~Holds(k, mapped'[k])
              /\ k \notin ks => mapped'[k] = mapped[k]
              /\ slots'[k] = [slots[k] EXCEPT ![mapped'[k]] =
                   IF k \in filling THEN [NewSlot EXCEPT !.state = "fetching"]
                   ELSE IF k \in ks THEN NewSlot ELSE @]
         /\ DOMAIN slots' = Caches
<1> DEFINE next(k) ==
             IF k \in ks /\ Holds(k, mapped[k])
             THEN CHOOSE i \in SlotIds \ {mapped[k]} : ~Holds(k, i)
             ELSE mapped[k]
<1>1. /\ mapped' = [k \in Caches |-> next(k)]
      /\ slots' = [k \in Caches |->
           [slots[k] EXCEPT ![next(k)] =
              IF k \in filling THEN [NewSlot EXCEPT !.state = "fetching"]
              ELSE IF k \in ks THEN NewSlot ELSE @]]
  BY DEF Replaced
<1>2. ASSUME NEW k \in Caches
      PROVE  /\ next(k) \in SlotIds
             /\ k \in ks => ~Holds(k, next(k))
             /\ k \notin ks => next(k) = mapped[k]
  <2>1. CASE k \in ks /\ Holds(k, mapped[k])
    <3>1. \E i \in SlotIds \ {mapped[k]} : ~Holds(k, i)
      BY <2>1, SlotIsFree
    <3> QED
      BY <2>1, <3>1
  <2>2. CASE ~(k \in ks /\ Holds(k, mapped[k]))
    BY <2>2
  <2> QED
    BY <2>1, <2>2
<1> HIDE DEF next
<1> QED
  BY <1>1, <1>2

LEMMA CallTypeFrame ==
  ASSUME NEW d, CallType(d), pc'[d] = pc[d], request'[d] = request[d], slot'[d] = slot[d],
         part'[d] = part[d], seen'[d] = seen[d], page'[d] = page[d]
  PROVE  CallType(d)'
BY DEF CallType, Fetching, ReadBy

LEMMA ShapesInit == Init => ShapesInv
<1> SUFFICES ASSUME Init PROVE ShapesInv
  OBVIOUS
<1>1. StateType
  <2>1. 0 \in SlotIds
    BY ListingAssumption, FS_CardinalityType DEF SlotIds
  <2> QED
    BY <2>1, ListingAssumption DEF Init, StateType, NewSlot
<1>2. PagesFit
  BY DEF Init, PagesFit, Asked
<1>3. \A c \in Calls : CallType(c)
  BY DEF Init, CallType, Fetching
<1>4. CallFunctions
  BY DEF Init, CallFunctions
<1> QED
  BY <1>1, <1>2, <1>3, <1>4 DEF ShapesInv

LEMMA StateTypeFrame ==
  ASSUME StateType, UNCHANGED <<config, command, clock, slots, mapped, changed>>
  PROVE  StateType'
BY DEF StateType

\* A call begins, with a page or with its reply.
LEMMA BeginShapes ==
  ASSUME ShapesInv, NEW c \in Calls, NEW r \in Requests[c], Begin(c, r), PagesFit',
         r.method \in Paged => IsPage(page'[c], r),
         NEW p \in {"paged", "replied"}, pc' = [pc EXCEPT ![c] = p],
         p = "paged" => r.method \in Paged \cup {"list_installed_plugins"},
         \A d \in Calls \ {c} : page'[d] = page[d],
         DOMAIN page' = Calls, DOMAIN rows' = Calls
  PROVE  ShapesInv'
<1>1. StateType'
  BY StateTypeFrame DEF Begin, ShapesInv
<1>2. CallFunctions'
  BY DEF Begin, ShapesInv, CallFunctions
<1>3. CallType(c)'
  BY DEF Begin, ShapesInv, CallFunctions, CallType, Fetching
<1>4. ASSUME NEW d \in Calls, d # c PROVE CallType(d)'
  BY <1>4, CallTypeFrame DEF Begin, ShapesInv, CallFunctions
<1> QED
  BY <1>1, <1>2, <1>3, <1>4 DEF ShapesInv

LEMMA AskedRequests == \A c \in Calls : Requests[c] \subseteq Asked
BY DEF Asked

LEMMA AskCachedShapes ==
  ASSUME ShapesInv, NEW c \in Calls, NEW r \in Requests[c], AskCached(c, r)
  PROVE  ShapesInv'
<1>1. r \in Asked
  BY AskedRequests
<1>2. Key(r) \in DOMAIN pages /\ pages[Key(r)] # None
  BY <1>1 DEF AskCached, Cached, ShapesInv, PagesFit
<1>3. IsPage(page'[c], r)
  BY <1>1, <1>2, KeyKeepsMethod DEF AskCached, ShapesInv, PagesFit, CallFunctions
<1>4. PagesFit'
  BY DEF AskCached, ShapesInv, PagesFit
<1> QED
  BY <1>3, <1>4, BeginShapes DEF AskCached, ShapesInv, CallFunctions

LEMMA FetchShapes ==
  ASSUME ShapesInv, NEW c \in Calls, NEW r \in Requests[c], NEW found, NEW whole, Fetch(c, r, found, whole), IsPage(found, r)
  PROVE  ShapesInv'
<1>1. r \in Asked
  BY AskedRequests
<1>2. Key(r) \in DOMAIN pages /\ IsPage(found, Key(r))
  BY <1>1, KeyKeepsMethod DEF ShapesInv, PagesFit
<1>3. PagesFit'
  BY <1>2 DEF Fetch, ShapesInv, PagesFit
<1> QED
  BY <1>3, BeginShapes DEF Fetch, ShapesInv, CallFunctions

LEMMA AskShapes ==
  ASSUME ShapesInv, NEW c \in Calls, NEW r \in Requests[c],
         \/ AskCached(c, r) \/ AskFetched(c, r) \/ AskDegraded(c, r)
         \/ ListInstalled(c, r) \/ AskPlugins(c, r)
  PROVE  ShapesInv'
<1>1. r \in Asked
  BY AskedRequests
<1>2. CASE AskCached(c, r)
  BY <1>2, AskCachedShapes
<1>3. CASE AskFetched(c, r)
  BY <1>1, <1>3, FetchShapes, FoundIsPage DEF AskFetched
<1>4. CASE AskDegraded(c, r)
  <2>1. PICK found \in Degraded(r) : Fetch(c, r, found, FALSE)
    BY <1>4 DEF AskDegraded
  <2> QED
    BY <1>1, <1>4, <2>1, FetchShapes, DegradedIsPage DEF AskDegraded
<1>5. CASE ListInstalled(c, r)
  <2>1. PagesFit' /\ page' = page /\ r.method \notin Paged
    BY <1>5 DEF ListInstalled, ShapesInv, PagesFit, Paged
  <2>2. DOMAIN rows' = Calls /\ Begin(c, r) /\ pc' = [pc EXCEPT ![c] = "replied"]
    BY <1>5 DEF ListInstalled, ShapesInv, CallFunctions
  <2> QED
    BY <2>1, <2>2, BeginShapes DEF ShapesInv, CallFunctions
<1>6. CASE AskPlugins(c, r)
  <2>1. PagesFit' /\ page' = page /\ r.method \notin Paged
    BY <1>6 DEF AskPlugins, ShapesInv, PagesFit, Paged
  <2> QED
    BY <1>6, <2>1, BeginShapes DEF AskPlugins, ShapesInv, CallFunctions
<1> QED
  BY <1>2, <1>3, <1>4, <1>5, <1>6

\* What is left to show of a step that changes one call at most.
LEMMA CallShapes ==
  ASSUME ShapesInv, StateType', CallFunctions', UNCHANGED <<pages, request, page>>,
         NEW c \in Calls, CallType(c)',
         \A d \in Calls \ {c} :
           pc'[d] = pc[d] /\ slot'[d] = slot[d] /\ part'[d] = part[d] /\ seen'[d] = seen[d]
  PROVE  ShapesInv'
<1>1. PagesFit'
  BY DEF ShapesInv, PagesFit
<1>2. ASSUME NEW d \in Calls, d # c PROVE CallType(d)'
  BY <1>2, CallTypeFrame DEF ShapesInv
<1> QED
  BY <1>1, <1>2 DEF ShapesInv

LEMMA JoinShapes ==
  ASSUME ShapesInv, NEW c \in Calls, Join(c)
  PROVE  ShapesInv'
<1> DEFINE k == CacheOf(request[c])
<1>1. StateType' /\ CallFunctions'
  BY StateTypeFrame DEF Join, stampFrame, ShapesInv, CallFunctions
<1>2. slot'[c] = mapped[k] /\ mapped[k] \in SlotIds /\ pc'[c] = "waiting" /\ pc[c] = "paged"
  BY CacheOfIs DEF Join, ShapesInv, StateType, CallFunctions
<1>3. CallType(c)'
  BY <1>2 DEF Join, stampFrame, ShapesInv, CallType, Fetching
<1> QED
  BY <1>1, <1>3, CallShapes DEF Join, stampFrame, ShapesInv, CallFunctions

LEMMA ReplacedType ==
  ASSUME StateType, NEW ks, NEW filling, Replaced(ks, filling), clock' = clock
  PROVE  /\ mapped' \in [Caches -> SlotIds]
         /\ (slots \in [Caches -> [SlotIds ->
              [state : {"empty", "fetching", "full"}, items : SUBSET Items, at : 0 .. clock]]])'
<1> DEFINE V == [state : {"empty", "fetching", "full"}, items : SUBSET Items, at : 0 .. clock]
<1>1. NewSlot \in V /\ [NewSlot EXCEPT !.state = "fetching"] \in V
  <2>1. clock \in Nat
    BY ListingAssumption DEF StateType
  <2> QED
    BY <2>1 DEF NewSlot
<1>2. mapped \in [Caches -> SlotIds] /\ slots \in [Caches -> [SlotIds -> V]]
  BY DEF StateType
<1>3. \A k \in Caches : mapped'[k] \in SlotIds /\ slots'[k] \in [SlotIds -> V]
  <2> TAKE k \in Caches
  <2> HIDE DEF V
  <2>1. /\ mapped'[k] \in SlotIds
        /\ slots'[k] = [slots[k] EXCEPT ![mapped'[k]] =
             IF k \in filling THEN [NewSlot EXCEPT !.state = "fetching"]
             ELSE IF k \in ks THEN NewSlot ELSE @]
    BY <1>2, ReplacedSlots, ZenonT(40)
  <2> QED
    BY <1>1, <1>2, <2>1
<1>4. slots' = [k \in Caches |-> slots'[k]]
  BY DEF Replaced
<1>5. mapped' \in [Caches -> SlotIds]
  BY <1>2, ReplacedSlots
<1> QED
  BY <1>3, <1>4, <1>5

LEMMA DriveShapes ==
  ASSUME ShapesInv, NEW c \in Calls, Drive(c)
  PROVE  ShapesInv'
<1> DEFINE k == CacheOf(request[c])
<1>1. StateType'
  BY ReplacedType DEF Drive, DriveSlot, stampFrame, ShapesInv, StateType
<1>2. CallFunctions'
  BY DEF Drive, DriveSlot, stampFrame, ShapesInv, CallFunctions
<1>3. /\ slot'[c] = mapped'[k] /\ mapped'[k] \in SlotIds /\ pc'[c] = "fetching"
      /\ part'[c] = 1 /\ pc[c] = "paged" /\ request' = request /\ seen' = seen /\ page' = page
  BY <1>1, CacheOfIs DEF Drive, DriveSlot, stampFrame, ShapesInv, StateType, CallFunctions
<1>4. 1 \in DOMAIN Parts[k]
  BY CacheOfIs, PartsAre
<1>5. CallType(c)'
  BY <1>3, <1>4 DEF ShapesInv, CallType, Fetching
<1> QED
  BY <1>1, <1>2, <1>5, CallShapes DEF Drive, DriveSlot, stampFrame, ShapesInv, CallFunctions

LEMMA ReadPartShapes ==
  ASSUME ShapesInv, NEW c \in Calls, Fetching(c),
         NEW read \in SUBSET Parts[CacheOf(request[c])][part[c]], ReadPart(c, read),
         changed' \in [Items -> (0 .. clock) \cup {None}], DOMAIN either' = Calls
  PROVE  ShapesInv'
<1> DEFINE k == CacheOf(request[c])
           all == seen[c] \cup read
<1>1. /\ k \in Caches /\ part[c] \in DOMAIN Parts[k] /\ slot[c] \in SlotIds
      /\ seen[c] \subseteq ReadUpto(k, part[c])
      /\ request' = request /\ slot' = slot /\ page' = page /\ pages' = pages
  BY CacheOfIs DEF ShapesInv, CallType, Fetching, ReadPart, ReadBy
<1>2. all \subseteq ReadUpto(k, part[c] + 1) /\ all \subseteq Items
  BY <1>1, NextPart, PartsAre
<1>3. CallFunctions'
  BY DEF ReadPart, ShapesInv, CallFunctions
<1>4. CASE part[c] < Len(Parts[k])
  <2>1. /\ part'[c] = part[c] + 1 /\ seen'[c] = all /\ pc' = pc /\ slots' = slots
        /\ \A d \in Calls \ {c} : part'[d] = part[d] /\ seen'[d] = seen[d]
    BY <1>4 DEF ReadPart, ShapesInv, CallFunctions
  <2>2. StateType'
    BY <2>1 DEF ReadPart, ShapesInv, StateType
  <2>3. part[c] + 1 \in DOMAIN Parts[k]
    BY <1>1, <1>4, PartsAre
  <2> HIDE DEF all, k
  <2>4. CallType(c)'
    BY <1>1, <1>2, <2>1, <2>3 DEF ShapesInv, CallType, Fetching, ReadBy, k
  <2> QED
    BY <1>1, <1>3, <2>1, <2>2, <2>4, CallShapes
<1>5. CASE ~(part[c] < Len(Parts[k]))
  <2>1. /\ seen'[c] = {} /\ pc'[c] = "waiting"
        /\ slots' = [slots EXCEPT ![k][slot[c]] = [state |-> "full", items |-> all, at |-> clock]]
        /\ \A d \in Calls \ {c} : pc'[d] = pc[d] /\ part'[d] = part[d] /\ seen'[d] = seen[d]
    BY <1>5 DEF ReadPart, ShapesInv, CallFunctions
  <2>2. StateType'
    <3>1. [state |-> "full", items |-> all, at |-> clock]
            \in [state : {"empty", "fetching", "full"}, items : SUBSET Items, at : 0 .. clock]
      BY <1>2, ListingAssumption DEF ShapesInv, StateType
    <3> HIDE DEF all, k
    <3> QED
      BY <1>1, <2>1, <3>1 DEF ReadPart, ShapesInv, StateType
  <2> HIDE DEF all, k
  <2>4. CallType(c)'
    BY <1>1, <2>1 DEF ShapesInv, CallType, Fetching
  <2> QED
    BY <1>1, <1>3, <2>1, <2>2, <2>4, CallShapes
<1> QED
  BY <1>4, <1>5

LEMMA ReplyShapes ==
  ASSUME ShapesInv, NEW c \in Calls, Reply(c)
  PROVE  ShapesInv'
<1>1. StateType' /\ CallFunctions'
  BY StateTypeFrame DEF Reply, stampFrame, ShapesInv, CallFunctions
<1>2. /\ pc'[c] = "replied" /\ pc[c] = "waiting" /\ slot'[c] = None
      /\ request' = request /\ seen' = seen /\ page' = page /\ pages' = pages /\ part' = part
      /\ \A d \in Calls \ {c} : pc'[d] = pc[d] /\ slot'[d] = slot[d]
  BY DEF Reply, stampFrame, ShapesInv, CallFunctions
<1>3. CallType(c)'
  BY <1>2 DEF ShapesInv, CallType, Fetching
<1> QED
  BY <1>1, <1>2, <1>3, CallShapes

LEMMA PutShapes ==
  ASSUME ShapesInv, NEW i \in Items, NEW there, Put(i, there), command' # None => command'.item \in Items
  PROVE  ShapesInv'
<1>1. StateType'
  BY ListingAssumption DEF Put, ShapesInv, StateType
<1>2. CallFunctions' /\ PagesFit'
  BY DEF Put, callVars, Also, ShapesInv, CallFunctions, PagesFit
<1>3. \A d \in Calls : CallType(d)'
  BY CallTypeFrame DEF Put, callVars, ShapesInv
<1> QED
  BY <1>1, <1>2, <1>3 DEF ShapesInv

LEMMA ShapesNext == ShapesInv /\ [Next]_vars => ShapesInv'
<1> SUFFICES ASSUME ShapesInv, [Next]_vars PROVE ShapesInv'
  OBVIOUS
<1>1. ASSUME NEW c \in Calls, NEW r \in Requests[c],
             \/ AskCached(c, r) \/ AskFetched(c, r) \/ AskDegraded(c, r)
             \/ ListInstalled(c, r) \/ AskPlugins(c, r)
      PROVE  ShapesInv'
  BY <1>1, AskShapes
<1>2. ASSUME NEW c \in Calls, Join(c) PROVE ShapesInv'
  BY <1>2, JoinShapes
<1>3. ASSUME NEW c \in Calls, Drive(c) PROVE ShapesInv'
  BY <1>3, DriveShapes
<1>4. ASSUME NEW c \in Calls, Read(c) PROVE ShapesInv'
  BY <1>4, ReadPartShapes DEF Read, ShapesInv, StateType, CallFunctions
<1>5. ASSUME NEW c \in Calls, ReadFails(c) PROVE ShapesInv'
  <2>1. changed' \in [Items -> (0 .. clock) \cup {None}] /\ DOMAIN either' = Calls
    BY <1>5, ListingAssumption DEF ReadFails, Also, ShapesInv, StateType
  <2> QED
    BY <1>5, <2>1, ReadPartShapes DEF ReadFails
<1>6. ASSUME NEW c \in Calls, Reply(c) PROVE ShapesInv'
  BY <1>6, ReplyShapes
<1>7. ASSUME NEW i \in Touched, Write(i) PROVE ShapesInv'
  <2>1. i \in Items /\ command'.item = i
    BY <1>7, ListingAssumption DEF Write
  <2> QED
    BY <1>7, <2>1, PutShapes DEF Write
<1>8. ASSUME NEW i \in Touched, Edit(i) PROVE ShapesInv'
  <2>1. i \in Items /\ command' = command
    BY <1>8, ListingAssumption DEF Edit
  <2> QED
    BY <1>8, <2>1, PutShapes DEF Edit, ShapesInv, StateType
<1>9. CASE RollBack
  <2>1. command.item \in Items /\ command' = None
    BY <1>9 DEF RollBack, ShapesInv, StateType
  <2> QED
    BY <1>9, <2>1, PutShapes DEF RollBack
<1>10. CASE Invalidate
  <2>1. StateType'
    BY <1>10, ReplacedType DEF Invalidate, Settle, ShapesInv, StateType
  <2>2. CallFunctions' /\ PagesFit'
    BY <1>10 DEF Invalidate, Settle, callVars, ShapesInv, CallFunctions, PagesFit
  <2>3. \A d \in Calls : CallType(d)'
    BY <1>10, CallTypeFrame DEF Invalidate, Settle, callVars, ShapesInv
  <2> QED
    BY <2>1, <2>2, <2>3 DEF ShapesInv
<1>11. CASE Tick
  <2>1. StateType'
    <3>1. clock \in Nat /\ clock' = clock + 1 /\ clock' \in 0 .. MaxClock /\ 0 .. clock \subseteq 0 .. clock'
      BY <1>11, ListingAssumption DEF Tick, ShapesInv, StateType
    <3>2. changed' \in [Items -> (0 .. clock') \cup {None}]
      BY <1>11, <3>1 DEF Tick, ShapesInv, StateType
    <3> QED
      BY <1>11, <3>1, <3>2 DEF Tick, ShapesInv, StateType
  <2>2. CallFunctions' /\ PagesFit'
    BY <1>11 DEF Tick, callVars, ShapesInv, CallFunctions, PagesFit
  <2>3. \A d \in Calls : CallType(d)'
    BY <1>11, CallTypeFrame DEF Tick, callVars, ShapesInv
  <2> QED
    BY <2>1, <2>2, <2>3 DEF ShapesInv
<1>12. CASE UNCHANGED vars
  <2>1. StateType'
    BY <1>12, StateTypeFrame DEF vars, ShapesInv
  <2>2. CallFunctions' /\ PagesFit'
    BY <1>12 DEF vars, callVars, ShapesInv, CallFunctions, PagesFit
  <2>3. \A d \in Calls : CallType(d)'
    BY <1>12, CallTypeFrame DEF vars, callVars, ShapesInv
  <2> QED
    BY <2>1, <2>2, <2>3 DEF ShapesInv
<1> QED
  BY <1>1, <1>2, <1>3, <1>4, <1>5, <1>6, <1>7, <1>8, <1>9, <1>10, <1>11, <1>12 DEF Next

--------------------------------------------------------------------------------
(* Slots *)

LEMMA SlotIdsAreNumbers == SlotIds \subseteq Nat /\ None \notin SlotIds
BY ListingAssumption, FS_CardinalityType DEF SlotIds

LEMMA HoldsIsHas == \A k, i : Holds(k, i) <=> \E c \in Calls : Has(c, k, i)
BY DEF Holds, Has

LEMMA FetcherHas == \A d, k, i : Fetches(d, k, i) => Has(d, k, i)
BY DEF Fetches, Has

\* The calls have the slots they had, and so do their fillers.
SameHolders ==
  \A d \in Calls, k \in Caches, i \in SlotIds :
    (Has(d, k, i)' <=> Has(d, k, i)) /\ (Fetches(d, k, i)' <=> Fetches(d, k, i))

LEMMA SlotsFrame ==
  ASSUME SlotsInv, slots' = slots, SameHolders
  PROVE  SlotsInv'
<1>1. OneFiller'
  BY DEF SlotsInv, OneFiller, SameHolders
<1>2. FilledBySomeone'
  BY DEF SlotsInv, FilledBySomeone, SameHolders
<1>3. \A k \in Caches, i \in SlotIds : Holds(k, i)' <=> Holds(k, i)
  BY DEF Holds, Has, SameHolders
<1>4. NobodyHasEmpty'
  BY <1>3 DEF SlotsInv, NobodyHasEmpty
<1>5. ListsItsOwn'
  BY DEF SlotsInv, ListsItsOwn
<1> QED
  BY <1>1, <1>2, <1>4, <1>5 DEF SlotsInv

LEMMA SlotsInit == Init => SlotsInv
<1> SUFFICES ASSUME Init PROVE SlotsInv
  OBVIOUS
<1>1. \A d \in Calls : ~Fetching(d)
  BY DEF Init, Fetching
<1>2. \A k \in Caches, i \in SlotIds : ~Holds(k, i)
  BY SlotIdsAreNumbers DEF Init, Holds
<1>3. \A k \in Caches, i \in SlotIds : slots[k][i].state = "empty" /\ slots[k][i].items = {}
  BY DEF Init, NewSlot
<1> QED
  BY <1>1, <1>2, <1>3 DEF SlotsInv, OneFiller, FilledBySomeone, NobodyHasEmpty, ListsItsOwn, Fetches

\* A call that begins has no slot.
LEMMA BeginHolders ==
  ASSUME ShapesInv, NEW c \in Calls, NEW r, Begin(c, r), NEW p \in {"paged", "replied"},
         pc' = [pc EXCEPT ![c] = p]
  PROVE  SameHolders
<1>1. /\ slot' = slot /\ slot[c] = None
      /\ \A d \in Calls \ {c} : request'[d] = request[d] /\ pc'[d] = pc[d]
  BY DEF Begin, ShapesInv, CallFunctions, CallType
<1>2. ~Fetching(c)' /\ ~Fetching(c)
  BY DEF Begin, Fetching, ShapesInv, CallFunctions
<1>3. \A k \in Caches, i \in SlotIds : ~Has(c, k, i) /\ ~Has(c, k, i)'
  BY <1>1, SlotIdsAreNumbers DEF Has
<1> QED
  BY <1>1, <1>2, <1>3 DEF SameHolders, Has, Fetches, Fetching

LEMMA AskHolders ==
  ASSUME ShapesInv, NEW c \in Calls, NEW r \in Requests[c],
         \/ AskCached(c, r) \/ AskFetched(c, r) \/ AskDegraded(c, r)
         \/ ListInstalled(c, r) \/ AskPlugins(c, r)
  PROVE  SameHolders /\ UNCHANGED <<config, clock, slots, mapped, part, seen, changed>> /\ Begin(c, r)
<1>1. CASE AskCached(c, r)
  BY <1>1, BeginHolders DEF AskCached, Begin
<1>2. CASE AskFetched(c, r) \/ AskDegraded(c, r)
  <2>1. PICK found, whole : Fetch(c, r, found, whole)
    BY <1>2 DEF AskFetched, AskDegraded
  <2> QED
    BY <2>1, BeginHolders DEF Fetch, Begin
<1>3. CASE ListInstalled(c, r)
  <2>1. Begin(c, r) /\ pc' = [pc EXCEPT ![c] = "replied"]
    BY <1>3 DEF ListInstalled
  <2> QED
    BY <2>1, BeginHolders DEF Begin
<1>4. CASE AskPlugins(c, r)
  BY <1>4, BeginHolders DEF AskPlugins, Begin
<1> QED
  BY <1>1, <1>2, <1>3, <1>4

\* A slot that is in the map and neither stale nor empty is taken as it is.
LEMMA JoinSlots ==
  ASSUME ShapesInv, SlotsInv, NEW c \in Calls, Join(c)
  PROVE  SlotsInv'
<1> DEFINE q == CacheOf(request[c])
<1>1. /\ slots' = slots /\ request' = request /\ slots[q][mapped[q]].state # "empty"
      /\ ~Fetching(c) /\ ~Fetching(c)' /\ slot'[c] = mapped[q]
      /\ \A d \in Calls \ {c} : pc'[d] = pc[d] /\ slot'[d] = slot[d]
  BY DEF Join, stampFrame, Fetching, ShapesInv, CallFunctions
<1>2. \A d \in Calls, k \in Caches, i \in SlotIds : Fetches(d, k, i)' <=> Fetches(d, k, i)
  BY <1>1 DEF Fetches, Fetching
<1>3. OneFiller' /\ FilledBySomeone'
  BY <1>1, <1>2 DEF SlotsInv, OneFiller, FilledBySomeone
<1>4. NobodyHasEmpty'
  <2> SUFFICES ASSUME NEW k \in Caches, NEW i \in SlotIds, slots[k][i].state = "empty",
                      NEW d \in Calls, Has(d, k, i)'
               PROVE  FALSE
    BY <1>1 DEF NobodyHasEmpty, Holds, Has
  <2>1. d # c
    BY <1>1 DEF Has
  <2>2. Has(d, k, i)
    BY <1>1, <2>1 DEF Has
  <2> QED
    BY <2>2 DEF SlotsInv, NobodyHasEmpty, Holds, Has
<1>5. ListsItsOwn'
  BY <1>1 DEF SlotsInv, ListsItsOwn
<1> QED
  BY <1>3, <1>4, <1>5 DEF SlotsInv

\* What goes in the map, and what begins to be filled, nobody has.
LEMMA DrivenSlot ==
  ASSUME ShapesInv, SlotsInv, NEW c \in Calls, Drive(c)
  PROVE  LET q == CacheOf(request[c])
         IN  /\ mapped'[q] \in SlotIds /\ ~Holds(q, mapped'[q])
             /\ slots'[q] = [slots[q] EXCEPT ![mapped'[q]] = [NewSlot EXCEPT !.state = "fetching"]]
             /\ \A k \in Caches \ {q} : mapped'[k] = mapped[k] /\ slots'[k] = slots[k]
<1> DEFINE q == CacheOf(request[c])
           ks == IF Stale(q) THEN {q} ELSE {}
<1>1. Replaced(ks, {q}) /\ q \in Caches /\ mapped \in [Caches -> SlotIds]
  BY CacheOfIs DEF Drive, ShapesInv, StateType
<1> HIDE DEF q, ks
<1>2. /\ mapped' \in [Caches -> SlotIds]
      /\ \A k \in Caches :
           /\ k \in ks => ~Holds(k, mapped'[k])
           /\ k \notin ks => mapped'[k] = mapped[k]
           /\ slots'[k] = [slots[k] EXCEPT ![mapped'[k]] =
                IF k \in {q} THEN [NewSlot EXCEPT !.state = "fetching"]
                ELSE IF k \in ks THEN NewSlot ELSE @]
  BY <1>1, ReplacedSlots
<1>3. ~Holds(q, mapped'[q])
  <2>1. CASE Stale(q)
    BY <1>1, <1>2, <2>1 DEF ks
  <2>2. CASE ~Stale(q)
    <3>1. slots[q][mapped[q]].state = "empty"
      BY <2>2 DEF Drive, q
    <3> QED
      BY <1>1, <1>2, <2>2, <3>1 DEF ks, SlotsInv, NobodyHasEmpty
  <2> QED
    BY <2>1, <2>2
<1>4. ASSUME NEW k \in Caches, k # q PROVE mapped'[k] = mapped[k] /\ slots'[k] = slots[k]
  <2>1. slots[k] \in [SlotIds -> [state : {"empty", "fetching", "full"}, items : SUBSET Items, at : 0 .. clock]]
    BY DEF ShapesInv, StateType
  <2> QED
    BY <1>2, <1>4, <2>1 DEF ks
<1> QED
  BY <1>1, <1>2, <1>3, <1>4 DEF q

LEMMA DriveSlots ==
  ASSUME ShapesInv, SlotsInv, NEW c \in Calls, Drive(c)
  PROVE  SlotsInv'
<1> DEFINE q == CacheOf(request[c])
           m == mapped'[q]
<1>1. /\ q \in Caches /\ m \in SlotIds /\ ~Holds(q, m)
      /\ slots'[q] = [slots[q] EXCEPT ![m] = [NewSlot EXCEPT !.state = "fetching"]]
      /\ \A k \in Caches \ {q} : slots'[k] = slots[k]
  BY DrivenSlot, CacheOfIs
<1>2. /\ request' = request /\ ~Fetching(c) /\ Fetching(c)' /\ slot'[c] = m
      /\ \A d \in Calls \ {c} : pc'[d] = pc[d] /\ slot'[d] = slot[d]
  BY DEF Drive, DriveSlot, stampFrame, Fetching, ShapesInv, CallFunctions
<1>3. /\ slots'[q][m].state = "fetching" /\ slots'[q][m].items = {}
      /\ \A k \in Caches, i \in SlotIds : ~(k = q /\ i = m) => slots'[k][i] = slots[k][i]
  <2>1. slots[q] \in [SlotIds -> [state : {"empty", "fetching", "full"}, items : SUBSET Items, at : 0 .. clock]]
    BY <1>1 DEF ShapesInv, StateType
  <2> HIDE DEF q, m
  <2>2. slots'[q][m] = [NewSlot EXCEPT !.state = "fetching"]
    BY <1>1, <2>1
  <2> QED
    BY <1>1, <2>1, <2>2 DEF NewSlot
<1> HIDE DEF q, m
<1>4. \A d \in Calls : ~Has(d, q, m)
  BY <1>1 DEF Holds, Has
<1>5. /\ \A k \in Caches, i \in SlotIds : Fetches(c, k, i)' <=> k = q /\ i = m
      /\ \A k \in Caches, i \in SlotIds : Has(c, k, i)' <=> k = q /\ i = m
      /\ \A k, i : ~Fetches(c, k, i)
  BY <1>1, <1>2 DEF Fetches, Has, Fetching, q
<1>6. \A d \in Calls \ {c}, k \in Caches, i \in SlotIds :
        (Fetches(d, k, i)' <=> Fetches(d, k, i)) /\ (Has(d, k, i)' <=> Has(d, k, i))
  BY <1>2 DEF Fetches, Has, Fetching
<1>7. OneFiller'
  BY <1>4, <1>5, <1>6, FetcherHas DEF SlotsInv, OneFiller
<1>8. FilledBySomeone'
  <2> SUFFICES ASSUME NEW k \in Caches, NEW i \in SlotIds
               PROVE  slots'[k][i].state = "fetching" <=> \E d \in Calls : Fetches(d, k, i)'
    BY DEF FilledBySomeone, Fetches, Fetching
  <2>1. CASE k = q /\ i = m
    BY <2>1, <1>3, <1>5
  <2>2. CASE ~(k = q /\ i = m)
    BY <2>2, <1>3, <1>5, <1>6 DEF SlotsInv, FilledBySomeone
  <2> QED
    BY <2>1, <2>2
<1>9. NobodyHasEmpty'
  <2> SUFFICES ASSUME NEW k \in Caches, NEW i \in SlotIds, slots'[k][i].state = "empty",
                      NEW d \in Calls, Has(d, k, i)'
               PROVE  FALSE
    BY DEF NobodyHasEmpty, Holds, Has
  <2>1. ~(k = q /\ i = m)
    BY <1>3
  <2>2. d # c /\ Has(d, k, i) /\ slots[k][i].state = "empty"
    BY <2>1, <1>3, <1>5, <1>6
  <2> QED
    BY <2>2 DEF SlotsInv, NobodyHasEmpty, Holds, Has
<1>10. ListsItsOwn'
  BY <1>3 DEF SlotsInv, ListsItsOwn
<1> QED
  BY <1>7, <1>8, <1>9, <1>10 DEF SlotsInv

\* What one part of a fetch does to the slots.
LEMMA ReadPartSlots ==
  ASSUME ShapesInv, SlotsInv, NEW c \in Calls, Fetching(c),
         NEW read \in SUBSET Parts[CacheOf(request[c])][part[c]], ReadPart(c, read)
  PROVE  SlotsInv'
<1> DEFINE q == CacheOf(request[c])
           m == slot[c]
<1>1. q \in Caches /\ m \in SlotIds /\ request' = request /\ slot' = slot /\ Fetches(c, q, m)
  BY CacheOfIs DEF ShapesInv, CallType, Fetching, ReadPart, Fetches
<1>2. CASE part[c] < Len(Parts[q])
  <2>1. pc' = pc /\ slots' = slots
    BY <1>2 DEF ReadPart
  <2>2. SameHolders
    BY <1>1, <2>1 DEF SameHolders, Has, Fetches, Fetching
  <2> QED
    BY <2>1, <2>2, SlotsFrame
<1>3. CASE ~(part[c] < Len(Parts[q]))
  <2>1. /\ ~Fetching(c)'
        /\ slots' = [slots EXCEPT ![q][m] = [state |-> "full", items |-> seen[c] \cup read, at |-> clock]]
        /\ \A d \in Calls \ {c} : pc'[d] = pc[d]
    BY <1>3 DEF ReadPart, Fetching, ShapesInv, CallFunctions
  <2>0. seen[c] \cup read \subseteq Reads(q)
    <3>1. part[c] \in DOMAIN Parts[q] /\ seen[c] \subseteq ReadUpto(q, part[c])
      BY DEF ShapesInv, CallType, ReadBy
    <3>2. part[c] >= Len(Parts[q])
      BY <1>1, <1>3, <3>1, PartsAre
    <3> QED
      BY <1>1, <3>1, <3>2, NextPart
  <2>2. /\ slots'[q][m].state = "full" /\ slots'[q][m].items = seen[c] \cup read
        /\ \A k \in Caches, i \in SlotIds : ~(k = q /\ i = m) => slots'[k][i] = slots[k][i]
    <3>1. slots \in [Caches -> [SlotIds -> [state : {"empty", "fetching", "full"}, items : SUBSET Items, at : 0 .. clock]]]
      BY DEF ShapesInv, StateType
    <3> HIDE DEF q, m
    <3>2. slots'[q][m] = [state |-> "full", items |-> seen[c] \cup read, at |-> clock]
      BY <1>1, <2>1, <3>1
    <3> QED
      BY <1>1, <2>1, <3>1, <3>2
  <2> HIDE DEF q, m
  <2>3. /\ \A d \in Calls, k \in Caches, i \in SlotIds : Has(d, k, i)' <=> Has(d, k, i)
        /\ \A d \in Calls \ {c}, k \in Caches, i \in SlotIds : Fetches(d, k, i)' <=> Fetches(d, k, i)
        /\ \A k, i : ~Fetches(c, k, i)'
    BY <1>1, <2>1 DEF Has, Fetches, Fetching
  <2>4. \A d \in Calls \ {c} : ~Fetches(d, q, m)
    BY <1>1 DEF SlotsInv, OneFiller
  <2>5. OneFiller'
    BY <2>3 DEF SlotsInv, OneFiller
  <2>6. FilledBySomeone'
    <3> SUFFICES ASSUME NEW k \in Caches, NEW i \in SlotIds
                 PROVE  slots'[k][i].state = "fetching" <=> \E d \in Calls : Fetches(d, k, i)'
      BY DEF FilledBySomeone, Fetches, Fetching
    <3>1. CASE k = q /\ i = m
      BY <2>2, <2>3, <2>4, <3>1
    <3>2. CASE ~(k = q /\ i = m)
      <4>1. ~Fetches(c, k, i)
        BY <3>2 DEF Fetches, q, m
      <4> QED
        BY <2>2, <2>3, <3>2, <4>1 DEF SlotsInv, FilledBySomeone
    <3> QED
      BY <3>1, <3>2
  <2>7. NobodyHasEmpty'
    <3> SUFFICES ASSUME NEW k \in Caches, NEW i \in SlotIds, slots'[k][i].state = "empty",
                        NEW d \in Calls, Has(d, k, i)'
                 PROVE  FALSE
      BY DEF NobodyHasEmpty, Holds, Has
    <3>1. slots[k][i].state = "empty" /\ Has(d, k, i)
      BY <2>2, <2>3
    <3> QED
      BY <3>1 DEF SlotsInv, NobodyHasEmpty, Holds, Has
  <2>8. ListsItsOwn'
    BY <2>0, <2>2 DEF SlotsInv, ListsItsOwn
  <2> QED
    BY <2>5, <2>6, <2>7, <2>8 DEF SlotsInv
<1> QED
  BY <1>2, <1>3

\* A caller that replies leaves its slot.
LEMMA ReplySlots ==
  ASSUME ShapesInv, SlotsInv, NEW c \in Calls, Reply(c)
  PROVE  SlotsInv'
<1>1. /\ slots' = slots /\ request' = request /\ slot'[c] = None
      /\ ~Fetching(c) /\ ~Fetching(c)'
      /\ \A d \in Calls \ {c} : pc'[d] = pc[d] /\ slot'[d] = slot[d]
  BY DEF Reply, stampFrame, Fetching, ShapesInv, CallFunctions
<1>2. \A d \in Calls, k \in Caches, i \in SlotIds :
        (Fetches(d, k, i)' <=> Fetches(d, k, i)) /\ (Has(d, k, i)' => Has(d, k, i))
  BY <1>1, SlotIdsAreNumbers DEF Fetches, Has, Fetching
<1>3. OneFiller' /\ FilledBySomeone'
  BY <1>1, <1>2 DEF SlotsInv, OneFiller, FilledBySomeone
<1>4. NobodyHasEmpty'
  <2> SUFFICES ASSUME NEW k \in Caches, NEW i \in SlotIds, slots'[k][i].state = "empty",
                      NEW d \in Calls, Has(d, k, i)'
               PROVE  FALSE
    BY DEF NobodyHasEmpty, Holds, Has
  <2>1. Has(d, k, i)
    BY <1>2
  <2> QED
    BY <1>1, <2>1 DEF SlotsInv, NobodyHasEmpty, Holds, Has
<1>5. ListsItsOwn'
  BY <1>1 DEF SlotsInv, ListsItsOwn
<1> QED
  BY <1>3, <1>4, <1>5 DEF SlotsInv

\* After an invalidation the map has slots that are empty, which nobody has; the
\* others are what they were.
LEMMA InvalidatedSlots ==
  ASSUME ShapesInv, Invalidate
  PROVE  /\ mapped' \in [Caches -> SlotIds]
         /\ \A k \in Caches :
              /\ ~Holds(k, mapped'[k])
              /\ slots'[k][mapped'[k]] = NewSlot
              /\ \A i \in SlotIds \ {mapped'[k]} : slots'[k][i] = slots[k][i]
<1>1. Replaced(Caches, {}) /\ mapped \in [Caches -> SlotIds]
  BY DEF Invalidate, ShapesInv, StateType
<1>2. /\ mapped' \in [Caches -> SlotIds]
      /\ \A k \in Caches :
           ~Holds(k, mapped'[k]) /\ slots'[k] = [slots[k] EXCEPT ![mapped'[k]] = NewSlot]
  BY <1>1, ReplacedSlots
<1>3. \A k \in Caches : DOMAIN slots[k] = SlotIds
  BY DEF ShapesInv, StateType
<1> QED
  BY <1>2, <1>3

LEMMA InvalidateSlots ==
  ASSUME ShapesInv, SlotsInv, Invalidate
  PROVE  SlotsInv'
<1>1. SameHolders
  BY DEF Invalidate, Settle, callVars, SameHolders, Has, Fetches, Fetching
<1>2. OneFiller'
  BY <1>1 DEF SlotsInv, OneFiller, SameHolders
<1>3. FilledBySomeone'
  <2> SUFFICES ASSUME NEW k \in Caches, NEW i \in SlotIds
               PROVE  slots'[k][i].state = "fetching" <=> \E d \in Calls : Fetches(d, k, i)
    BY <1>1 DEF FilledBySomeone, SameHolders
  <2>1. CASE i = mapped'[k]
    <3>1. slots'[k][i].state = "empty" /\ ~Holds(k, i)
      BY <2>1, InvalidatedSlots DEF NewSlot
    <3> QED
      BY <3>1, HoldsIsHas, FetcherHas
  <2>2. CASE i # mapped'[k]
    BY <2>2, InvalidatedSlots DEF SlotsInv, FilledBySomeone
  <2> QED
    BY <2>1, <2>2
<1>4. NobodyHasEmpty'
  <2> SUFFICES ASSUME NEW k \in Caches, NEW i \in SlotIds, slots'[k][i].state = "empty"
               PROVE  ~Holds(k, i)
    BY <1>1 DEF NobodyHasEmpty, Holds, Has, SameHolders
  <2> QED
    BY InvalidatedSlots DEF SlotsInv, NobodyHasEmpty
<1>5. ListsItsOwn'
  BY InvalidatedSlots DEF SlotsInv, ListsItsOwn, NewSlot
<1> QED
  BY <1>2, <1>3, <1>4, <1>5 DEF SlotsInv

LEMMA SlotsNext == ShapesInv /\ SlotsInv /\ [Next]_vars => SlotsInv'
<1> SUFFICES ASSUME ShapesInv, SlotsInv, [Next]_vars PROVE SlotsInv'
  OBVIOUS
<1>1. ASSUME NEW c \in Calls, NEW r \in Requests[c],
             \/ AskCached(c, r) \/ AskFetched(c, r) \/ AskDegraded(c, r)
             \/ ListInstalled(c, r) \/ AskPlugins(c, r)
      PROVE  SlotsInv'
  BY <1>1, AskHolders, SlotsFrame
<1>2. ASSUME NEW c \in Calls, Join(c) PROVE SlotsInv'
  BY <1>2, JoinSlots
<1>3. ASSUME NEW c \in Calls, Drive(c) PROVE SlotsInv'
  BY <1>3, DriveSlots
<1>4. ASSUME NEW c \in Calls, Read(c) PROVE SlotsInv'
  BY <1>4, ReadPartSlots DEF Read
<1>5. ASSUME NEW c \in Calls, ReadFails(c) PROVE SlotsInv'
  BY <1>5, ReadPartSlots DEF ReadFails
<1>6. ASSUME NEW c \in Calls, Reply(c) PROVE SlotsInv'
  BY <1>6, ReplySlots
<1>7. ASSUME NEW i, NEW there, Put(i, there) PROVE SlotsInv'
  BY <1>7, SlotsFrame DEF Put, callVars, SameHolders, Has, Fetches, Fetching
<1>8. CASE Invalidate
  BY <1>8, InvalidateSlots
<1>9. CASE Tick
  BY <1>9, SlotsFrame DEF Tick, callVars, SameHolders, Has, Fetches, Fetching
<1>10. CASE UNCHANGED vars
  BY <1>10, SlotsFrame DEF vars, callVars, SameHolders, Has, Fetches, Fetching
<1> QED
  BY <1>1, <1>2, <1>3, <1>4, <1>5, <1>6, <1>7, <1>8, <1>9, <1>10
     DEF Next, Write, Edit, RollBack

\* Of the calls that share a slot one fetches as long as it has no value, and none
\* after that; so whatever is asked, and by whom.
THEOREM ListingTypes == Spec => []TypeOK
<1>1. Init => ShapesInv /\ SlotsInv
  BY ShapesInit, SlotsInit
<1>2. ShapesInv /\ SlotsInv /\ [Next]_vars => (ShapesInv /\ SlotsInv)'
  BY ShapesNext, SlotsNext
<1>3. ShapesInv /\ SlotsInv => TypeOK
  <2> SUFFICES ASSUME ShapesInv, SlotsInv PROVE TypeOK
    OBVIOUS
  <2>1. ASSUME NEW c \in Calls, pc[c] \in {"waiting", "fetching"}
        PROVE  /\ Slot(c).items \subseteq Items
               /\ Slot(c).state = "full" <=> Fillers(c) = {}
               /\ Cardinality(Fillers(c)) <= 1
    <3> DEFINE k == CacheOf(request[c])
               i == slot[c]
    <3>1. k \in Caches /\ i \in SlotIds /\ Has(c, k, i) /\ Slot(c) = slots[k][i]
      BY <2>1, CacheOfIs DEF ShapesInv, CallType, Slot, Has
    <3>2. slots[k][i] \in [state : {"empty", "fetching", "full"}, items : SUBSET Items, at : 0 .. clock]
      BY <3>1 DEF ShapesInv, StateType
    <3>3. Fillers(c) = {d \in Calls : Fetches(d, k, i)}
      BY DEF Fillers, Fetches
    <3> HIDE DEF k, i
    <3>4. slots[k][i].state # "empty"
      BY <3>1 DEF SlotsInv, NobodyHasEmpty, Holds, Has
    <3>5. Slot(c).state = "full" <=> Fillers(c) = {}
      BY <3>1, <3>2, <3>3, <3>4 DEF SlotsInv, FilledBySomeone
    <3>6. Fillers(c) = {} \/ \E d : Fillers(c) = {d}
      BY <3>1, <3>3 DEF SlotsInv, OneFiller
    <3>7. Cardinality(Fillers(c)) <= 1
      <4>1. CASE Fillers(c) = {}
        <5>1. Cardinality(Fillers(c)) = 0
          BY <4>1, FS_EmptySet
        <5> QED
          BY <5>1
      <4>2. CASE \E d : Fillers(c) = {d}
        <5>1. Cardinality(Fillers(c)) = 1
          BY <4>2, FS_Singleton
        <5> QED
          BY <5>1
      <4> QED
        BY <3>6, <4>1, <4>2
    <3> QED
      BY <3>1, <3>2, <3>5, <3>7
  <2> QED
    BY <2>1 DEF TypeOK, ShapesInv, StateType, CallType
<1> QED
  BY <1>1, <1>2, <1>3, PTL DEF Spec

--------------------------------------------------------------------------------
(* Flags *)

LEMMA Times ==
  ASSUME StateType
  PROVE  /\ clock \in Nat /\ Ttl \in Nat \ {0}
         /\ \A x \in Items : changed[x] # None => changed[x] \in Nat /\ changed[x] <= clock
         /\ \A k \in Caches, i \in SlotIds : slots[k][i].at \in Nat /\ slots[k][i].at <= clock
BY ListingAssumption DEF StateType

\* What has just changed is not settled, nor is what changed later than a value that is
\* not out of date was listed.
LEMMA LateIsUnsettled ==
  ASSUME StateType, NEW x \in Items, NEW t \in Nat, t <= clock, clock - t < Ttl,
         changed[x] # None, t <= changed[x]
  PROVE  x \in Unsettled
<1>1. clock - changed[x] < Ttl
  BY Times
<1> QED
  BY <1>1 DEF Unsettled

LEMMA FlagsInit == Init => FlagsInv
<1> SUFFICES ASSUME Init PROVE FlagsInv
  OBVIOUS
<1>1. \A d \in Calls : \A k, i : ~Fetches(d, k, i)
  BY DEF Init, Fetches, Fetching
<1>2. \A d \in Calls : \A k, i : i \in SlotIds => ~Has(d, k, i)
  BY SlotIdsAreNumbers DEF Init, Has
<1>3. \A k \in Caches : mapped[k] \in SlotIds
  BY ShapesInit DEF ShapesInv, StateType
<1>4. \A k \in Caches : slots[k][mapped[k]].state # "full"
  BY <1>3 DEF Init, NewSlot
<1>5. UnsettledIsEither
  BY DEF Init, UnsettledIsEither
<1> QED
  BY <1>1, <1>2, <1>4, <1>5
     DEF FlagsInv, MappedIsRecent, MappedReadsAreRecent, HeldIsRecent, HeldReadsAreRecent

\* A step that leaves the slots and the configuration, and gives no slot to a call.
LEMMA FlagsFrame ==
  ASSUME FlagsInv, UnsettledIsEither', UNCHANGED <<config, clock, slots, mapped, changed>>,
         \A d \in Calls, k \in Caches, i \in SlotIds :
           /\ Has(d, k, i)' => Has(d, k, i) /\ either'[d] = either[d]
           /\ Fetches(d, k, i)' => Fetches(d, k, i) /\ ReadBy(d)' = ReadBy(d) /\ seen'[d] = seen[d],
         \A k \in Caches : mapped[k] \in SlotIds
  PROVE  FlagsInv'
<1>1. MappedIsRecent'
  BY DEF FlagsInv, MappedIsRecent, Tells
<1>2. MappedReadsAreRecent'
  BY DEF FlagsInv, MappedReadsAreRecent, Tells
<1>3. HeldIsRecent'
  BY DEF FlagsInv, HeldIsRecent, Tells
<1>4. HeldReadsAreRecent'
  BY DEF FlagsInv, HeldReadsAreRecent, Tells
<1> QED
  BY <1>1, <1>2, <1>3, <1>4 DEF FlagsInv

LEMMA AskFlags ==
  ASSUME ShapesInv, FlagsInv, NEW c \in Calls, NEW r \in Requests[c],
         \/ AskCached(c, r) \/ AskFetched(c, r) \/ AskDegraded(c, r)
         \/ ListInstalled(c, r) \/ AskPlugins(c, r)
  PROVE  FlagsInv'
<1>1. /\ SameHolders /\ UNCHANGED <<config, clock, slots, mapped, part, seen, changed>>
      /\ pc[c] = "idle" /\ slot[c] = None
      /\ \A d \in Calls \ {c} : request'[d] = request[d] /\ either'[d] = either[d]
      /\ either'[c] = Unsettled
  BY AskHolders DEF Begin, ShapesInv, CallFunctions, CallType
<1>2. \A d \in Calls \ {c} : pc'[d] = pc[d]
  BY DEF AskCached, AskFetched, AskDegraded, Fetch, ListInstalled, AskPlugins, ShapesInv, CallFunctions
<1>3. Unsettled' = Unsettled
  BY <1>1 DEF Unsettled
<1>4. UnsettledIsEither'
  BY <1>1, <1>2, <1>3 DEF FlagsInv, UnsettledIsEither
<1>5. \A k \in Caches, i \in SlotIds : ~Has(c, k, i) /\ ~Fetches(c, k, i)
  BY <1>1, SlotIdsAreNumbers DEF Has, Fetches
<1>6. \A d \in Calls \ {c} : ReadBy(d)' = ReadBy(d)
  BY <1>1 DEF ReadBy
<1> QED
  BY <1>1, <1>4, <1>5, <1>6, FlagsFrame DEF SameHolders, ShapesInv, StateType

LEMMA ReplyFlags ==
  ASSUME ShapesInv, FlagsInv, NEW c \in Calls, Reply(c)
  PROVE  FlagsInv'
<1>1. /\ UNCHANGED <<config, clock, slots, mapped, part, seen, changed, request, either>>
      /\ slot'[c] = None /\ pc'[c] = "replied" /\ ~Fetching(c) /\ ~Fetching(c)'
      /\ \A d \in Calls \ {c} : pc'[d] = pc[d] /\ slot'[d] = slot[d]
  BY DEF Reply, stampFrame, Fetching, ShapesInv, CallFunctions
<1>2. UnsettledIsEither'
  BY <1>1 DEF FlagsInv, UnsettledIsEither, Unsettled
<1>3. \A d \in Calls, k \in Caches, i \in SlotIds :
        (Fetches(d, k, i)' => Fetches(d, k, i)) /\ (Has(d, k, i)' => Has(d, k, i))
  BY <1>1, SlotIdsAreNumbers DEF Fetches, Has, Fetching
<1>4. \A d \in Calls : ReadBy(d)' = ReadBy(d)
  BY <1>1 DEF ReadBy
<1> QED
  BY <1>1, <1>2, <1>3, <1>4, FlagsFrame DEF ShapesInv, StateType

\* A value that is not out of date is right for who joins, and so is what its filler
\* has read so far.
LEMMA JoinFlags ==
  ASSUME ShapesInv, FlagsInv, NEW c \in Calls, Join(c)
  PROVE  FlagsInv'
<1> DEFINE q == CacheOf(request[c])
           m == mapped[q]
<1>1. /\ UNCHANGED <<config, clock, slots, mapped, part, seen, changed, request, either>>
      /\ slot'[c] = m /\ pc[c] = "paged" /\ ~Stale(q) /\ ~Fetching(c) /\ ~Fetching(c)'
      /\ \A d \in Calls \ {c} : pc'[d] = pc[d] /\ slot'[d] = slot[d]
  BY DEF Join, stampFrame, Fetching, ShapesInv, CallFunctions
<1>2. q \in Caches /\ m \in SlotIds
  BY CacheOfIs DEF ShapesInv, StateType
<1>3. Unsettled \subseteq either[c]
  BY <1>1 DEF FlagsInv, UnsettledIsEither
<1>4. \A d \in Calls, k \in Caches, i \in SlotIds :
        /\ Fetches(d, k, i)' <=> Fetches(d, k, i)
        /\ Has(d, k, i)' => Has(d, k, i) \/ (d = c /\ k = q /\ i = m)
  BY <1>1 DEF Fetches, Has, Fetching
<1>5. \A d \in Calls : ReadBy(d)' = ReadBy(d)
  BY <1>1 DEF ReadBy
<1>6. ASSUME slots[q][m].state = "full", NEW x \in Reads(q)
      PROVE  Tells(x, slots[q][m].items) \/ x \in either[c]
  <2>1. Tells(x, slots[q][m].items) \/ (changed[x] # None /\ slots[q][m].at <= changed[x])
    BY <1>2, <1>6 DEF FlagsInv, MappedIsRecent
  <2>2. /\ x \in Items /\ slots[q][m].at \in Nat /\ slots[q][m].at <= clock
        /\ clock \in Nat /\ Ttl \in Nat
    BY <1>2, ReadsAreItems, Times DEF ShapesInv
  <2>3. clock - slots[q][m].at < Ttl
    BY <1>1, <1>6, <2>2 DEF Stale
  <2>4. changed[x] # None /\ slots[q][m].at <= changed[x] => x \in Unsettled
    BY <2>2, <2>3, LateIsUnsettled DEF ShapesInv
  <2> QED
    BY <2>1, <2>4, <1>3
<1>7. ASSUME NEW d \in Calls, Fetches(d, q, m), NEW x \in ReadBy(d)
      PROVE  Tells(x, seen[d]) \/ x \in either[c]
  <2>1. Tells(x, seen[d]) \/ changed[x] = clock
    BY <1>2, <1>7 DEF FlagsInv, MappedReadsAreRecent
  <2>2. x \in Items
    <3>1. CallType(d) /\ Fetching(d) /\ CacheOf(request[d]) = q
      BY <1>7 DEF ShapesInv, Fetches
    <3>2. ReadUpto(q, part[d]) \subseteq Items
      BY <1>2, <3>1, NextPart DEF CallType
    <3> QED
      BY <1>7, <3>1, <3>2 DEF ReadBy
  <2>3. clock \in Nat /\ clock # None /\ clock - clock < Ttl
    BY Times, ListingAssumption DEF ShapesInv
  <2>4. changed[x] = clock => x \in Unsettled
    BY <2>2, <2>3, LateIsUnsettled DEF ShapesInv
  <2> QED
    BY <2>1, <2>4, <1>3
<1> HIDE DEF q, m
<1>8. UnsettledIsEither'
  <2>1. \A d \in Calls : pc'[d] \notin {"idle", "replied"} => pc[d] \notin {"idle", "replied"}
    BY <1>1
  <2> QED
    BY <1>1, <2>1 DEF FlagsInv, UnsettledIsEither, Unsettled
<1>9. MappedIsRecent'
  BY <1>1 DEF FlagsInv, MappedIsRecent, Tells
<1>10. MappedReadsAreRecent'
  <2>1. \A k \in Caches : mapped[k] \in SlotIds
    BY DEF ShapesInv, StateType
  <2> QED
    BY <1>1, <1>4, <1>5, <2>1 DEF FlagsInv, MappedReadsAreRecent, Tells
<1>11. HeldIsRecent'
  <2> SUFFICES ASSUME NEW k \in Caches, NEW i \in SlotIds, NEW d \in Calls, Has(d, k, i)',
                      slots[k][i].state = "full", NEW x \in Reads(k)
               PROVE  Tells(x, slots[k][i].items) \/ x \in either[d]
    BY <1>1 DEF HeldIsRecent, Tells
  <2>1. CASE Has(d, k, i)
    BY <2>1 DEF FlagsInv, HeldIsRecent
  <2>2. CASE d = c /\ k = q /\ i = m
    BY <2>2, <1>6
  <2> QED
    BY <2>1, <2>2, <1>4
<1>12. HeldReadsAreRecent'
  <2> SUFFICES ASSUME NEW k \in Caches, NEW i \in SlotIds, NEW d \in Calls, Has(d, k, i)',
                      NEW f \in Calls, Fetches(f, k, i), NEW x \in ReadBy(f)
               PROVE  Tells(x, seen[f]) \/ x \in either[d]
    BY <1>1, <1>4, <1>5 DEF HeldReadsAreRecent, Tells
  <2>1. CASE Has(d, k, i)
    BY <2>1 DEF FlagsInv, HeldReadsAreRecent
  <2>2. CASE d = c /\ k = q /\ i = m
    BY <2>2, <1>7
  <2> QED
    BY <2>1, <2>2, <1>4
<1> QED
  BY <1>8, <1>9, <1>10, <1>11, <1>12 DEF FlagsInv

\* A caller that begins to fetch has read nothing, and nobody else has its slot.
LEMMA DriveFlags ==
  ASSUME ShapesInv, SlotsInv, FlagsInv, NEW c \in Calls, Drive(c)
  PROVE  FlagsInv'
<1> DEFINE q == CacheOf(request[c])
           m == mapped'[q]
<1>1. /\ q \in Caches /\ m \in SlotIds /\ ~Holds(q, m)
      /\ slots'[q] = [slots[q] EXCEPT ![m] = [NewSlot EXCEPT !.state = "fetching"]]
      /\ \A k \in Caches \ {q} : mapped'[k] = mapped[k] /\ slots'[k] = slots[k]
  BY DrivenSlot, CacheOfIs
<1>2. /\ UNCHANGED <<config, clock, seen, changed, request, either>>
      /\ ~Fetching(c) /\ slot'[c] = m /\ part'[c] = 1 /\ pc[c] = "paged"
      /\ \A d \in Calls \ {c} : pc'[d] = pc[d] /\ slot'[d] = slot[d] /\ part'[d] = part[d]
  BY DEF Drive, DriveSlot, stampFrame, Fetching, ShapesInv, CallFunctions
<1>3. /\ slots'[q][m].state = "fetching"
      /\ \A k \in Caches, i \in SlotIds : ~(k = q /\ i = m) => slots'[k][i] = slots[k][i]
  <2>1. slots[q] \in [SlotIds -> [state : {"empty", "fetching", "full"}, items : SUBSET Items, at : 0 .. clock]]
    BY <1>1 DEF ShapesInv, StateType
  <2> HIDE DEF q, m
  <2>2. slots'[q][m] = [NewSlot EXCEPT !.state = "fetching"]
    BY <1>1, <2>1
  <2> QED
    BY <1>1, <2>1, <2>2 DEF NewSlot
<1>4. ReadBy(c)' = {}
  BY <1>2, NothingReadYet DEF ReadBy
<1>5. \A d \in Calls \ {c} : ReadBy(d)' = ReadBy(d)
  BY <1>2 DEF ReadBy
<1>6. \A k \in Caches, i \in SlotIds : Has(c, k, i)' => k = q /\ i = m
  BY <1>2 DEF Has
<1> HIDE DEF q, m
<1>7. \A d \in Calls \ {c}, k \in Caches, i \in SlotIds :
        /\ Fetches(d, k, i)' => Fetches(d, k, i) /\ Has(d, k, i) /\ ~(k = q /\ i = m)
        /\ Has(d, k, i)' => Has(d, k, i) /\ ~(k = q /\ i = m)
  <2>1. \A d \in Calls : ~Has(d, q, m)
    BY <1>1 DEF Holds, Has
  <2>2. \A d \in Calls \ {c}, k \in Caches, i \in SlotIds :
          (Fetches(d, k, i)' => Fetches(d, k, i)) /\ (Has(d, k, i)' => Has(d, k, i))
    BY <1>2 DEF Fetches, Has, Fetching
  <2> QED
    BY <2>1, <2>2, FetcherHas
<1>8. \A k \in Caches : mapped'[k] \in SlotIds /\ (k # q => mapped'[k] = mapped[k])
  BY <1>1 DEF ShapesInv, StateType, m
<1>9. UnsettledIsEither'
  <2>1. \A d \in Calls : pc'[d] \notin {"idle", "replied"} => pc[d] \notin {"idle", "replied"}
    BY <1>2
  <2> QED
    BY <1>2, <2>1 DEF FlagsInv, UnsettledIsEither, Unsettled
<1>10. MappedIsRecent'
  <2> SUFFICES ASSUME NEW k \in Caches, slots'[k][mapped'[k]].state = "full", NEW x \in Reads(k)
               PROVE  Tells(x, slots'[k][mapped'[k]].items)
                        \/ (changed[x] # None /\ slots'[k][mapped'[k]].at <= changed[x])
    BY <1>2 DEF MappedIsRecent, Tells
  <2>1. k # q
    BY <1>3 DEF m
  <2>2. slots'[k][mapped'[k]] = slots[k][mapped[k]]
    BY <2>1, <1>3, <1>8
  <2> QED
    BY <2>2 DEF FlagsInv, MappedIsRecent
<1>11. MappedReadsAreRecent'
  <2> SUFFICES ASSUME NEW k \in Caches, NEW i \in SlotIds, i = mapped'[k],
                      NEW d \in Calls, Fetches(d, k, i)', NEW x \in ReadBy(d)'
               PROVE  Tells(x, seen[d]) \/ changed[x] = clock
    BY <1>2, <1>8 DEF MappedReadsAreRecent, Tells, Fetches, Fetching
  <2>1. d # c
    BY <1>4
  <2>2. Fetches(d, k, i) /\ ~(k = q /\ i = m) /\ x \in ReadBy(d)
    BY <2>1, <1>5, <1>7
  <2>3. i = mapped[k]
    BY <2>2, <1>8 DEF m
  <2> QED
    BY <2>2, <2>3 DEF FlagsInv, MappedReadsAreRecent
<1>12. HeldIsRecent'
  <2> SUFFICES ASSUME NEW k \in Caches, NEW i \in SlotIds, NEW d \in Calls, Has(d, k, i)',
                      slots'[k][i].state = "full", NEW x \in Reads(k)
               PROVE  Tells(x, slots'[k][i].items) \/ x \in either[d]
    BY <1>2 DEF HeldIsRecent, Tells
  <2>1. ~(k = q /\ i = m)
    BY <1>3
  <2>2. d # c /\ Has(d, k, i) /\ slots'[k][i] = slots[k][i]
    BY <2>1, <1>3, <1>6, <1>7
  <2> QED
    BY <2>2 DEF FlagsInv, HeldIsRecent
<1>13. HeldReadsAreRecent'
  <2> SUFFICES ASSUME NEW k \in Caches, NEW i \in SlotIds, NEW d \in Calls, Has(d, k, i)',
                      NEW f \in Calls, Fetches(f, k, i)', NEW x \in ReadBy(f)'
               PROVE  Tells(x, seen[f]) \/ x \in either[d]
    BY <1>2 DEF HeldReadsAreRecent, Tells
  <2>1. f # c
    BY <1>4
  <2>2. Fetches(f, k, i) /\ ~(k = q /\ i = m) /\ x \in ReadBy(f)
    BY <2>1, <1>5, <1>7
  <2>3. d # c /\ Has(d, k, i)
    BY <2>2, <1>6, <1>7
  <2> QED
    BY <2>2, <2>3 DEF FlagsInv, HeldReadsAreRecent
<1> QED
  BY <1>9, <1>10, <1>11, <1>12, <1>13 DEF FlagsInv

\* One part of a fetch: what it read is what is declared, but for what it lost, which
\* counts as changed; the callers that share the slot are told either way.
LEMMA ReadPartFlags ==
  ASSUME ShapesInv, SlotsInv, FlagsInv, NEW c \in Calls, Fetching(c), NEW lost, NEW read,
         read = (config \cap Parts[CacheOf(request[c])][part[c]]) \ lost,
         lost \subseteq Items,
         ReadPart(c, read),
         changed' = [x \in Items |-> IF x \in lost THEN clock ELSE changed[x]],
         \A d \in Calls : pc[d] \notin {"idle", "replied"} => either'[d] = either[d] \cup lost
  PROVE  FlagsInv'
<1> DEFINE q == CacheOf(request[c])
           m == slot[c]
           P == Parts[q][part[c]]
           all == seen[c] \cup read
           Now == ~(part[c] < Len(Parts[q]))
<1>1. /\ q \in Caches /\ m \in SlotIds /\ Fetches(c, q, m) /\ Has(c, q, m)
      /\ part[c] \in DOMAIN Parts[q] /\ seen[c] \subseteq ReadUpto(q, part[c])
      /\ UNCHANGED <<config, clock, mapped, request, slot>>
  BY CacheOfIs DEF ShapesInv, CallType, Fetching, ReadPart, Fetches, Has, ReadBy
<1>2. /\ ReadUpto(q, part[c] + 1) = ReadUpto(q, part[c]) \cup P
      /\ ReadUpto(q, part[c]) \cap P = {}
      /\ part[c] >= Len(Parts[q]) => Reads(q) = ReadUpto(q, part[c]) \cup P
  BY <1>1, NextPart
<1>3. ASSUME NEW x \in P PROVE Tells(x, all) \/ x \in lost
  BY <1>1, <1>2 DEF Tells
<1>4. ASSUME NEW x \in ReadBy(c) PROVE Tells(x, all) <=> Tells(x, seen[c])
  BY <1>1, <1>2 DEF Tells, ReadBy
<1>5. ASSUME NEW x \in ReadBy(c) \cup P, q \in Caches, mapped[q] = m
      PROVE  Tells(x, all) \/ changed'[x] = clock
  <2>1. CASE x \in P
    BY <2>1, <1>3
  <2>2. CASE x \in ReadBy(c)
    <3>1. Tells(x, seen[c]) \/ changed[x] = clock
      BY <1>1, <1>5, <2>2 DEF FlagsInv, MappedReadsAreRecent
    <3>2. x \in Items
      BY <1>1, <2>2, NextPart DEF ReadBy
    <3> QED
      BY <1>4, <2>2, <3>1, <3>2
  <2> QED
    BY <2>1, <2>2
<1>6. \A d \in Calls, k \in Caches, i \in SlotIds : Has(d, k, i)' <=> Has(d, k, i)
  BY <1>1 DEF Has
<1>7. \A d \in Calls, k \in Caches, i \in SlotIds : Has(d, k, i) => pc[d] \notin {"idle", "replied"}
  BY SlotIdsAreNumbers DEF Has, ShapesInv, CallType
<1>8. ASSUME NEW d \in Calls, Has(d, q, m), NEW x \in ReadBy(c) \cup P
      PROVE  Tells(x, all) \/ x \in either'[d]
  <2>1. either'[d] = either[d] \cup lost
    BY <1>1, <1>7, <1>8
  <2>2. CASE x \in P
    BY <2>1, <2>2, <1>3
  <2>3. CASE x \in ReadBy(c)
    <3>1. Tells(x, seen[c]) \/ x \in either[d]
      BY <1>1, <1>8, <2>3 DEF FlagsInv, HeldReadsAreRecent
    <3> QED
      BY <1>4, <2>1, <2>3, <3>1
  <2> QED
    BY <2>2, <2>3
<1>9. UnsettledIsEither'
  <2> SUFFICES ASSUME NEW d \in Calls, pc'[d] \notin {"idle", "replied"}, NEW x \in Unsettled'
               PROVE  x \in either'[d]
    BY DEF UnsettledIsEither
  <2>1. pc[d] \notin {"idle", "replied"}
    BY DEF ReadPart, Fetching, ShapesInv, CallFunctions
  <2>2. either'[d] = either[d] \cup lost /\ Unsettled \subseteq either[d]
    BY <2>1 DEF FlagsInv, UnsettledIsEither
  <2>3. x \in lost \/ x \in Unsettled
    BY <1>1 DEF Unsettled
  <2> QED
    BY <2>2, <2>3
<1>10. \A d \in Calls \ {c}, k \in Caches, i \in SlotIds : Fetches(d, k, i)' => Fetches(d, k, i) /\ ~(k = q /\ i = m)
  <2>1. \A d \in Calls \ {c} : ~Fetches(d, q, m)
    BY <1>1 DEF SlotsInv, OneFiller
  <2>2. \A d \in Calls \ {c} : pc'[d] = pc[d]
    BY DEF ReadPart, ShapesInv, CallFunctions
  <2> HIDE DEF q, m
  <2> QED
    BY <1>1, <2>1, <2>2 DEF Fetches, Fetching
<1>11. \A d \in Calls \ {c} : ReadBy(d)' = ReadBy(d) /\ seen'[d] = seen[d]
  BY <1>1 DEF ReadPart, ReadBy, ShapesInv, CallFunctions
<1>12. \A x \in Items : changed[x] # None => changed'[x] # None /\ changed[x] <= changed'[x]
  BY Times, ListingAssumption DEF ShapesInv
<1>13. \A x : changed[x] = clock /\ x \in Items => changed'[x] = clock
  OBVIOUS
<1>14. /\ ~Now => /\ slots' = slots /\ seen'[c] = all /\ ReadBy(c)' = ReadBy(c) \cup P
       /\ Now => /\ ~Fetching(c)' /\ Reads(q) = ReadBy(c) \cup P
                 /\ slots'[q][m] = [state |-> "full", items |-> all, at |-> clock]
                 /\ \A k \in Caches, i \in SlotIds : ~(k = q /\ i = m) => slots'[k][i] = slots[k][i]
  <2>1. CASE part[c] < Len(Parts[q])
    <3>1. slots' = slots /\ seen'[c] = all /\ part'[c] = part[c] + 1
      BY <2>1 DEF ReadPart, ShapesInv, CallFunctions
    <3> QED
      BY <2>1, <3>1, <1>1, <1>2 DEF ReadBy
  <2>2. CASE ~(part[c] < Len(Parts[q]))
    <3>1. ~Fetching(c)' /\ slots' = [slots EXCEPT ![q][m] = [state |-> "full", items |-> all, at |-> clock]]
      BY <2>2 DEF ReadPart, Fetching, ShapesInv, CallFunctions
    <3>2. part[c] >= Len(Parts[q])
      BY <2>2, <1>1, PartsAre
    <3>3. slots \in [Caches -> [SlotIds -> [state : {"empty", "fetching", "full"}, items : SUBSET Items, at : 0 .. clock]]]
      BY DEF ShapesInv, StateType
    <3>4. Reads(q) = ReadBy(c) \cup P
      BY <3>2, <1>2 DEF ReadBy
    <3> HIDE DEF q, m, all, P
    <3>5. /\ slots'[q][m] = [state |-> "full", items |-> all, at |-> clock]
          /\ \A k \in Caches, i \in SlotIds : ~(k = q /\ i = m) => slots'[k][i] = slots[k][i]
      BY <1>1, <3>1, <3>3
    <3> QED
      BY <2>2, <3>1, <3>4, <3>5
  <2> QED
    BY <2>1, <2>2
<1>15. \A k \in Caches : mapped[k] \in SlotIds
  BY DEF ShapesInv, StateType
<1>16. \A d \in Calls, k \in Caches, i \in SlotIds : Fetches(d, k, i)' /\ d = c => ~Now /\ k = q /\ i = m
  <2>1. \A k \in Caches, i \in SlotIds : Fetches(c, k, i)' => k = q /\ i = m
    BY <1>1 DEF Fetches
  <2>2. \A k \in Caches, i \in SlotIds : Fetches(c, k, i)' => ~Now
    BY <1>14 DEF Fetches
  <2> QED
    BY <2>1, <2>2
<1> HIDE DEF q, m, P, all, Now
<1>17. MappedIsRecent'
  <2> SUFFICES ASSUME NEW k \in Caches, NEW i \in SlotIds, i = mapped[k],
                      slots'[k][i].state = "full", NEW x \in Reads(k)
               PROVE  Tells(x, slots'[k][i].items) \/ (changed'[x] # None /\ slots'[k][i].at <= changed'[x])
    BY <1>1, <1>15 DEF MappedIsRecent, Tells
  <2>1. x \in Items
    BY ReadsAreItems
  <2>2. CASE slots'[k][i] = slots[k][i]
    <3>1. Tells(x, slots[k][i].items) \/ (changed[x] # None /\ slots[k][i].at <= changed[x])
      BY <2>2 DEF FlagsInv, MappedIsRecent
    <3>2. /\ slots[k][i].at \in Nat
          /\ changed[x] # None => changed[x] \in Nat
          /\ changed'[x] = IF x \in lost THEN clock ELSE changed[x]
          /\ clock \in Nat
      BY <2>1, Times DEF ShapesInv
    <3>3. changed[x] # None => changed'[x] # None /\ changed[x] <= changed'[x]
      BY <1>12, <2>1
    <3>4. changed[x] # None /\ slots[k][i].at <= changed[x] => slots[k][i].at <= changed'[x]
      <4> SUFFICES ASSUME changed[x] # None, slots[k][i].at <= changed[x] PROVE slots[k][i].at <= changed'[x]
        OBVIOUS
      <4>1. changed[x] \in Nat /\ changed'[x] \in Nat /\ changed[x] <= changed'[x]
        BY <3>2, <3>3
      <4> QED
        BY <4>1, <3>2
    <3> QED
      BY <2>2, <3>1, <3>3, <3>4
  <2>3. CASE slots'[k][i] # slots[k][i]
    <3>1. Now /\ k = q /\ i = m
      BY <2>3, <1>14
    <3>2. Tells(x, all) \/ changed'[x] = clock
      BY <3>1, <1>1, <1>5, <1>14
    <3>3. slots'[k][i].items = all /\ slots'[k][i].at = clock
      BY <3>1, <1>14
    <3>4. clock \in Nat /\ clock # None
      BY Times, ListingAssumption DEF ShapesInv
    <3> QED
      BY <3>2, <3>3, <3>4
  <2> QED
    BY <2>2, <2>3
<1>18. MappedReadsAreRecent'
  <2> SUFFICES ASSUME NEW k \in Caches, NEW i \in SlotIds, i = mapped[k],
                      NEW d \in Calls, Fetches(d, k, i)', NEW x \in ReadBy(d)'
               PROVE  Tells(x, seen'[d]) \/ changed'[x] = clock
    BY <1>1, <1>15 DEF MappedReadsAreRecent, Tells, Fetches, Fetching
  <2>1. CASE d = c
    BY <2>1, <1>5, <1>14, <1>16, <1>1
  <2>2. CASE d # c
    <3>1. Fetches(d, k, i) /\ x \in ReadBy(d) /\ seen'[d] = seen[d]
      BY <2>2, <1>10, <1>11
    <3>2. Tells(x, seen[d]) \/ changed[x] = clock
      BY <3>1 DEF FlagsInv, MappedReadsAreRecent
    <3>3. x \in Items
      <4>1. CallType(d) /\ Fetching(d) /\ CacheOf(request[d]) = k
        BY <3>1 DEF ShapesInv, Fetches
      <4>2. ReadUpto(k, part[d]) \subseteq Items
        BY <4>1, NextPart DEF CallType
      <4> QED
        BY <3>1, <4>1, <4>2 DEF ReadBy
    <3> QED
      BY <3>1, <3>2, <3>3, <1>13
  <2> QED
    BY <2>1, <2>2
<1>19. HeldIsRecent'
  <2> SUFFICES ASSUME NEW k \in Caches, NEW i \in SlotIds, NEW d \in Calls, Has(d, k, i)',
                      slots'[k][i].state = "full", NEW x \in Reads(k)
               PROVE  Tells(x, slots'[k][i].items) \/ x \in either'[d]
    BY <1>1 DEF HeldIsRecent, Tells
  <2>1. Has(d, k, i)
    BY <1>6
  <2>2. CASE slots'[k][i] = slots[k][i]
    <3>1. Tells(x, slots[k][i].items) \/ x \in either[d]
      BY <2>1, <2>2 DEF FlagsInv, HeldIsRecent
    <3>2. either'[d] = either[d] \cup lost
      BY <2>1, <1>7
    <3> QED
      BY <2>2, <3>1, <3>2
  <2>3. CASE slots'[k][i] # slots[k][i]
    BY <2>1, <2>3, <1>8, <1>14
  <2> QED
    BY <2>2, <2>3
<1>20. HeldReadsAreRecent'
  <2> SUFFICES ASSUME NEW k \in Caches, NEW i \in SlotIds, NEW d \in Calls, Has(d, k, i)',
                      NEW f \in Calls, Fetches(f, k, i)', NEW x \in ReadBy(f)'
               PROVE  Tells(x, seen'[f]) \/ x \in either'[d]
    BY <1>1 DEF HeldReadsAreRecent, Tells
  <2>1. Has(d, k, i)
    BY <1>6
  <2>2. CASE f = c
    BY <2>1, <2>2, <1>8, <1>14, <1>16
  <2>3. CASE f # c
    <3>1. Fetches(f, k, i) /\ x \in ReadBy(f) /\ seen'[f] = seen[f]
      BY <2>3, <1>10, <1>11
    <3>2. Tells(x, seen[f]) \/ x \in either[d]
      BY <2>1, <3>1 DEF FlagsInv, HeldReadsAreRecent
    <3>3. either'[d] = either[d] \cup lost
      BY <2>1, <1>7
    <3> QED
      BY <3>1, <3>2, <3>3
  <2> QED
    BY <2>2, <2>3
<1> QED
  BY <1>9, <1>17, <1>18, <1>19, <1>20 DEF FlagsInv

\* What has just changed is not settled, and is told either way.
LEMMA PutFlags ==
  ASSUME ShapesInv, FlagsInv, NEW i \in Items, NEW there, Put(i, there)
  PROVE  FlagsInv'
<1>1. /\ UNCHANGED <<clock, slots, mapped, pc, request, slot, part, seen>>
      /\ changed' = [changed EXCEPT ![i] = clock] /\ DOMAIN changed = Items
      /\ \A x : x # i => (x \in config' <=> x \in config)
      /\ \A d \in Calls : pc[d] \notin {"idle", "replied"} => either'[d] = either[d] \cup {i}
  BY DEF Put, callVars, Also, ShapesInv, StateType
<1>2. \A d \in Calls, k \in Caches, j \in SlotIds :
        /\ Has(d, k, j)' <=> Has(d, k, j)
        /\ Fetches(d, k, j)' <=> Fetches(d, k, j)
        /\ Has(d, k, j) => either'[d] = either[d] \cup {i}
  BY <1>1, SlotIdsAreNumbers DEF Has, Fetches, Fetching, ShapesInv, CallType
<1>3. \A d \in Calls : ReadBy(d)' = ReadBy(d)
  BY <1>1 DEF ReadBy
<1>4. \A x, S : x # i => (Tells(x, S)' <=> Tells(x, S))
  BY <1>1 DEF Tells
<1>5. \A k \in Caches : mapped[k] \in SlotIds /\ slots[k][mapped[k]].at <= clock
  BY Times DEF ShapesInv, StateType
<1>6. changed'[i] = clock /\ clock # None /\ \A x : x # i => changed'[x] = changed[x]
  BY <1>1, Times, ListingAssumption DEF ShapesInv
<1>7. UnsettledIsEither'
  <2> SUFFICES ASSUME NEW d \in Calls, pc[d] \notin {"idle", "replied"}, NEW x \in Unsettled'
               PROVE  x \in either'[d]
    BY <1>1 DEF UnsettledIsEither
  <2>1. x = i \/ x \in Unsettled
    BY <1>1, <1>6 DEF Unsettled
  <2> QED
    BY <2>1, <1>1 DEF FlagsInv, UnsettledIsEither
<1>8. MappedIsRecent'
  <2> SUFFICES ASSUME NEW k \in Caches, slots[k][mapped[k]].state = "full", NEW x \in Reads(k)
               PROVE  Tells(x, slots[k][mapped[k]].items)'
                        \/ (changed'[x] # None /\ slots[k][mapped[k]].at <= changed'[x])
    BY <1>1 DEF MappedIsRecent, Tells
  <2>1. CASE x = i
    BY <2>1, <1>5, <1>6
  <2>2. CASE x # i
    <3>1. Tells(x, slots[k][mapped[k]].items) \/ (changed[x] # None /\ slots[k][mapped[k]].at <= changed[x])
      BY DEF FlagsInv, MappedIsRecent
    <3> QED
      BY <2>2, <3>1, <1>1, <1>6 DEF Tells
  <2> QED
    BY <2>1, <2>2
<1>9. MappedReadsAreRecent'
  <2> SUFFICES ASSUME NEW k \in Caches, NEW d \in Calls, Fetches(d, k, mapped[k]), NEW x \in ReadBy(d)
               PROVE  Tells(x, seen[d])' \/ changed'[x] = clock
    BY <1>1, <1>2, <1>3, <1>5 DEF MappedReadsAreRecent, Tells
  <2>1. Tells(x, seen[d]) \/ changed[x] = clock
    BY DEF FlagsInv, MappedReadsAreRecent
  <2> QED
    BY <2>1, <1>1, <1>6 DEF Tells
<1>10. HeldIsRecent'
  <2> SUFFICES ASSUME NEW k \in Caches, NEW j \in SlotIds, NEW d \in Calls, Has(d, k, j),
                      slots[k][j].state = "full", NEW x \in Reads(k)
               PROVE  Tells(x, slots[k][j].items)' \/ x \in either'[d]
    BY <1>1, <1>2 DEF HeldIsRecent, Tells
  <2>1. Tells(x, slots[k][j].items) \/ x \in either[d]
    BY DEF FlagsInv, HeldIsRecent
  <2> QED
    BY <2>1, <1>1, <1>2 DEF Tells
<1>11. HeldReadsAreRecent'
  <2> SUFFICES ASSUME NEW k \in Caches, NEW j \in SlotIds, NEW d \in Calls, Has(d, k, j),
                      NEW f \in Calls, Fetches(f, k, j), NEW x \in ReadBy(f)
               PROVE  Tells(x, seen[f])' \/ x \in either'[d]
    BY <1>1, <1>2, <1>3 DEF HeldReadsAreRecent, Tells
  <2>1. Tells(x, seen[f]) \/ x \in either[d]
    BY DEF FlagsInv, HeldReadsAreRecent
  <2> QED
    BY <2>1, <1>1, <1>2 DEF Tells
<1> QED
  BY <1>7, <1>8, <1>9, <1>10, <1>11 DEF FlagsInv

\* After an invalidation there is nothing in the map to be wrong; who has a slot keeps
\* it, and what it may be told either way.
LEMMA InvalidateFlags ==
  ASSUME ShapesInv, SlotsInv, FlagsInv, Invalidate
  PROVE  FlagsInv'
<1>1. /\ UNCHANGED <<config, clock, pc, request, slot, part, seen, either>>
      /\ changed' = [x \in Items |-> None]
  BY DEF Invalidate, Settle, callVars
<1>2. \A d \in Calls, k \in Caches, i \in SlotIds :
        /\ Has(d, k, i)' <=> Has(d, k, i)
        /\ Fetches(d, k, i)' <=> Fetches(d, k, i)
        /\ Has(d, k, i) => slots'[k][i] = slots[k][i] /\ i # mapped'[k]
        /\ Fetches(d, k, i) => Has(d, k, i)
  BY <1>1, InvalidatedSlots, FetcherHas DEF Has, Fetches, Fetching, Holds
<1>3. \A d \in Calls : ReadBy(d)' = ReadBy(d)
  BY <1>1 DEF ReadBy
<1>4. UnsettledIsEither'
  BY <1>1 DEF UnsettledIsEither, Unsettled
<1>5. MappedIsRecent'
  BY InvalidatedSlots DEF MappedIsRecent, NewSlot
<1>6. MappedReadsAreRecent'
  <2> SUFFICES ASSUME NEW k \in Caches, NEW i \in SlotIds, i = mapped'[k], NEW d \in Calls, Fetches(d, k, i)'
               PROVE  FALSE
    BY InvalidatedSlots DEF MappedReadsAreRecent, Fetches, Fetching
  <2> QED
    BY <1>2
<1>7. HeldIsRecent'
  BY <1>1, <1>2 DEF FlagsInv, HeldIsRecent, Tells
<1>8. HeldReadsAreRecent'
  BY <1>1, <1>2, <1>3 DEF FlagsInv, HeldReadsAreRecent, Tells
<1> QED
  BY <1>4, <1>5, <1>6, <1>7, <1>8 DEF FlagsInv

\* Time makes nothing unsettled, and what a fetch has overlooked does not settle.
LEMMA TickFlags ==
  ASSUME ShapesInv, FlagsInv, Tick
  PROVE  FlagsInv'
<1>1. /\ UNCHANGED <<config, slots, mapped, pc, request, slot, part, seen, either>>
      /\ clock' = clock + 1
      /\ changed' = [x \in Items |-> IF x \in Overlooked THEN clock' ELSE changed[x]]
  BY DEF Tick, callVars
<1>2. /\ clock \in Nat /\ clock' \in Nat /\ clock <= clock' /\ clock' # None /\ Ttl \in Nat \ {0}
      /\ \A x \in Items : changed[x] # None => changed[x] \in Nat /\ changed[x] <= clock
  BY <1>1, Times, ListingAssumption DEF ShapesInv
<1>3. ASSUME NEW x \in Overlooked PROVE x \in Items /\ changed[x] = clock
  <2>1. PICK d \in Calls : /\ x \in Items /\ Fetching(d) /\ slot[d] = mapped[CacheOf(request[d])]
                           /\ x \in ReadBy(d) /\ ~Tells(x, seen[d])
    BY <1>3 DEF Overlooked, ReadBy, ReadUpto, Tells
  <2>2. Fetches(d, CacheOf(request[d]), mapped[CacheOf(request[d])])
    BY <2>1 DEF Fetches
  <2> QED
    BY <2>1, <2>2, CacheOfIs DEF FlagsInv, MappedReadsAreRecent
<1>4. ASSUME NEW x \in Items
      PROVE  /\ x \in Overlooked => changed'[x] = clock'
             /\ changed[x] # None =>
                  changed'[x] # None /\ changed'[x] \in Nat /\ changed[x] <= changed'[x]
  <2>1. changed'[x] = IF x \in Overlooked THEN clock' ELSE changed[x]
    BY <1>1
  <2> QED
    BY <1>2, <1>3, <2>1
<1>5. Unsettled' \subseteq Unsettled
  <2> SUFFICES ASSUME NEW x \in Unsettled' PROVE x \in Unsettled
    OBVIOUS
  <2>1. x \in Items /\ changed'[x] # None /\ clock' - changed'[x] < Ttl
    BY DEF Unsettled
  <2>2. CASE x \in Overlooked
    <3>1. changed[x] = clock /\ clock - changed[x] < Ttl /\ changed[x] # None
      BY <1>2, <1>3, <2>2, ListingAssumption
    <3> QED
      BY <2>1, <3>1 DEF Unsettled
  <2>3. CASE x \notin Overlooked
    <3>1. changed'[x] = changed[x]
      BY <1>1, <2>1, <2>3
    <3>2. clock - changed[x] < Ttl
      BY <1>1, <1>2, <2>1, <3>1
    <3> QED
      BY <2>1, <3>1, <3>2 DEF Unsettled
  <2> QED
    BY <2>2, <2>3
<1>6. UnsettledIsEither'
  BY <1>1, <1>5 DEF FlagsInv, UnsettledIsEither
<1>7. MappedIsRecent'
  <2> SUFFICES ASSUME NEW k \in Caches, slots[k][mapped[k]].state = "full", NEW x \in Reads(k),
                      ~Tells(x, slots[k][mapped[k]].items)
               PROVE  changed'[x] # None /\ slots[k][mapped[k]].at <= changed'[x]
    BY <1>1 DEF MappedIsRecent, Tells
  <2>1. changed[x] # None /\ slots[k][mapped[k]].at <= changed[x] /\ x \in Items
    BY ReadsAreItems DEF FlagsInv, MappedIsRecent
  <2>2. slots[k][mapped[k]].at \in Nat
    BY Times DEF ShapesInv, StateType
  <2> QED
    BY <1>2, <1>4, <2>1, <2>2
<1>8. MappedReadsAreRecent'
  <2> SUFFICES ASSUME NEW k \in Caches, NEW d \in Calls, Fetches(d, k, mapped[k]), NEW x \in ReadBy(d),
                      ~Tells(x, seen[d])
               PROVE  changed'[x] = clock'
    BY <1>1 DEF MappedReadsAreRecent, Fetches, Fetching, ReadBy, Tells
  <2>1. Fetching(d) /\ CacheOf(request[d]) = k /\ slot[d] = mapped[k]
    BY DEF Fetches
  <2>2. PICK j \in 1 .. part[d] - 1 : x \in Parts[k][j]
    BY <2>1 DEF ReadBy, ReadUpto
  <2>3. x \in Items
    <3>1. part[d] \in DOMAIN Parts[k]
      BY <2>1 DEF ShapesInv, CallType
    <3>2. j \in DOMAIN Parts[k]
      BY <2>2, <3>1, PartsAre
    <3> QED
      BY <2>2, <3>2, ReadsAreItems DEF Reads
  <2>4. x \in Overlooked
    BY <2>1, <2>2, <2>3 DEF Overlooked, Tells
  <2> QED
    BY <1>4, <2>3, <2>4
<1>9. HeldReadsAreRecent'
  BY <1>1 DEF FlagsInv, HeldReadsAreRecent, Fetches, Fetching, Has, ReadBy, Tells
<1>10. HeldIsRecent'
  BY <1>1 DEF FlagsInv, HeldIsRecent, Tells, Has
<1> QED
  BY <1>6, <1>7, <1>8, <1>9, <1>10 DEF FlagsInv

LEMMA FlagsNext == ShapesInv /\ SlotsInv /\ FlagsInv /\ [Next]_vars => FlagsInv'
<1> SUFFICES ASSUME ShapesInv, SlotsInv, FlagsInv, [Next]_vars PROVE FlagsInv'
  OBVIOUS
<1>1. ASSUME NEW c \in Calls, NEW r \in Requests[c],
             \/ AskCached(c, r) \/ AskFetched(c, r) \/ AskDegraded(c, r)
             \/ ListInstalled(c, r) \/ AskPlugins(c, r)
      PROVE  FlagsInv'
  BY <1>1, AskFlags
<1>2. ASSUME NEW c \in Calls, Join(c) PROVE FlagsInv'
  BY <1>2, JoinFlags
<1>3. ASSUME NEW c \in Calls, Drive(c) PROVE FlagsInv'
  BY <1>3, DriveFlags
<1>4. ASSUME NEW c \in Calls, Read(c) PROVE FlagsInv'
  <2>1. /\ changed' = [x \in Items |-> IF x \in {} THEN clock ELSE changed[x]]
        /\ \A d \in Calls : either'[d] = either[d] \cup {}
    BY <1>4 DEF Read, ShapesInv, StateType
  <2>2. ReadPart(c, (config \cap Parts[CacheOf(request[c])][part[c]]) \ {}) /\ Fetching(c)
    BY <1>4 DEF Read
  <2> QED
    BY <2>1, <2>2, ReadPartFlags
<1>5. ASSUME NEW c \in Calls, ReadFails(c) PROVE FlagsInv'
  <2> DEFINE lost == config \cap Parts[CacheOf(request[c])][part[c]]
  <2>1. /\ changed' = [x \in Items |-> IF x \in lost THEN clock ELSE changed[x]]
        /\ \A d \in Calls : pc[d] \notin {"idle", "replied"} => either'[d] = either[d] \cup lost
    BY <1>5 DEF ReadFails, Also
  <2>2. ReadPart(c, lost \ lost) /\ Fetching(c) /\ lost \subseteq Items
    BY <1>5 DEF ReadFails, ShapesInv, StateType
  <2>3. lost \ lost = (config \cap Parts[CacheOf(request[c])][part[c]]) \ lost
    OBVIOUS
  <2> QED
    BY <2>1, <2>2, <2>3, ReadPartFlags
<1>6. ASSUME NEW c \in Calls, Reply(c) PROVE FlagsInv'
  BY <1>6, ReplyFlags
<1>7. ASSUME NEW i \in Touched, Write(i) \/ Edit(i) PROVE FlagsInv'
  BY <1>7, PutFlags, ListingAssumption DEF Write, Edit
<1>8. CASE RollBack
  BY <1>8, PutFlags DEF RollBack, ShapesInv, StateType
<1>9. CASE Invalidate
  BY <1>9, InvalidateFlags
<1>10. CASE Tick
  BY <1>10, TickFlags
<1>11. CASE UNCHANGED vars
  <2>1. UNCHANGED <<config, clock, slots, mapped, changed, pc, request, slot, part, seen, either>>
    BY <1>11 DEF vars, callVars
  <2>2. UnsettledIsEither'
    BY <2>1 DEF FlagsInv, UnsettledIsEither, Unsettled
  <2> QED
    BY <2>1, <2>2, FlagsFrame DEF ShapesInv, StateType, Has, Fetches, Fetching, ReadBy
<1> QED
  BY <1>1, <1>2, <1>3, <1>4, <1>5, <1>6, <1>7, <1>8, <1>9, <1>10, <1>11 DEF Next

(* Replies *)

ListingInv == ShapesInv /\ SlotsInv /\ FlagsInv

LEMMA ListingInvariant == (Init => ListingInv) /\ (ListingInv /\ [Next]_vars => ListingInv')
BY ShapesInit, SlotsInit, FlagsInit, ShapesNext, SlotsNext, FlagsNext DEF ListingInv

\* A call replies from the slot it has, or with what it lists itself.
LEMMA RepliesBy ==
  ASSUME ShapesInv, [Next]_vars, NEW c \in Calls, Replies(c)
  PROVE  Reply(c) \/ \E r \in Requests[c] : ListInstalled(c, r)
<1>1. pc[c] # "replied" /\ pc'[c] = "replied" /\ DOMAIN pc = Calls
  BY DEF Replies, ShapesInv, CallFunctions
<1>2. ASSUME NEW d \in Calls, NEW r \in Requests[d],
             AskCached(d, r) \/ AskFetched(d, r) \/ AskDegraded(d, r) \/ AskPlugins(d, r)
      PROVE  FALSE
  BY <1>1, <1>2 DEF AskCached, AskFetched, AskDegraded, Fetch, AskPlugins
<1>3. ASSUME NEW d \in Calls, Join(d) \/ Drive(d) PROVE FALSE
  BY <1>1, <1>3 DEF Join, Drive, DriveSlot
<1>4. ASSUME NEW d \in Calls, Read(d) \/ ReadFails(d) PROVE FALSE
  BY <1>1, <1>4 DEF Read, ReadFails, ReadPart
<1>5. ASSUME NEW d \in Calls, Reply(d), d # c PROVE FALSE
  BY <1>1, <1>5 DEF Reply
<1>6. ASSUME NEW d \in Calls, NEW r \in Requests[d], ListInstalled(d, r), d # c PROVE FALSE
  BY <1>1, <1>6 DEF ListInstalled
<1>7. pc' # pc
  BY <1>1
<1>8. ASSUME NEW i, Write(i) \/ Edit(i) PROVE FALSE
  BY <1>7, <1>8 DEF Write, Edit, Put, callVars
<1>9. ~RollBack /\ ~Invalidate /\ ~Tick /\ ~UNCHANGED vars
  BY <1>7 DEF RollBack, Put, Invalidate, Settle, Tick, vars, callVars
<1> QED
  BY <1>2, <1>3, <1>4, <1>5, <1>6, <1>8, <1>9 DEF Next

\* A page that is stamped keeps its items and groups.
LEMMA StampedPage ==
  ASSUME NEW s, NEW r, IsPage(s, r), NEW S
  PROVE  \E n \in Nat :
           /\ DOMAIN s = 1 .. n /\ DOMAIN Stamped(s, S) = 1 .. n
           /\ \A i \in 1 .. n :
                /\ Stamped(s, S)[i].item = s[i].item /\ s[i].item \in Reads(CacheOf(r))
                /\ Stamped(s, S)[i].group = s[i].group
                /\ Stamped(s, S)[i].installed <=> s[i].item \in S
<1>1. PICK n \in Nat : DOMAIN s = 1 .. n
  BY DEF IsPage
<1>2. \A i \in DOMAIN s : s[i] = Row(s[i].item, s[i].group) /\ s[i].item \in Reads(CacheOf(r))
  BY DEF IsPage
<1>3. /\ DOMAIN Stamped(s, S) = DOMAIN s
      /\ \A i \in DOMAIN s :
           /\ Stamped(s, S)[i].item = s[i].item
           /\ Stamped(s, S)[i].group = s[i].group
           /\ Stamped(s, S)[i].installed = (s[i].item \in S)
  BY <1>2, StampedRows
<1> QED
  BY <1>1, <1>2, <1>3

\* What the slot has is what is declared, but for what may be told either way.
LEMMA SlotTells ==
  ASSUME ListingInv, NEW c \in Calls, Reply(c)
  PROVE  /\ Slot(c).items \subseteq Reads(CacheOf(request[c])) /\ IsFiniteSet(Slot(c).items)
         /\ \A x \in Reads(CacheOf(request[c])) : Tells(x, Slot(c).items) \/ x \in either[c]
         /\ request[c].method \in Paged \cup {"list_installed_plugins"}
         /\ request[c].method \in Paged => IsPage(page[c], request[c])
<1> DEFINE k == CacheOf(request[c])
           i == slot[c]
<1>1. /\ k \in Caches /\ i \in SlotIds /\ Slot(c) = slots[k][i] /\ Has(c, k, i)
      /\ request[c].method \in Paged \cup {"list_installed_plugins"}
      /\ request[c].method \in Paged => IsPage(page[c], request[c])
  BY CacheOfIs DEF Reply, Slot, Has, ListingInv, ShapesInv, CallType
<1>2. Slot(c).items \subseteq Reads(k)
  BY <1>1 DEF ListingInv, SlotsInv, ListsItsOwn
<1>3. IsFiniteSet(Slot(c).items)
  BY <1>1, <1>2, ReadsAreItems, FiniteItems
<1>4. \A x \in Reads(k) : Tells(x, Slot(c).items) \/ x \in either[c]
  BY <1>1 DEF Reply, ListingInv, FlagsInv, HeldIsRecent
<1> QED
  BY <1>1, <1>2, <1>3, <1>4

\* The rows of a reply that has a page.
LEMMA ReplyTells ==
  ASSUME ListingInv, NEW c \in Calls, Reply(c), NEW row \in Shown(c)', row.item \notin either[c]
  PROVE  row.installed <=> row.item \in config
<1> DEFINE items == Slot(c).items
           r == request[c]
           stamped == Stamped(page[c], items)
<1>1. PICK i \in DOMAIN rows'[c] : row = rows'[c][i]
  BY DEF Shown
<1>2. rows'[c] = CASE r.method = "search_packages" -> DedupByGroup(stamped)
                   [] r.method = "list_installed_plugins" ->
                        [j \in DOMAIN SetToSeq(items) |->
                          [Row(SetToSeq(items)[j], None) EXCEPT !.installed = TRUE]]
                   [] OTHER -> stamped
  BY DEF Reply, ListingInv, ShapesInv, CallFunctions
<1>3. CASE r.method \in Paged
  <2>1. PICK n \in Nat :
          /\ DOMAIN stamped = 1 .. n
          /\ \A j \in 1 .. n :
               /\ stamped[j].item = page[c][j].item /\ page[c][j].item \in Reads(CacheOf(r))
               /\ stamped[j].installed <=> page[c][j].item \in items
    <3>1. IsPage(page[c], r)
      BY <1>3, SlotTells
    <3> QED
      BY <3>1, StampedPage
  <2>2. \E j \in 1 .. n : row = stamped[j]
    <3>1. CASE r.method = "search_packages"
      <4>1. rows'[c] = DedupByGroup(stamped)
        BY <1>2, <3>1
      <4> HIDE DEF stamped
      <4> QED
        BY <1>1, <2>1, <4>1, DedupedFrom
    <3>2. CASE r.method # "search_packages"
      <4>1. rows'[c] = stamped
        BY <1>2, <1>3, <3>2 DEF Paged
      <4> QED
        BY <1>1, <2>1, <4>1
    <3> QED
      BY <3>1, <3>2
  <2>3. row.item \in Reads(CacheOf(r)) /\ (row.installed <=> row.item \in items)
    <3> HIDE DEF stamped, items, r
    <3> QED
      BY <2>1, <2>2
  <2> QED
    BY <2>3, SlotTells DEF Tells
<1>4. CASE r.method = "list_installed_plugins"
  <2>1. rows'[c] = [j \in DOMAIN SetToSeq(items) |-> [Row(SetToSeq(items)[j], None) EXCEPT !.installed = TRUE]]
    BY <1>2, <1>4
  <2>2. \A j \in DOMAIN SetToSeq(items) : SetToSeq(items)[j] \in items
    BY SlotTells, SetToSeqLists
  <2>3. row.installed = TRUE /\ row.item \in items
    <3> HIDE DEF items
    <3> QED
      BY <1>1, <2>1, <2>2 DEF Row
  <2> QED
    BY <2>3, SlotTells DEF Tells
<1> QED
  BY <1>3, <1>4, SlotTells

\* The rows of a reply that reads the configuration itself.
LEMMA ListInstalledTells ==
  ASSUME ListingInv, NEW c \in Calls, NEW r \in Requests[c], ListInstalled(c, r), NEW row \in Shown(c)'
  PROVE  row.installed <=> row.item \in config
<1> DEFINE packages == SetToSeq(config \cap Of("package"))
           modules == SetToSeq(config \cap Of("module"))
           rowsP == [i \in DOMAIN packages |-> [PackageEntry(packages[i]) EXCEPT !.installed = TRUE]]
           rowsM == [i \in DOMAIN modules |-> [ModuleEntry(modules[i]) EXCEPT !.installed = TRUE]]
<1>1. rows'[c] \in {DedupByGroup(rowsP), rowsM}
  BY DEF ListInstalled, ListingInv, ShapesInv, CallFunctions
<1>2. IsFiniteSet(config \cap Of("package")) /\ IsFiniteSet(config \cap Of("module"))
  BY FiniteItems DEF ListingInv, ShapesInv, StateType
<1>3. PICK n \in Nat : DOMAIN packages = 1 .. n /\ \A i \in 1 .. n : packages[i] \in config
  <2>1. /\ Cardinality(config \cap Of("package")) \in Nat
        /\ packages \in [1 .. Cardinality(config \cap Of("package")) -> config \cap Of("package")]
    BY <1>2, SetToSeqLists
  <2> HIDE DEF packages
  <2> QED
    BY <2>1
<1>4. \A i \in DOMAIN modules : modules[i] \in config
  BY <1>2, SetToSeqLists
<1>5. \A p : LET e == [PackageEntry(p) EXCEPT !.installed = TRUE] IN e.item = p /\ e.installed = TRUE
  BY DEF PackageEntry, Row
<1>6. \A p : LET e == [ModuleEntry(p) EXCEPT !.installed = TRUE] IN e.item = p /\ e.installed = TRUE
  BY DEF ModuleEntry, Row
<1>7. DOMAIN rowsP = 1 .. n /\ \A i \in 1 .. n : rowsP[i].item \in config /\ rowsP[i].installed = TRUE
  BY <1>3, <1>5
<1>8. \A i \in DOMAIN rowsM : rowsM[i].item \in config /\ rowsM[i].installed = TRUE
  BY <1>4, <1>6
<1> HIDE DEF rowsP, rowsM
<1>9. \A i \in DOMAIN DedupByGroup(rowsP) :
        DedupByGroup(rowsP)[i].item \in config /\ DedupByGroup(rowsP)[i].installed = TRUE
  BY <1>7, DedupedFrom
<1> QED
  BY <1>1, <1>8, <1>9 DEF Shown

\* Whatever is asked, cached, declared and undone, and whenever: the flag of every row
\* of a reply is what the configuration declares, but for what changed during the call,
\* or within the TTL before it by no command that has since succeeded, the TTL counted
\* from the end of a fetch that had read it before.
THEOREM FlagsRecent == Spec => FlagsAreRecent
<1>1. ASSUME ListingInv, [Next]_vars
      PROVE  \A c \in Calls : Replies(c) =>
               \A row \in Shown(c)' : row.item \notin either[c] => (row.installed <=> row.item \in config)
  <2> TAKE c \in Calls
  <2> SUFFICES ASSUME Replies(c), NEW row \in Shown(c)', row.item \notin either[c]
               PROVE  row.installed <=> row.item \in config
    OBVIOUS
  <2>1. CASE Reply(c)
    BY <1>1, <2>1, ReplyTells
  <2>2. CASE \E r \in Requests[c] : ListInstalled(c, r)
    BY <1>1, <2>2, ListInstalledTells
  <2> QED
    BY <1>1, <2>1, <2>2, RepliesBy DEF ListingInv
<1> QED
  BY <1>1, ListingInvariant, PTL DEF Spec, FlagsAreRecent

\* The row of a group in a reply is one that is declared, if one of the page is: the
\* one an Uninstall button then targets.
THEOREM InstalledStandsForGroup == Spec => InstalledRepresents
<1>1. ASSUME ListingInv, [Next]_vars
      PROVE  \A c \in Calls : Replies(c) /\ request'[c].method = "search_packages" =>
               \A i \in DOMAIN page[c] :
                 page[c][i].item \in config \ either[c] =>
                   \E row \in Shown(c)' : row.group = page[c][i].group /\ row.installed
  <2> TAKE c \in Calls
  <2> SUFFICES ASSUME Replies(c), request'[c].method = "search_packages",
                      NEW i \in DOMAIN page[c], page[c][i].item \in config \ either[c]
               PROVE  \E row \in Shown(c)' : row.group = page[c][i].group /\ row.installed
    OBVIOUS
  <2> DEFINE items == Slot(c).items
             stamped == Stamped(page[c], items)
  <2>1. ASSUME NEW r \in Requests[c], ListInstalled(c, r) PROVE FALSE
    BY <1>1, <2>1 DEF ListInstalled, Begin, ListingInv, ShapesInv, CallFunctions
  <2>2. Reply(c)
    BY <1>1, <2>1, RepliesBy DEF ListingInv
  <2>3. request' = request /\ request[c].method \in Paged
    BY <2>2 DEF Reply, stampFrame, Paged
  <2>4. PICK n \in Nat :
          /\ DOMAIN page[c] = 1 .. n /\ DOMAIN stamped = 1 .. n
          /\ \A j \in 1 .. n :
               /\ page[c][j].item \in Reads(CacheOf(request[c]))
               /\ stamped[j].group = page[c][j].group
               /\ stamped[j].installed <=> page[c][j].item \in items
    BY <1>1, <2>2, <2>3, SlotTells, StampedPage
  <2>5. page[c][i].item \in items
    BY <1>1, <2>2, <2>4, SlotTells DEF Tells
  <2>6. rows'[c] = DedupByGroup(stamped)
    BY <1>1, <2>2, <2>3 DEF Reply, ListingInv, ShapesInv, CallFunctions
  <2> HIDE DEF stamped, items
  <2>7. stamped[i].installed /\ stamped[i].group = page[c][i].group /\ i \in 1 .. n
    BY <2>4, <2>5
  <2>8. \E k \in DOMAIN DedupByGroup(stamped) :
          DedupByGroup(stamped)[k].group = stamped[i].group /\ DedupByGroup(stamped)[k].installed
    BY <2>4, <2>7, InstalledIsShown
  <2> QED
    BY <2>6, <2>7, <2>8 DEF Shown
<1> QED
  BY <1>1, ListingInvariant, PTL DEF Spec, InstalledRepresents

(* One row for each group *)

\* A reply of a search is its page, stamped and collapsed.
Collapsed ==
  \A c \in Calls : pc[c] = "replied" /\ request[c].method = "search_packages" =>
    \E S \in SUBSET Items : rows[c] = DedupByGroup(Stamped(page[c], S))

\* A call that has replied is done.
LEMMA RepliedStays ==
  ASSUME ShapesInv, [Next]_vars, NEW c \in Calls, pc[c] = "replied"
  PROVE  pc'[c] = "replied" /\ request'[c] = request[c] /\ page'[c] = page[c] /\ rows'[c] = rows[c]
<1>1. CallFunctions
  BY DEF ShapesInv
<1>2. ASSUME NEW d \in Calls, NEW r \in Requests[d],
             \/ AskCached(d, r) \/ AskFetched(d, r) \/ AskDegraded(d, r)
             \/ ListInstalled(d, r) \/ AskPlugins(d, r)
      PROVE  pc'[c] = "replied" /\ request'[c] = request[c] /\ page'[c] = page[c] /\ rows'[c] = rows[c]
  <2>1. Begin(d, r) /\ d # c
    BY <1>2 DEF AskCached, AskFetched, AskDegraded, Fetch, ListInstalled, AskPlugins, Begin
  <2>2. request'[c] = request[c]
    BY <1>1, <2>1 DEF Begin, CallFunctions
  <2>3. pc'[c] = pc[c] /\ page'[c] = page[c] /\ rows'[c] = rows[c]
    BY <1>1, <1>2, <2>1
       DEF AskCached, AskFetched, AskDegraded, Fetch, ListInstalled, AskPlugins, CallFunctions
  <2> QED
    BY <2>2, <2>3
<1>3. ASSUME NEW d \in Calls, Join(d) \/ Drive(d)
      PROVE  pc'[c] = "replied" /\ request'[c] = request[c] /\ page'[c] = page[c] /\ rows'[c] = rows[c]
  BY <1>1, <1>3 DEF Join, Drive, DriveSlot, stampFrame, CallFunctions
<1>4. ASSUME NEW d \in Calls, Read(d) \/ ReadFails(d)
      PROVE  pc'[c] = "replied" /\ request'[c] = request[c] /\ page'[c] = page[c] /\ rows'[c] = rows[c]
  BY <1>1, <1>4 DEF Read, ReadFails, ReadPart, Fetching, CallFunctions
<1>5. ASSUME NEW d \in Calls, Reply(d)
      PROVE  pc'[c] = "replied" /\ request'[c] = request[c] /\ page'[c] = page[c] /\ rows'[c] = rows[c]
  BY <1>1, <1>5 DEF Reply, stampFrame, CallFunctions
<1>6. ASSUME NEW i, Write(i) \/ Edit(i)
      PROVE  UNCHANGED <<pc, request, page, rows>>
  BY <1>6 DEF Write, Edit, Put, callVars
<1>7. CASE RollBack \/ Invalidate \/ Tick \/ UNCHANGED vars
  BY <1>7 DEF RollBack, Put, Invalidate, Settle, Tick, vars, callVars
<1> QED
  BY <1>2, <1>3, <1>4, <1>5, <1>6, <1>7 DEF Next

LEMMA CollapsedNext == ListingInv /\ Collapsed /\ [Next]_vars => Collapsed'
<1> SUFFICES ASSUME ListingInv, Collapsed, [Next]_vars,
                    NEW c \in Calls, pc'[c] = "replied", request'[c].method = "search_packages"
             PROVE  \E S \in SUBSET Items : rows'[c] = DedupByGroup(Stamped(page'[c], S))
  BY DEF Collapsed
<1>1. CASE pc[c] = "replied"
  BY <1>1, RepliedStays DEF ListingInv, Collapsed
<1>2. CASE pc[c] # "replied"
  <2>1. ASSUME NEW r \in Requests[c], ListInstalled(c, r) PROVE FALSE
    BY <2>1 DEF ListInstalled, Begin, ListingInv, ShapesInv, CallFunctions
  <2>2. Reply(c)
    BY <1>2, <2>1, RepliesBy DEF ListingInv, Replies
  <2>3. request' = request /\ page' = page
    BY <2>2 DEF Reply, stampFrame
  <2>4. rows'[c] = DedupByGroup(Stamped(page[c], Slot(c).items))
    BY <2>2, <2>3 DEF Reply, ListingInv, ShapesInv, CallFunctions
  <2>5. Slot(c).items \in SUBSET Items
    BY <2>2, SlotTells, ReadsAreItems, CacheOfIs
  <2> QED
    BY <2>3, <2>4, <2>5
<1> QED
  BY <1>1, <1>2

\* The rows `d` show each group of the page `s` once, in order, and no item twice.
ShownOnce(d, s) ==
  /\ \A i, j \in DOMAIN d : i # j => d[i].item # d[j].item
  /\ LET group(i) == s[i].group
         firsts == {i \in DOMAIN s : \A j \in 1 .. i - 1 : group(j) # group(i)}
         nth(k) == CHOOSE i \in firsts : Cardinality({j \in firsts : j <= i}) = k
     IN  /\ Len(d) = Cardinality(firsts)
         /\ \A k \in DOMAIN d : d[k].group = group(nth(k))

\* Each row of `d` is one of the `n` rows of `e`, of the group of the lead it stands for.
PickedFrom(d, e, n) ==
  \E w \in [1 .. Cardinality(Leads(e)) -> 1 .. n] :
    /\ d = [k \in 1 .. Cardinality(Leads(e)) |-> e[w[k]]]
    /\ \A k \in 1 .. Cardinality(Leads(e)) : e[w[k]].group = e[InOrder(Leads(e))[k]].group

LEMMA DedupedGroups ==
  ASSUME NEW e, NEW n \in Nat, DOMAIN e = 1 .. n PROVE PickedFrom(DedupByGroup(e), e, n)
<1> DEFINE L == Leads(e)
           c == Cardinality(L)
<1>1. PICK w \in [1 .. c -> 1 .. n] :
        /\ DedupByGroup(e) = [k \in 1 .. c |-> e[w[k]]]
        /\ \A k \in 1 .. c :
             LET l == InOrder(L)[k]
             IN  /\ e[w[k]].group = e[l].group
                 /\ e[l].group = None => w[k] = l
                 /\ e[l].group # None =>
                      \A j \in 1 .. n : e[j].group = e[l].group /\ e[j].installed => e[w[k]].installed
  BY DedupedRows
<1> QED
  BY <1>1 DEF PickedFrom

\* Collapsed, a page is shown once.
LEMMA CollapsedPage ==
  ASSUME NEW s, NEW r, IsPage(s, r), r.method = "search_packages", NEW S, NEW d,
         d = DedupByGroup(Stamped(s, S))
  PROVE  ShownOnce(d, s)
<1> DEFINE e == Stamped(s, S)
           L == Leads(e)
           c == Cardinality(L)
           firsts == {i \in DOMAIN s : \A j \in 1 .. i - 1 : s[j].group # s[i].group}
           nth(k) == CHOOSE i \in firsts : Cardinality({j \in firsts : j <= i}) = k
<1>1. PICK n \in Nat :
        /\ DOMAIN s = 1 .. n /\ DOMAIN e = 1 .. n
        /\ \A i \in 1 .. n : e[i].item = s[i].item /\ e[i].group = s[i].group
  BY StampedPage
<1>2. /\ \A i \in 1 .. n : s[i].group # None
      /\ \A i, j \in 1 .. n : s[i].item = s[j].item => i = j
  BY <1>1 DEF IsPage
<1>0. d = DedupByGroup(e)
  OBVIOUS
<1> HIDE DEF e
<1>3. L = firsts
  <2>1. \A i \in 1 .. n : \A j \in 1 .. i - 1 : j \in 1 .. n
    BY <1>1
  <2> QED
    BY <1>1, <1>2, <2>1 DEF Leads
<1>4. /\ L \in SUBSET (1 .. n) /\ L \in SUBSET Nat /\ IsFiniteSet(L) /\ c \in Nat
      /\ InOrder(L) \in [1 .. c -> L]
      /\ \A k, l \in 1 .. c : k < l => InOrder(L)[k] < InOrder(L)[l]
  <2>1. L \in SUBSET (1 .. n) /\ IsFiniteSet(L)
    BY <1>1, DedupedRows
  <2>2. L \in SUBSET Nat
    BY <2>1
  <2> HIDE DEF L
  <2> QED
    BY <2>1, <2>2, InOrderLists
<1>5. PICK w \in [1 .. c -> 1 .. n] :
        /\ d = [k \in 1 .. c |-> e[w[k]]]
        /\ \A k \in 1 .. c : e[w[k]].group = e[InOrder(L)[k]].group
  <2>1. PickedFrom(d, e, n)
    BY <1>0, <1>1, DedupedGroups
  <2> QED
    BY <2>1 DEF PickedFrom
<1>6. ASSUME NEW i \in L, NEW j \in L, i < j PROVE s[i].group # s[j].group
  <2>1. i \in 1 .. j - 1
    BY <1>4, <1>6
  <2>2. j \in firsts
    BY <1>3
  <2> QED
    BY <2>1, <2>2
<1>7. ASSUME NEW k \in 1 .. c PROVE nth(k) = InOrder(L)[k]
  <2>1. /\ Cardinality({j \in L : j <= InOrder(L)[k]}) = k
        /\ \A i \in L : Cardinality({j \in L : j <= i}) = k => i = InOrder(L)[k]
    <3> HIDE DEF L
    <3> QED
      BY <1>4, RankInOrder
  <2>2. InOrder(L)[k] \in L
    BY <1>4
  <2>3. nth(k) = CHOOSE i \in L : Cardinality({j \in L : j <= i}) = k
    BY <1>3
  <2> HIDE DEF nth, L
  <2> QED
    BY <2>1, <2>2, <2>3
<1> HIDE DEF L, c, firsts, nth
<1>8. Len(d) = Cardinality(firsts)
  BY <1>3, <1>4, <1>5, LenOfList DEF c
<1>9. ASSUME NEW k \in DOMAIN d PROVE d[k].group = s[nth(k)].group
  <2>1. k \in 1 .. c /\ InOrder(L)[k] \in 1 .. n
    BY <1>4, <1>5
  <2>2. d[k].group = e[InOrder(L)[k]].group
    BY <1>5, <2>1
  <2> QED
    BY <1>1, <1>7, <2>1, <2>2
<1>10. ASSUME NEW i \in DOMAIN d, NEW j \in DOMAIN d, i # j PROVE d[i].item # d[j].item
  <2>1. i \in 1 .. c /\ j \in 1 .. c /\ w[i] \in 1 .. n /\ w[j] \in 1 .. n
    BY <1>5
  <2>2. s[InOrder(L)[i]].group # s[InOrder(L)[j]].group
    <3>1. i < j \/ j < i
      BY <2>1, <1>4, <1>10
    <3>2. InOrder(L)[i] \in L /\ InOrder(L)[j] \in L
      BY <2>1, <1>4
    <3>3. InOrder(L)[i] < InOrder(L)[j] \/ InOrder(L)[j] < InOrder(L)[i]
      BY <2>1, <3>1, <1>4
    <3> QED
      BY <3>2, <3>3, <1>6
  <2>3. InOrder(L)[i] \in 1 .. n /\ InOrder(L)[j] \in 1 .. n
    BY <2>1, <1>4
  <2>4. s[w[i]].group # s[w[j]].group
    BY <1>1, <1>5, <2>1, <2>2, <2>3
  <2>5. s[w[i]].item # s[w[j]].item
    BY <1>2, <2>1, <2>4
  <2> QED
    BY <1>1, <1>5, <2>1, <2>5
<1> QED
  BY <1>8, <1>9, <1>10 DEF firsts, nth, ShownOnce

\* The reply of a search has one row for each group of its page, in the order their
\* first rows have there, and shows no item twice.
THEOREM GroupsAreShownOnce == Spec => []OneRowPerGroup
<1>1. Init => Collapsed
  BY DEF Init, Collapsed
<1>2. ListingInv /\ Collapsed => OneRowPerGroup
  <2> SUFFICES ASSUME ListingInv, Collapsed, NEW c \in Calls,
                      pc[c] = "replied", request[c].method = "search_packages"
               PROVE  ShownOnce(rows[c], page[c])
    BY DEF OneRowPerGroup, ShownOnce
  <2>1. IsPage(page[c], request[c])
    BY DEF ListingInv, ShapesInv, CallType, Paged
  <2>2. PICK S \in SUBSET Items : rows[c] = DedupByGroup(Stamped(page[c], S))
    BY DEF Collapsed
  <2> QED
    BY <2>1, <2>2, CollapsedPage
<1> QED
  BY <1>1, <1>2, ListingInvariant, CollapsedNext, PTL DEF Spec

--------------------------------------------------------------------------------
(* What a search hides *)

\* A page is what its request finds, unless a look-up failed; of a search that failed
\* nothing is left.
IsOf(s, r, whole) ==
  /\ whole => s = Found(r)
  /\ r.method = "search_packages" => s = Found(r) \/ s = <<>>

PagesAreFound == \A q \in DOMAIN pages : pages[q] # None => IsOf(pages[q].rows, q, pages[q].whole)

CallsArePaged ==
  \A c \in Calls : pc[c] # "idle" /\ request[c].method \in Paged => IsOf(page[c], request[c], c \notin short)

\* A reply with the alternates of a group is its page, stamped.
AlternatesStamped ==
  \A c \in Calls : pc[c] = "replied" /\ request[c].method = "packages_for_app_id" =>
    \E S \in SUBSET Items : rows[c] = Stamped(page[c], S)

FoundInv == PagesAreFound /\ CallsArePaged /\ AlternatesStamped

\* The page of a request is kept under a key that finds the same.
LEMMA KeyFindsTheSame ==
  ASSUME NEW r \in Asked
  PROVE  Key(r).method = r.method /\ Found(Key(r)) = Found(r)
<1>1. r = [method |-> r.method, arg |-> r.arg, desktop |-> r.desktop]
  BY ListingAssumption DEF HitsAssumption
<1>2. CASE r.method = "packages_for_app_id" /\ Table(r.arg) # {}
  <2>1. Key(r) = [r EXCEPT !.desktop = FALSE]
    BY <1>2 DEF Key
  <2>2. Key(r) = [method |-> r.method, arg |-> r.arg, desktop |-> FALSE]
    BY <1>1, <2>1
  <2>3. AltEntries(Key(r)) = AltEntries(r)
    BY <1>2, <2>2 DEF AltEntries
  <2> QED
    BY <1>2, <2>2, <2>3 DEF Found
<1>3. CASE ~(r.method = "packages_for_app_id" /\ Table(r.arg) # {})
  BY <1>3 DEF Key
<1> QED
  BY <1>2, <1>3

LEMMA IsOfKey ==
  ASSUME NEW r \in Asked, NEW s, NEW whole PROVE IsOf(s, Key(r), whole) <=> IsOf(s, r, whole)
BY KeyFindsTheSame DEF IsOf

LEMMA FoundInit == Init => FoundInv
<1> SUFFICES ASSUME Init PROVE FoundInv
  OBVIOUS
<1>1. \A c \in Calls : pc[c] = "idle"
  BY DEF Init
<1>2. \A q \in DOMAIN pages : pages[q] = None
  BY DEF Init
<1> QED
  BY <1>1, <1>2 DEF FoundInv, PagesAreFound, CallsArePaged, AlternatesStamped

\* A call that begins has the page that is kept, from then on at the latest.
LEMMA AskFound ==
  ASSUME ShapesInv, FoundInv, NEW c \in Calls, NEW r \in Requests[c], r.method \in Paged,
         NEW s, NEW whole, IsOf(s, r, whole), Begin(c, r), pc' = [pc EXCEPT ![c] = "paged"],
         page' = [page EXCEPT ![c] = s], rows' = rows,
         short' = IF whole THEN short ELSE short \cup {c},
         pages' = pages \/ pages' = [pages EXCEPT ![Key(r)] = [rows |-> s, at |-> clock, whole |-> whole]]
  PROVE  FoundInv'
<1>1. r \in Asked /\ CallFunctions
  BY AskedRequests DEF ShapesInv
<1>2. PagesAreFound'
  <2> SUFFICES ASSUME NEW q \in DOMAIN pages', pages'[q] # None
               PROVE  IsOf(pages'[q].rows, q, pages'[q].whole)
    BY DEF PagesAreFound
  <2>1. CASE pages'[q] = pages[q]
    BY <2>1 DEF FoundInv, PagesAreFound
  <2>2. CASE q = Key(r) /\ pages'[q] = [rows |-> s, at |-> clock, whole |-> whole]
    BY <1>1, <2>2, IsOfKey
  <2> QED
    BY <2>1, <2>2
<1>3. CallsArePaged'
  <2> SUFFICES ASSUME NEW d \in Calls, pc'[d] # "idle", request'[d].method \in Paged
               PROVE  IsOf(page'[d], request'[d], d \notin short')
    BY DEF CallsArePaged
  <2>1. CASE d = c
    <3>1. request'[c] = r /\ page'[c] = s
      BY <1>1 DEF Begin, CallFunctions
    <3>2. c \notin short' => whole
      OBVIOUS
    <3> QED
      BY <2>1, <3>1, <3>2 DEF IsOf
  <2>2. CASE d # c
    <3>1. request'[d] = request[d] /\ page'[d] = page[d] /\ pc'[d] = pc[d]
      BY <1>1, <2>2 DEF Begin, CallFunctions
    <3>2. d \in short' <=> d \in short
      BY <2>2
    <3> QED
      BY <3>1, <3>2 DEF FoundInv, CallsArePaged, IsOf
  <2> QED
    BY <2>1, <2>2
<1>4. AlternatesStamped'
  <2> SUFFICES ASSUME NEW d \in Calls, pc'[d] = "replied", request'[d].method = "packages_for_app_id"
               PROVE  \E S \in SUBSET Items : rows'[d] = Stamped(page'[d], S)
    BY DEF AlternatesStamped
  <2>1. d # c
    BY <1>1 DEF CallFunctions
  <2>2. request'[d] = request[d] /\ page'[d] = page[d] /\ pc'[d] = pc[d]
    BY <1>1, <2>1 DEF Begin, CallFunctions
  <2> QED
    BY <2>2 DEF FoundInv, AlternatesStamped
<1> QED
  BY <1>2, <1>3, <1>4 DEF FoundInv

\* The others read no page.
LEMMA FoundFrame ==
  ASSUME FoundInv, UNCHANGED <<pages, page, short>>,
         \A d \in Calls : pc'[d] # "idle" /\ request'[d].method \in Paged =>
                            pc[d] # "idle" /\ request'[d] = request[d],
         AlternatesStamped'
  PROVE  FoundInv'
<1>1. PagesAreFound'
  BY DEF FoundInv, PagesAreFound
<1>2. CallsArePaged'
  BY DEF FoundInv, CallsArePaged
<1> QED
  BY <1>1, <1>2 DEF FoundInv

LEMMA StampedNext == ListingInv /\ FoundInv /\ [Next]_vars => AlternatesStamped'
<1> SUFFICES ASSUME ListingInv, FoundInv, [Next]_vars,
                    NEW c \in Calls, pc'[c] = "replied", request'[c].method = "packages_for_app_id"
             PROVE  \E S \in SUBSET Items : rows'[c] = Stamped(page'[c], S)
  BY DEF AlternatesStamped
<1>1. CASE pc[c] = "replied"
  BY <1>1, RepliedStays DEF ListingInv, FoundInv, AlternatesStamped
<1>2. CASE pc[c] # "replied"
  <2>1. ASSUME NEW r \in Requests[c], ListInstalled(c, r) PROVE FALSE
    BY <2>1 DEF ListInstalled, Begin, ListingInv, ShapesInv, CallFunctions
  <2>2. Reply(c)
    BY <1>2, <2>1, RepliesBy DEF ListingInv, Replies
  <2>3. request' = request /\ page' = page
    BY <2>2 DEF Reply, stampFrame
  <2>4. rows'[c] = Stamped(page[c], Slot(c).items)
    BY <2>2, <2>3 DEF Reply, ListingInv, ShapesInv, CallFunctions
  <2>5. Slot(c).items \in SUBSET Items
    BY <2>2, SlotTells, ReadsAreItems, CacheOfIs
  <2> QED
    BY <2>3, <2>4, <2>5
<1> QED
  BY <1>1, <1>2

LEMMA FoundNext == ListingInv /\ FoundInv /\ [Next]_vars => FoundInv'
<1> SUFFICES ASSUME ListingInv, FoundInv, [Next]_vars PROVE FoundInv'
  OBVIOUS
<1>1. AlternatesStamped' /\ ShapesInv /\ CallFunctions
  BY StampedNext DEF ListingInv, ShapesInv
<1>2. ASSUME NEW c \in Calls, NEW r \in Requests[c], AskCached(c, r) PROVE FoundInv'
  <2>1. r \in Asked
    BY AskedRequests
  <2>2. Key(r) \in DOMAIN pages /\ pages[Key(r)] # None
    BY <1>1, <1>2, <2>1 DEF AskCached, Cached, ShapesInv, PagesFit
  <2>3. IsOf(pages[Key(r)].rows, r, pages[Key(r)].whole)
    BY <2>1, <2>2, IsOfKey DEF FoundInv, PagesAreFound
  <2> DEFINE s == pages[Key(r)].rows
             whole == pages[Key(r)].whole
  <2>4. /\ r.method \in Paged /\ Begin(c, r) /\ pc' = [pc EXCEPT ![c] = "paged"]
        /\ page' = [page EXCEPT ![c] = s] /\ rows' = rows /\ pages' = pages
        /\ short' = IF whole THEN short ELSE short \cup {c}
    BY <1>2 DEF AskCached
  <2>5. IsOf(s, r, whole)
    BY <2>3
  <2> HIDE DEF s, whole
  <2> QED
    BY <1>1, <2>4, <2>5, AskFound
<1>3. ASSUME NEW c \in Calls, NEW r \in Requests[c], AskFetched(c, r) PROVE FoundInv'
  <2>1. IsOf(Found(r), r, TRUE)
    BY DEF IsOf
  <2> QED
    BY <1>1, <1>3, <2>1, AskFound DEF AskFetched, Fetch
<1>4. ASSUME NEW c \in Calls, NEW r \in Requests[c], AskDegraded(c, r) PROVE FoundInv'
  <2>1. PICK found \in Degraded(r) : Fetch(c, r, found, FALSE)
    BY <1>4 DEF AskDegraded
  <2>2. r.method = "search_packages" => found = <<>>
    BY DEF Degraded
  <2>3. IsOf(found, r, FALSE)
    BY <2>2 DEF IsOf
  <2> QED
    BY <1>1, <1>4, <2>1, <2>3, AskFound DEF AskDegraded, Fetch
<1>5. ASSUME NEW c \in Calls, NEW r \in Requests[c], ListInstalled(c, r) \/ AskPlugins(c, r) PROVE FoundInv'
  <2>1. r.method \notin Paged /\ Begin(c, r) /\ UNCHANGED <<pages, page, short>>
    BY <1>5 DEF ListInstalled, AskPlugins, Paged
  <2>2. \A d \in Calls \ {c} : pc'[d] = pc[d] /\ request'[d] = request[d]
    BY <1>1, <1>5 DEF ListInstalled, AskPlugins, Begin, CallFunctions
  <2>3. request'[c] = r
    BY <1>1, <2>1 DEF Begin, CallFunctions
  <2> QED
    BY <1>1, <2>1, <2>2, <2>3, FoundFrame
<1>6. ASSUME NEW c \in Calls, Join(c) \/ Drive(c) \/ Read(c) \/ ReadFails(c) \/ Reply(c) PROVE FoundInv'
  <2>1. pc[c] # "idle"
    BY <1>6 DEF Join, Drive, Read, ReadFails, Fetching, Reply
  <2>2. UNCHANGED <<pages, page, short, request>>
    BY <1>6 DEF Join, Drive, DriveSlot, Read, ReadFails, ReadPart, Reply, stampFrame
  <2>3. \A d \in Calls \ {c} : pc'[d] = pc[d]
    BY <1>1, <1>6 DEF Join, Drive, DriveSlot, Read, ReadFails, ReadPart, Reply, CallFunctions
  <2> QED
    BY <1>1, <2>1, <2>2, <2>3, FoundFrame
<1>7. ASSUME NEW i \in Touched, Write(i) \/ Edit(i) PROVE FoundInv'
  <2>1. UNCHANGED <<pages, page, short, pc, request>>
    BY <1>7 DEF Write, Edit, Put, callVars
  <2> QED
    BY <1>1, <2>1, FoundFrame
<1>8. CASE RollBack \/ Invalidate \/ Tick \/ UNCHANGED vars
  <2>1. UNCHANGED <<pages, page, short, pc, request>>
    BY <1>8 DEF RollBack, Put, Invalidate, Settle, Tick, vars, callVars
  <2> QED
    BY <1>1, <2>1, FoundFrame
<1> QED
  BY <1>2, <1>3, <1>4, <1>5, <1>6, <1>7, <1>8 DEF Next

\* What is asked of the index. A package without an app id that a search finds is in a
\* group whose name is nobody's app id; it is the only one of the group there, or the
\* search for the group that the alternates are made from finds it too, within
\* MAX_VARIANT_SEARCH; or the group has a dot, which the property leaves out.
IndexAgrees ==
  \A r \in Asked : r.method = "search_packages" =>
    \A p \in ToSet(Hits[r.arg]) : AppId[p] = None =>
      LET group == PackageEntry(p).group
      IN  /\ Table(group) = {}
          /\ \/ \A q \in ToSet(Hits[r.arg]) : PackageEntry(q).group = group => q = p
             \/ group \in Dotted
             \/ Pname[p] # None /\ p \in ToSet(Hits[group])

\* A row of each group is shown.
LEMMA GroupIsShown ==
  ASSUME NEW e, NEW n \in Nat, DOMAIN e = 1 .. n, NEW i \in 1 .. n, e[i].group # None
  PROVE  \E k \in DOMAIN DedupByGroup(e) : \E j \in 1 .. n :
           DedupByGroup(e)[k] = e[j] /\ e[j].group = e[i].group
<1>1. PICK l \in Leads(e) : e[l].group = e[i].group
  BY LeadOfGroup
<1>2. PICK k \in 1 .. Cardinality(Leads(e)) : InOrder(Leads(e))[k] = l
  BY <1>1, LeadIsListed
<1>3. PickedFrom(DedupByGroup(e), e, n)
  BY DedupedGroups
<1> QED
  BY <1>1, <1>2, <1>3 DEF PickedFrom

\* The alternates of a group are on a page that lists them all.
LEMMA AlternatesAreListed ==
  ASSUME NEW r \in Asked, r.method = "packages_for_app_id", NEW x \in AltEntries(r)
  PROVE  \E k \in DOMAIN Found(r) : Found(r)[k] = x
<1>1. IsFiniteSet(AltEntries(r)) /\ Found(r) = SetToSeq(AltEntries(r))
  BY AlternatesAreRows DEF Found
<1>2. /\ SetToSeq(AltEntries(r)) \in [1 .. Cardinality(AltEntries(r)) -> AltEntries(r)]
      /\ \E k \in 1 .. Cardinality(AltEntries(r)) : SetToSeq(AltEntries(r))[k] = x
  BY <1>1, SetToSeqLists
<1> QED
  BY <1>1, <1>2

\* A hit is among the alternates of its group, or the only hit of the group.
LEMMA HitIsAlternate ==
  ASSUME IndexAgrees, NEW r \in Asked, r.method = "search_packages", NEW p \in ToSet(Hits[r.arg]),
         NEW a \in Asked, a.method = "packages_for_app_id", PackageEntry(p).group = a.arg,
         Table(a.arg) # {} \/ ~(a.desktop \/ a.arg \in Dotted)
  PROVE  \/ Row(p, a.arg) \in AltEntries(a)
         \/ \A q \in ToSet(Hits[r.arg]) : PackageEntry(q).group = a.arg => q = p
<1>1. Variants(a.arg) \subseteq AltEntries(a)
  BY DEF AltEntries
<1>2. p \in Of("package")
  BY ListingAssumption DEF HitsAssumption, ToSet
<1>3. CASE AppId[p] # None
  <2>1. p \in Table(a.arg)
    BY <1>2, <1>3 DEF PackageEntry, Row, Table
  <2> QED
    BY <1>1, <2>1 DEF Variants
<1>4. CASE AppId[p] = None
  <2>1. Table(a.arg) = {} /\ a.arg \notin Dotted
    BY <1>4 DEF IndexAgrees
  <2>2. CASE Pname[p] # None /\ p \in ToSet(Hits[a.arg])
    <3>1. Pname[p] = a.arg
      BY <1>4, <2>2 DEF PackageEntry, Row
    <3> QED
      BY <1>1, <2>1, <2>2, <3>1 DEF Variants
  <2> QED
    BY <1>4, <2>1, <2>2 DEF IndexAgrees
<1> QED
  BY <1>3, <1>4

\* What a page stamped has of each item of it.
LEMMA HiddenFound ==
  ASSUME ListingInv, Collapsed, FoundInv, IndexAgrees, NEW c \in Calls, NEW d \in Calls,
         pc[c] = "replied", request[c].method = "search_packages",
         pc[d] = "replied", request[d].method = "packages_for_app_id", d \notin short,
         Table(request[d].arg) # {} \/ ~(request[d].desktop \/ request[d].arg \in Dotted),
         NEW i \in DOMAIN page[c], page[c][i].group = request[d].arg
  PROVE  \E row \in Shown(c) \cup Shown(d) : row.item = page[c][i].item
<1> DEFINE r == request[c]
           a == request[d]
           s == page[c]
           p == s[i].item
<1>1. r \in Asked /\ a \in Asked /\ IsPage(s, r) /\ IsPage(page[d], a)
  BY AskedRequests DEF ListingInv, ShapesInv, CallType, Paged
<1>2. s = Found(r) /\ page[d] = Found(a)
  <2>1. s = Found(r) \/ s = <<>>
    BY DEF FoundInv, CallsArePaged, IsOf, Paged
  <2>2. page[d] = Found(a)
    BY DEF FoundInv, CallsArePaged, IsOf, Paged
  <2> QED
    BY <2>1, <2>2
<1>3. /\ \A j \in DOMAIN s : s[j].item \in ToSet(Hits[r.arg]) /\ s[j].group = PackageEntry(s[j].item).group
      /\ \A j, k \in DOMAIN s : s[j].item = s[k].item => j = k
      /\ s[i].group # None
      /\ i \in DOMAIN s
  <2>1. s = [j \in DOMAIN Hits[r.arg] |-> PackageEntry(Hits[r.arg][j])]
    BY <1>2 DEF Found
  <2>2. \A j \in DOMAIN s : s[j] = PackageEntry(Hits[r.arg][j]) /\ s[j].item = Hits[r.arg][j]
    <3>1. \A q : PackageEntry(q).item = q
      BY DEF PackageEntry, Row
    <3> HIDE DEF s
    <3> QED
      BY <2>1, <3>1
  <2>3. \A j \in DOMAIN s : Hits[r.arg][j] \in ToSet(Hits[r.arg])
    BY <2>1 DEF ToSet
  <2> QED
    BY <1>1, <2>2, <2>3 DEF IsPage
<1> HIDE DEF r, a, s
<1>4. CASE Row(p, a.arg) \in AltEntries(a)
  <2>1. PICK k \in DOMAIN page[d] : page[d][k] = Row(p, a.arg)
    BY <1>1, <1>2, <1>4, AlternatesAreListed DEF a
  <2>2. PICK S \in SUBSET Items : rows[d] = Stamped(page[d], S)
    BY DEF FoundInv, AlternatesStamped
  <2>3. k \in DOMAIN rows[d] /\ rows[d][k].item = page[d][k].item
    BY <1>1, <2>2, StampedRows DEF IsPage
  <2>4. rows[d][k] \in Shown(d) /\ rows[d][k].item = p
    BY <2>1, <2>3 DEF Shown, Row
  <2> QED
    BY <2>4 DEF s
<1>5. CASE \A q \in ToSet(Hits[r.arg]) : PackageEntry(q).group = a.arg => q = p
  <2>1. PICK S \in SUBSET Items : rows[c] = DedupByGroup(Stamped(s, S))
    BY DEF Collapsed, s
  <2>2. PICK n \in Nat :
          /\ DOMAIN s = 1 .. n /\ DOMAIN Stamped(s, S) = 1 .. n
          /\ \A j \in 1 .. n : Stamped(s, S)[j].item = s[j].item /\ Stamped(s, S)[j].group = s[j].group
    BY <1>1, StampedPage
  <2>3. \E k \in DOMAIN rows[c] : \E j \in 1 .. n :
          rows[c][k] = Stamped(s, S)[j] /\ Stamped(s, S)[j].group = Stamped(s, S)[i].group
    BY <1>3, <2>1, <2>2, GroupIsShown
  <2>4. PICK k \in DOMAIN rows[c], j \in 1 .. n :
          rows[c][k] = Stamped(s, S)[j] /\ Stamped(s, S)[j].group = Stamped(s, S)[i].group
    BY <2>3
  <2>5. s[j].group = a.arg
    BY <1>3, <2>2, <2>4 DEF s, a
  <2>6. s[j].item = p
    BY <1>3, <1>5, <2>2, <2>5
  <2>7. rows[c][k] \in Shown(c) /\ rows[c][k].item = p
    BY <2>2, <2>4, <2>6 DEF Shown
  <2> QED
    BY <2>7 DEF s
<1> QED
  <2>1. p \in ToSet(Hits[r.arg]) /\ PackageEntry(p).group = a.arg
    BY <1>3 DEF s, a
  <2> QED
    BY <1>1, <1>4, <1>5, <2>1, HitIsAlternate DEF r, a

\* entry.rs, dedup_by_group: the variants "stay reachable" among the alternates. For any
\* index that agrees, calls and times: what one search collapses, the look-up of the
\* group shows, unless it failed, or the page it was given did.
THEOREM HiddenVariantsAreFound == ASSUME IndexAgrees PROVE Spec => []HiddenStayReachable
<1>1. Init => ListingInv /\ Collapsed /\ FoundInv
  BY ListingInvariant, FoundInit DEF Init, Collapsed
<1>2. (ListingInv /\ Collapsed /\ FoundInv) /\ [Next]_vars => (ListingInv /\ Collapsed /\ FoundInv)'
  BY ListingInvariant, CollapsedNext, FoundNext
<1>3. ListingInv /\ Collapsed /\ FoundInv => HiddenStayReachable
  BY HiddenFound DEF HiddenStayReachable
<1> QED
  BY <1>1, <1>2, <1>3, PTL DEF Spec

================================================================================
