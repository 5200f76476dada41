------------------------------- MODULE MCListing -------------------------------
(* Listing with an app of two curated variants and a module, a tool of two       *)
(* variants under one pname, a module that has the name of a package, a plugin.  *)
EXTENDS Listing

CONSTANTS c1, c2

Package(n) == [kind |-> "package", name |-> n]
Module(n) == [kind |-> "module", name |-> n]
AddOn == [kind |-> "plugin", name |-> "ublock"]

AllItems ==
  {Package(n) : n \in {"firefox", "firefox-bin", "nvtop-amd", "nvtop-intel"}}
    \cup {Module("firefox"), AddOn}

AppIds ==
  [i \in AllItems |->
     IF i.name \in {"firefox", "firefox-bin"} THEN "org.mozilla.firefox" ELSE None]

Pnames ==
  [i \in AllItems |-> IF i.name \in {"nvtop-amd", "nvtop-intel"} THEN "nvtop" ELSE i.name]

Found1 == <<Package("nvtop-amd"), Package("firefox"), Package("nvtop-intel"), Package("firefox-bin")>>
AllHits ==
  [q \in {"all", "nvtop", "modules"} |->
     CASE q = "all" -> Found1
       [] q = "nvtop" -> <<Package("nvtop-amd"), Package("nvtop-intel")>>
       [] q = "modules" -> <<Module("firefox")>>]

DottedIds == {"org.mozilla.firefox"}

Ask(method, arg, desktop) == [method |-> method, arg |-> arg, desktop |-> desktop]

AnyRequest ==
  {Ask("search_packages", "all", FALSE),
   Ask("search_modules", "modules", FALSE),
   Ask("packages_for_app_id", "org.mozilla.firefox", TRUE),
   Ask("packages_for_app_id", "nvtop", FALSE),
   Ask("list_installed_packages", None, FALSE),
   Ask("list_installed_modules", None, FALSE),
   Ask("list_module_plugins", "firefox", FALSE),
   Ask("list_installed_plugins", "", FALSE)}

AtFirst == {Module("firefox"), Package("nvtop-intel")}
Changing == {Package("firefox-bin"), AddOn}

TwoCalls == {c1, c2}

\* One call makes two kinds of requests, the other any.
AllRequests ==
  [c \in TwoCalls |->
     IF c = c2 THEN AnyRequest
     ELSE {r \in AnyRequest : r.method \in {"search_packages", "list_installed_plugins"}}]
================================================================================
