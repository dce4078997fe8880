----------------------------- MODULE Selection -----------------------------
(***************************************************************************)
(* What is chosen from an inventory (SelectHost, SelectGroup, SelectRoot   *)
(* of internal/inventory/inventory.go) and how two inventories differ      *)
(* (internal/inventory/diff.go).                                           *)
(*                                                                         *)
(* A selection is the set of its possible results: none when it fails,     *)
(* several when the code draws one at random.                              *)
(***************************************************************************)
EXTENDS Inventory, FiniteSets

CONSTANT Occurs     \* <<part, whole>>: part is in whole, or equal but for case

ASSUME OccursAssumption ==
  /\ Occurs \subseteq Text \X Text
  /\ \A t \in Text : <<t, t>> \in Occurs /\ <<"", t>> \in Occurs

Elements(s) == {s[i] : i \in DOMAIN s}
Earliest(indices) == {i \in indices : \A j \in indices : i <= j}

SelectHost(inv, slug) ==
  LET fits == {i \in DOMAIN inv.hosts : IF slug = "" THEN inv.hosts[i].online
                                                     ELSE inv.hosts[i].slug = slug}
  IN  {inv.hosts[i] : i \in Earliest(fits)}

\* faulty: the last group that fits
SelectLastGroup(inv, name) ==
  LET fits == {i \in DOMAIN inv.entry_groups :
                 name = "" \/ <<name, inv.entry_groups[i].name>> \in Occurs}
  IN  {inv.entry_groups[i] : i \in {j \in fits : \A k \in fits : k <= j}}

SelectGroup(inv, name) ==
  LET fits == {i \in DOMAIN inv.entry_groups :
                 name = "" \/ <<name, inv.entry_groups[i].name>> \in Occurs}
  IN  {inv.entry_groups[i] : i \in Earliest(fits)}

\* A pinned root wins, then the cached one while it is in the pool.
SelectRoot(inv, pinned, cached) ==
  LET pool == Elements(inv.root_domains) IN
  IF pinned # "" THEN {pinned} \cap pool
  ELSE IF cached # "" /\ cached \in pool THEN {cached} ELSE pool

-----------------------------------------------------------------------------
(* Compare                                                                 *)

\* hostsBySlug, groupsByName: of entries with the same name the last one counts.
Latest(indices) == CHOOSE i \in indices : \A j \in indices : j <= i

Slugs(inv) == {h.slug : h \in Elements(inv.hosts)}
HostBySlug(inv, slug) ==
  inv.hosts[Latest({i \in DOMAIN inv.hosts : inv.hosts[i].slug = slug})]

Names(inv) == {g.name : g \in Elements(inv.entry_groups)}
GroupByName(inv, name) ==
  inv.entry_groups[Latest({i \in DOMAIN inv.entry_groups : inv.entry_groups[i].name = name})]

\* sameAddresses: the same addresses, as often each, in any order.
SameLength(a, b) == Len(a) = Len(b)      \* faulty: only the lengths are compared

SameAddresses(a, b) ==
  /\ Len(a) = Len(b)
  /\ \A x \in Elements(a) :
       Cardinality({i \in DOMAIN a : a[i] = x}) = Cardinality({i \in DOMAIN b : b[i] = x})

Compare(prev, next) ==
  LET hosts  == Slugs(prev) \cap Slugs(next)
      groups == Names(prev) \cap Names(next)
  IN
  [HostsAdded    |-> Slugs(next) \ Slugs(prev),
   HostsRemoved  |-> Slugs(prev) \ Slugs(next),
   WentOnline    |-> {s \in hosts : ~HostBySlug(prev, s).online /\ HostBySlug(next, s).online},
   WentOffline   |-> {s \in hosts : HostBySlug(prev, s).online /\ ~HostBySlug(next, s).online},
   KeysRotated   |-> {s \in hosts : HostBySlug(prev, s).key # HostBySlug(next, s).key},
   GroupsAdded   |-> Names(next) \ Names(prev),
   GroupsRemoved |-> Names(prev) \ Names(next),
   PoolsChanged  |-> {n \in groups : ~SameAddresses(GroupByName(prev, n).ipv4,
                                                    GroupByName(next, n).ipv4)},
   RootsAdded    |-> Elements(next.root_domains) \ Elements(prev.root_domains),
   RootsRemoved  |-> Elements(prev.root_domains) \ Elements(next.root_domains)]

Empty(changes) == \A kind \in DOMAIN changes : changes[kind] = {}
=============================================================================
