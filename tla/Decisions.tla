----------------------------- MODULE Decisions -----------------------------
(***************************************************************************)
(* What the program works out without keeping state: which of two          *)
(* inventories is news (Selection), what a configuration says              *)
(* (XrayConfig), the order of versions (Versions), and how long an address *)
(* takes (Resolver).  A state is one question; the polls are a sequence,   *)
(* as the updater's are.                                                   *)
(***************************************************************************)
EXTENDS Selection, XrayConfig, Versions, Resolver

CONSTANTS        \* what may be asked about
  Inventories,   \* what a poll receives
  Health,        \* -health-timeout and -health-interval
  SomeVersions,
  Pools, Caps,   \* what the probe of a pool found, and -max-entries
  OptionSets,    \* the options of a configuration
  Dials          \* of each DoH service, what it makes of the A and the AAAA query

Answer == [fate : {"dead", "error", "answers"}, ips : Seq({"dead", "refuses", "live"})]

ASSUME DecisionsAssumption ==
  /\ Inventories \subseteq InventoryType
  /\ Health \subseteq [timeout : Int, interval : Int]
  /\ SomeVersions \subseteq Seq(Nat \cup {Junk})
  /\ Pools \subseteq Seq([ok : BOOLEAN, rtt : Nat]) /\ Caps \subseteq Int
  /\ OptionSets \subseteq
       [missing : BOOLEAN, entries : Seq(Text), port : Int, front : STRING, udp : BOOLEAN, flow : STRING]
  /\ Dials \subseteq Seq(Answer \X Answer)

Destinations ==
  [name : {"", "mainland", "unlisted"}, address : {"private", "mainland", "foreign"}]
Routes == [mode : {"global", "smart"}, strategy : {"", "AsIs", "IPIfNonMatch", "IPOnDemand"},
           to : Destinations]

VARIABLES asked, input

Init ==
  \/ asked = "poll" /\ \E i \in Inventories : input = <<i, i>>
  \/ asked = "health" /\ input \in Health
  \/ asked = "route" /\ input \in Routes
  \/ asked = "version" /\ input \in SomeVersions \X SomeVersions
  \/ asked = "pool" /\ input \in Pools \X Caps
  \/ asked = "document" /\ input \in OptionSets
  \/ asked = "dial" /\ input \in Dials

\* updater.Run: what was received is what the next poll is compared with.
Poll ==
  /\ asked = "poll"
  /\ \E i \in Inventories : input' = <<input[2], i>>
  /\ UNCHANGED asked

Spec == Init /\ [][Poll]_<<asked, input>>

-----------------------------------------------------------------------------
\* What an operator sees of an inventory; of exits with one slug, and of ingresses
\* with one name, the last.
ExitsOf(i) ==
  {<<i.hosts[n].slug, i.hosts[n].online, i.hosts[n].key>> :
     n \in {k \in DOMAIN i.hosts :
              \A m \in DOMAIN i.hosts : m > k => i.hosts[m].slug # i.hosts[k].slug}}
PoolOf(ips) == {<<ip, Cardinality({n \in DOMAIN ips : ips[n] = ip})>> : ip \in Elements(ips)}
PoolsOf(i) ==
  {<<i.entry_groups[n].name, PoolOf(i.entry_groups[n].ipv4)>> :
     n \in {k \in DOMAIN i.entry_groups :
              \A m \in DOMAIN i.entry_groups : m > k => i.entry_groups[m].name # i.entry_groups[k].name}}
RootsOf(i)  == Elements(i.root_domains)

\* A poll is announced exactly when exits, their keys, pools or roots differ: a
\* reshuffle is not a change, and a key in another alphabet is (diff.go).
AnnouncesWhatMoved ==
  asked = "poll" =>
    (Empty(Compare(input[1], input[2])) <=>
       <<ExitsOf(input[1]), PoolsOf(input[1]), RootsOf(input[1])>> =
       <<ExitsOf(input[2]), PoolsOf(input[2]), RootsOf(input[2])>>)

\* "SelectGroup returns the named entry group" (inventory.go:146), as long as no
\* group before it has that name in its own: then `entry <#>`, which goes through
\* the full name (console.go:239-241), selects another row.
NamedGroupIsSelected ==
  asked = "poll" =>
    LET groups == input[2].entry_groups IN
    \A n \in DOMAIN groups :
      (\A m \in 1..(n - 1) : <<groups[n].name, groups[m].name>> \notin Occurs) =>
        SelectGroup(input[2], groups[n].name) = {groups[n]}

\* "interval must exceed timeout" (README.md:301-307): what is rendered does, as Xray
\* reads it, for a timeout of a second at least and an interval that is not between
\* the timeout and a second more, which all whole seconds are.  With other fractions
\* it does not, although it is said of any (FractionsAreLost in DecisionsProofs).
HealthRoundsApart ==
  asked = "health" =>
    LET timeout == ProbeTimeout(input) IN
    timeout >= Ticks /\ (input.interval <= timeout \/ input.interval >= timeout + Ticks) =>
      PingConfig(input).interval > TimeoutInXray(PingConfig(input))

\* The entries are the fastest that answered, as many as may be, fastest first: the
\* balancer's fallback is the fastest of all (README.md:296-298, xcfg.go:176).
EntriesAreTheFastest ==
  asked = "pool" =>
    LET pool    == input[1]
        entries == RankEntries(pool, input[2])
        alive   == {i \in DOMAIN pool : pool[i].ok}
    IN  /\ Elements(entries) \subseteq alive
        /\ Cardinality(Elements(entries)) = Len(entries)
        /\ \/ Len(entries) = Cardinality(alive)
           \/ input[2] > 0 /\ Len(entries) = input[2] /\ Len(entries) < Cardinality(alive)
        /\ \A n \in DOMAIN entries, i \in alive :
             pool[i].rtt < pool[entries[n]].rtt => \E m \in 1..(n - 1) : entries[m] = i

\* What the document names is in it; the balancer chooses among all the entries and
\* nothing else, and each goes through the front proxy, if there is one, which goes
\* through nothing (xcfg.go:159-198, 235-237).
TunnelThroughFront ==
  asked = "document" /\ Build(input) # NoDocument =>
    LET doc   == Build(input)
        out   == doc.outbounds
        tags  == {o.tag : o \in Elements(out)}
        front == {o \in Elements(out) : o.tag.kind = "front-proxy"}
    IN  /\ {doc.direct, doc.fallback} \cup {o.via : o \in Elements(out)} \subseteq tags \cup {Nothing}
        /\ Cardinality(tags) = Len(out)
        /\ [i \in Selected(doc) |-> out[i].address] = input.entries
        /\ doc.fallback = out[1].tag
        /\ (front = {}) = (input.front = "")
        /\ \A i \in DOMAIN out : out[i].via = Nothing <=> (i \notin Selected(doc) \/ front = {})

\* Both modes send private addresses straight out and everything else through the
\* tunnel, but for mainland destinations in smart mode; a destination given by
\* name counts as mainland when the list has it, and under IPOnDemand by its
\* address too (README.md:183-216).
RoutesAsDocumented ==
  asked = "route" =>
    LET d == input.to
        seen == IF d.name = "" \/ input.strategy = "IPOnDemand" THEN d.address ELSE "unseen"
        direct == \/ seen = "private"
                  \/ input.mode = "smart" /\ (d.name = "mainland" \/ seen = "mainland")
    IN  input.strategy # "IPIfNonMatch" =>
          Route(input.mode, input.strategy, d) = (IF direct THEN "direct" ELSE "tunnel")

\* "Pass -route-domain-strategy IPIfNonMatch to have the router resolve unmatched
\* names locally and test them against the IP rules too" (README.md:216-217).
UnmatchedNamesAreResolved ==
  asked = "route" /\ input.strategy = "IPIfNonMatch" /\ input.to.name = "unlisted"
    /\ input.mode = "smart" /\ input.to.address = "mainland" =>
      Route(input.mode, input.strategy, input.to) = "direct"

\* b with some of its malformed components replaced.
Repairs(c, b) == DOMAIN c = DOMAIN b /\ \A i \in DOMAIN b : b[i] \in {Junk, c[i]}

\* The floor is adopted when the version in use is less (session.go:192), which
\* takes an order: never both ways, transitive, and equal for every third version
\* when neither is less.  A malformed component makes no version newer than a number
\* in its place does; "should not be treated as newer than a real one", which
\* version.go:28-29 says, does not hold (MalformedMayBeNewer in DecisionsProofs).
VersionsAreOrdered ==
  asked = "version" =>
    LET a == input[1]
        b == input[2]
    IN  /\ ~(VersionLess(a, b) /\ VersionLess(b, a))
        /\ \A c \in SomeVersions :
             /\ VersionLess(a, b) /\ VersionLess(b, c) => VersionLess(a, c)
             /\ ~VersionLess(a, b) /\ ~VersionLess(b, a) =>
                  (VersionLess(a, c) <=> VersionLess(b, c))
             /\ VersionLess(a, b) /\ Repairs(c, b) => VersionLess(a, c)

\* One dead DoH service or one dead address costs no request: as long as the first
\* service to answer a query lists a live address it is reached, and within the
\* time of a request when one thing at most runs into its limit
\* (doh.go:111-127, transport.go:93, 204-229).
OneDeadHopIsSurvived ==
  asked = "dial" =>
    LET a    == [i \in DOMAIN input |-> input[i][1]]
        aaaa == [i \in DOMAIN input |-> input[i][2]]
        Lists(q) == \E i \in DOMAIN q : /\ q[i].fate = "answers" /\ "live" \in Elements(q[i].ips)
                                        /\ \A j \in 1..(i - 1) : q[j].fate # "answers"
        DeadIps(q) == UNION {{<<i, n>> : n \in {k \in DOMAIN q[i].ips : q[i].ips[k] = "dead"}} :
                               i \in DOMAIN q}
        deadHops == Cardinality({i \in DOMAIN input : "dead" \in {a[i].fate, aaaa[i].fate}})
                      + Cardinality(DeadIps(a)) + Cardinality(DeadIps(aaaa))
        dial == DialViaResolver(a, aaaa)
    IN  /\ dial.connected <=> Lists(a) \/ Lists(aaaa)
        /\ dial.connected /\ deadHops <= 1 => dial.time < RequestLimit
=============================================================================
