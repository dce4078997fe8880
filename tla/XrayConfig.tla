----------------------------- MODULE XrayConfig -----------------------------
(***************************************************************************)
(* What the rendered configuration says (internal/xcfg): the defaults and  *)
(* the times of the health checks, the outbounds and who goes through      *)
(* whom, and the routing rules with what Xray makes of them; and the       *)
(* addresses it is rendered for (internal/probe, rankEntries).             *)
(*                                                                         *)
(* A destination is given by address or by name.  Addresses are private,   *)
(* mainland or foreign; a name is on the mainland list (geosite:cn) or not,*)
(* and stands for an address either way.  Durations are in Ticks a second: *)
(* time.Duration has a thousand million, and nothing depends on how many.  *)
(***************************************************************************)
EXTENDS Integers, Sequences, FiniteSets

CONSTANT Ticks
ASSUME TicksAssumption == Ticks \in Nat \ {0}

-----------------------------------------------------------------------------
(* Options.applyDefaults                                                   *)

ProbeTimeout(o) == IF o.timeout <= 0 THEN 15 * Ticks ELSE o.timeout

\* faulty: an interval equal to the timeout is kept
ProbeIntervalEqual(o) == IF o.interval < ProbeTimeout(o) THEN 4 * ProbeTimeout(o) ELSE o.interval

ProbeInterval(o) == IF o.interval <= ProbeTimeout(o) THEN 4 * ProbeTimeout(o) ELSE o.interval

\* durationString: whole seconds, the rest cut off.
Seconds(d) == d \div Ticks

PingConfig(o) == [interval |-> Seconds(ProbeInterval(o)), timeout |-> Seconds(ProbeTimeout(o))]

\* What Xray makes of a timeout: one of 0s is not given, and its default is five
\* seconds (README.md:308).
TimeoutInXray(ping) == IF ping.timeout = 0 THEN 5 ELSE ping.timeout

\* An empty flow is the default; "none" is none, and is left out of the outbound.
Flow(o) ==
  LET given == IF o.flow = "" THEN "vision" ELSE IF o.flow = "none" THEN "" ELSE o.flow
  IN  IF o.udp /\ given = "vision" THEN "vision-udp443" ELSE given

-----------------------------------------------------------------------------
(* routingRules                                                            *)

Rule(kind, of, outbound) == [kind |-> kind, of |-> of, outbound |-> outbound]

DirectRule == Rule("ip", "private", "direct")
SmartRules == <<Rule("domain", "mainland", "direct"), Rule("ip", "mainland", "direct")>>
CatchAll   == Rule("network", "any", "tunnel")

\* faulty: the smart rules come after the catch-all
RulesAfter(mode) == <<DirectRule, CatchAll>> \o (IF mode = "smart" THEN SmartRules ELSE <<>>)

Rules(mode) == <<DirectRule>> \o (IF mode = "smart" THEN SmartRules ELSE <<>>) \o <<CatchAll>>

-----------------------------------------------------------------------------
(* Xray's router: the first rule that applies                              *)

Applies(rule, d, resolved) ==
  \/ rule.kind = "network"
  \/ rule.kind = "domain" /\ d.name = rule.of
  \/ rule.kind = "ip" /\ (d.name = "" \/ resolved) /\ d.address = rule.of

Matching(mode, d, resolved) == {i \in DOMAIN Rules(mode) : Applies(Rules(mode)[i], d, resolved)}

FirstOf(mode, indices) ==
  IF indices = {} THEN "first outbound"
  ELSE Rules(mode)[CHOOSE i \in indices : \A j \in indices : i <= j].outbound

\* IPOnDemand resolves a name for the first IP rule it meets; IPIfNonMatch goes
\* through the rules again, the name resolved, when none has applied.
Route(mode, strategy, d) ==
  LET first == Matching(mode, d, strategy = "IPOnDemand") IN
  IF first = {} /\ strategy = "IPIfNonMatch"
  THEN FirstOf(mode, Matching(mode, d, TRUE))
  ELSE FirstOf(mode, first)

-----------------------------------------------------------------------------
(* RankTCP, Reachable and rankEntries                                      *)

\* What was probed is [ok, rtt]; an address that did not answer has no time, and
\* equals stay in the order of the pool.
Before(pool, j, i) ==
  \/ pool[j].ok /\ ~pool[i].ok
  \/ pool[j].ok = pool[i].ok /\ pool[j].rtt < pool[i].rtt
  \/ pool[j].ok = pool[i].ok /\ pool[j].rtt = pool[i].rtt /\ j < i

\* The members of S in the order R, which is strict and total on S.
InOrder(S, R) ==
  [n \in 1..Cardinality(S) |->
     CHOOSE i \in S : Cardinality({j \in S : <<j, i>> \in R}) = n - 1]

RankTCP(pool) ==
  InOrder(DOMAIN pool, {p \in (DOMAIN pool) \X (DOMAIN pool) : Before(pool, p[1], p[2])})

\* Those of the ranked that answered, in their order.
Reachable(order, pool) ==
  LET answered == {k \in DOMAIN order : pool[order[k]].ok}
      places   == InOrder(answered, {p \in answered \X answered : p[1] < p[2]})
  IN  [n \in DOMAIN places |-> order[places[n]]]

Capped(order, max) == IF max > 0 /\ Len(order) > max THEN SubSeq(order, 1, max) ELSE order

\* faulty: the pool is capped before it is ranked
RankCapped(pool, max) == Reachable(RankTCP(Capped(pool, max)), pool)

\* The addresses, by their place in the pool; none is an error.
RankEntries(pool, max) == Capped(Reachable(RankTCP(pool), pool), max)

-----------------------------------------------------------------------------
(* Build                                                                   *)

Tag(kind, n) == [kind |-> kind, n |-> n]
Outbound(tag, address, via, flow) == [tag |-> tag, address |-> address, via |-> via, flow |-> flow]
Nothing == Tag("none", 0)

FrontTag == Tag("front-proxy", 0)
EntryOutbound(o, i) ==
  Outbound(Tag("entry-", i - 1), o.entries[i], IF o.front = "" THEN Nothing ELSE FrontTag, Flow(o))

NoFrontOutbound(o) == <<>>      \* faulty: the front proxy is named and left out
FrontOutbound(o) == IF o.front = "" THEN <<>> ELSE <<Outbound(FrontTag, o.front, Nothing, "")>>
DirectOutbound == Outbound(Tag("direct", 0), "", Nothing, "")

NoDocument == [outbounds |-> <<>>]

\* validate, and splitEndpoint of the front proxy.
Refused(o) == o.missing \/ o.entries = <<>> \/ o.port \notin 1..65535 \/ o.front = "malformed"

Build(o) ==
  IF Refused(o) THEN NoDocument
  ELSE [outbounds |-> [i \in DOMAIN o.entries |-> EntryOutbound(o, i)] \o FrontOutbound(o)
                        \o <<DirectOutbound>>,
        selector  |-> "entry-",
        fallback  |-> Tag("entry-", 0),
        direct    |-> Tag("direct", 0)]

\* The outbounds the balancer and the health checks choose from, by prefix.
Selected(doc) == {i \in DOMAIN doc.outbounds : doc.outbounds[i].tag.kind = doc.selector}
=============================================================================
