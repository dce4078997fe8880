------------------------------ MODULE Resolver ------------------------------
(***************************************************************************)
(* From the control hostname to a connection: DNS over HTTPS               *)
(* (internal/resolver/doh.go) and dialViaResolver                          *)
(* (internal/control/transport.go), with the seconds they take.            *)
(*                                                                         *)
(* What a DoH service makes of a query is [fate, ips]: "dead" runs into    *)
(* the time limit, "error" is an error at once (also a response code other *)
(* than success), "answers" brings addresses, perhaps none.  An address is *)
(* "dead", "refuses" or "live".                                            *)
(***************************************************************************)
EXTENDS Integers, Sequences, FiniteSets

DoHLimit     == 10    \* NewDoH: one exchange
DialLimit    == 10    \* net.Dialer.Timeout: one address
RequestLimit == 30    \* NewHardenedClient: a whole request

\* Those tried of n in order, the first of `good` being the last one tried.
Tried(n, good) == {i \in 1..n : \A j \in good : i <= j}
Waits(tried, fate) == Cardinality({i \in tried : fate[i] = "dead"})

\* faulty: the last service that answers is believed
QueryLast(upstreams) ==
  LET good == {i \in DOMAIN upstreams : upstreams[i].fate = "answers"} IN
  [ips  |-> IF good = {} THEN <<>>
            ELSE upstreams[CHOOSE i \in good : \A j \in good : j <= i].ips,
   time |-> DoHLimit * Waits(DOMAIN upstreams, [i \in DOMAIN upstreams |-> upstreams[i].fate])]

\* DoH.query: the first service that answers; the others are asked only after an
\* error, and an answer without addresses is an answer.
Query(upstreams) ==
  LET good  == {i \in DOMAIN upstreams : upstreams[i].fate = "answers"}
      tried == Tried(Len(upstreams), good)
  IN  [ips  |-> IF good = {} THEN <<>>
                ELSE upstreams[CHOOSE i \in good : \A j \in good : i <= j].ips,
       time |-> DoHLimit * Waits(tried, [i \in DOMAIN upstreams |-> upstreams[i].fate])]

\* LookupIP: A, then AAAA, whatever came of A; an error when neither has any.
LookupIP(a, aaaa) ==
  [ips |-> Query(a).ips \o Query(aaaa).ips, time |-> Query(a).time + Query(aaaa).time]

\* dialViaResolver: the addresses in order until one connects.
DialViaResolver(a, aaaa) ==
  LET found == LookupIP(a, aaaa)
      live  == {i \in DOMAIN found.ips : found.ips[i] = "live"}
  IN  [connected |-> live # {},
       time |-> found.time + DialLimit * Waits(Tried(Len(found.ips), live), found.ips)]
=============================================================================
