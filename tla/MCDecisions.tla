---------------------------- MODULE MCDecisions ----------------------------
(* Bounded inputs for Decisions. *)
EXTENDS Decisions

SmallText == {"", "jp", "hk", "ct", "ct6", "x", "y", "k1", "k2"}
SmallOccurs == {<<t, t>> : t \in SmallText} \cup {<<"", t>> : t \in SmallText}
                 \cup {<<"ct", "ct6">>}

Exit(slug, key, alphabet, online) ==
  [slug |-> slug, name |-> slug, online |-> online,
   key |-> [bytes |-> key, len |-> 32, alphabet |-> alphabet]]
Ingress(name, ips) == [name |-> name, ipv4 |-> ips, front_proxy |-> "x"]

\* With a slug and a name that appear twice.
HostLists ==
  {<<Exit("jp", k, "x", on)>> : k \in {"k1", "k2"}, on \in BOOLEAN} \cup
  {<<Exit("hk", "k2", "x", TRUE), Exit("jp", "k1", "x", on)>> : on \in BOOLEAN} \cup
  {<<Exit("jp", "k1", "y", TRUE)>>, <<Exit("jp", "k2", "x", TRUE), Exit("jp", "k1", "x", TRUE)>>}
GroupLists ==
  {<<Ingress("ct", ips)>> : ips \in {<<"x">>, <<"x", "y">>, <<"y", "x">>, <<"x", "x">>}} \cup
  {<<Ingress("ct6", <<"y">>), Ingress("ct", <<"x">>)>>} \cup
  {<<Ingress("ct", <<"x">>), Ingress("ct6", <<"y">>)>>} \cup
  {<<Ingress("ct", <<"y">>), Ingress("ct", <<"x">>)>>}
Roots == {<<"x">>, <<"x", "y">>, <<"y", "x">>}

SmallInventories ==
  {[client_id |-> "x", root_domains |-> r, hosts |-> h, entry_groups |-> g] :
     r \in Roots, h \in HostLists, g \in GroupLists}

\* Up to three seconds and around the default of fifteen, and none.
Durations == -1..(3 * Ticks) \cup (15 * Ticks - 1)..(16 * Ticks)
SmallHealth == [timeout : Durations, interval : Durations]

SmallVersions == UNION {[1..n -> {Junk, 0, 1, 2}] : n \in 1..2} \cup [1..3 -> {Junk, 0, 1}]

Results == [ok : {TRUE}, rtt : 1..2] \cup [ok : {FALSE}, rtt : {0}]
SmallPools == UNION {[1..n -> Results] : n \in 1..4}
SmallCaps == 0..3

SmallOptionSets ==
  [missing : BOOLEAN, entries : {<<>>, <<"x">>, <<"x", "y">>, <<"x", "x">>}, port : {0, 1, 65535, 65536},
   front : {"", "proxy", "malformed"}, udp : BOOLEAN, flow : {"", "none", "vision", "other"}]

Answers == {[fate |-> f, ips |-> <<>>] : f \in {"dead", "error"}} \cup
           {[fate |-> "answers", ips |-> s] :
              s \in {<<>>, <<"live">>, <<"dead">>, <<"dead", "live">>, <<"refuses", "live">>}}
SmallDials == [1..2 -> Answers \X Answers]
=============================================================================
