------------------------------ MODULE MCPanel ------------------------------
(* Constants of the Panel runs. *)
EXTENDS Panel

SmallText == {"", "jp", "hk", "ct", "cu", "x", "y", "c1", "c2", "k1", "k2"}
SmallOccurs == {<<t, t>> : t \in SmallText} \cup {<<"", t>> : t \in SmallText}

Exit(slug, key) ==
  [slug |-> slug, name |-> slug, online |-> TRUE,
   key |-> [bytes |-> key, len |-> 32, alphabet |-> "x"]]
Ingress(name) == [name |-> name, ipv4 |-> <<"x">>, front_proxy |-> IF name = "ct" THEN "x" ELSE ""]

TwoExits == [client_id |-> "c1", root_domains |-> <<"x", "y">>,
             hosts |-> <<Exit("jp", "k1"), Exit("hk", "k1")>>,
             entry_groups |-> <<Ingress("ct"), Ingress("cu")>>]
\* An exit and an ingress gone, the key and the client id rotated, a root withdrawn.
OneExit == [client_id |-> "c2", root_domains |-> <<"y">>, hosts |-> <<Exit("jp", "k2")>>,
            entry_groups |-> <<Ingress("ct")>>]

Rotation == <<TwoExits, OneExit>>
AndBack  == <<TwoExits, OneExit, TwoExits>>

Line(name, number, text) == [name |-> name, number |-> number, text |-> text]

Bare(names) == {Line(n, 0, "") : n \in names}
Numbered == {Line(n, i, "") : n \in {"exit", "entry"}, i \in 0..3}

\* The second exit, one that is never there, and an ingress by its name.
AllInputs == Bare({"start", "stop", "direct", "refresh"}) \cup
             {Line("exit", 2, ""), Line("exit", 3, ""), Line("entry", 0, "cu")}
ByNumber  == Bare({"start", "refresh"}) \cup Numbered
StartStop == Bare({"start", "stop"})

Default == [host |-> "", entry |-> "", direct |-> FALSE]
=============================================================================
