----------------------------- MODULE MCSession -----------------------------
(* Constants of the Session runs. *)
EXTENDS Session

CONSTANTS command, server, first, second

Exit(slug, len) ==
  [slug |-> slug, name |-> slug, online |-> TRUE,
   key |-> [bytes |-> slug, len |-> len, alphabet |-> "std"]]
Ingress(name) == [name |-> name, ipv4 |-> <<"192.0.2.1">>, front_proxy |-> ""]

Release(root, slug, len) ==
  [client_id |-> "c", root_domains |-> <<root>>, hosts |-> <<Exit(slug, len)>>,
   entry_groups |-> <<Ingress("a")>>]

\* A first directory, one with a key that is not 32 bytes, one with a new pool.
WithBadRelease == <<Release("old", "jp", 32), Release("new", "hk", 31), Release("new", "hk", 32)>>
TwoReleases    == <<Release("old", "jp", 32), Release("new", "hk", 32)>>

AnyText == STRING

OneCommand == [r \in {first} |-> command]
TwoInServer == [r \in {first, second} |-> server]
=============================================================================
