----------------------------- MODULE Inventory -----------------------------
(***************************************************************************)
(* The node inventory (internal/inventory/inventory.go): what is in one,   *)
(* when one is usable and how a partial update is merged onto an older     *)
(* one.  Constant-level: every module that keeps an inventory extends it.  *)
(*                                                                         *)
(* Go's zero values are kept: "" is the empty string and << >> the empty   *)
(* slice.  Slugs, names, addresses, root domains and client ids are        *)
(* opaque members of Text.  A front proxy (endpoint and headers) is one    *)
(* of them too, "" when the group has none.  A VLESS key is the bytes it   *)
(* decodes to, how many there are and the base64 alphabet it came in.      *)
(***************************************************************************)
EXTENDS Naturals, Sequences

CONSTANT Text      \* the strings an inventory is made of
ASSUME TextAssumption == "" \in Text

KeyLength == 32
VlessKey == [bytes : Text, len : Nat, alphabet : Text]
Host == [slug : Text, name : Text, key : VlessKey, online : BOOLEAN]
EntryGroup == [name : Text, ipv4 : Seq(Text), front_proxy : Text]

InventoryType ==
  [client_id    : Text,
   root_domains : Seq(Text),
   hosts        : Seq(Host),
   entry_groups : Seq(EntryGroup)]

\* The zero Inventory a failed parse leaves behind.
NoInventory ==
  [client_id |-> "", root_domains |-> << >>, hosts |-> << >>,
   entry_groups |-> << >>]

-----------------------------------------------------------------------------
(* Host.NormalizedKey: whichever of the four base64 alphabets the key      *)
(* arrived in, the result is its bytes in the raw URL alphabet; a value    *)
(* that does not decode to 32 bytes is an error.                           *)
HasUsableKey(h) == h.key.len = KeyLength
NormalizedKey(h) == [h.key EXCEPT !.alphabet = "raw-url"]

\* Inventory.Validate.
ValidateKeepingAnyPool(inv) ==    \* a faulty Validate: the pool is not looked at
  /\ inv.client_id # ""
  /\ inv.hosts # << >>
  /\ inv.entry_groups # << >>
  /\ \A i \in DOMAIN inv.hosts :
       inv.hosts[i].slug # "" /\ HasUsableKey(inv.hosts[i])
  /\ \A i \in DOMAIN inv.entry_groups : inv.entry_groups[i].ipv4 # << >>

Validate(inv) ==
  /\ inv.client_id # ""
  /\ inv.root_domains # << >>
  /\ inv.hosts # << >>
  /\ inv.entry_groups # << >>
  /\ \A i \in DOMAIN inv.hosts :
       inv.hosts[i].slug # "" /\ HasUsableKey(inv.hosts[i])
  /\ \A i \in DOMAIN inv.entry_groups : inv.entry_groups[i].ipv4 # << >>

\* Inventory.FillMissingFrom: only a field the update left empty is carried over.
FillMissingFrom(inv, prev) ==
  [client_id    |-> IF inv.client_id = "" THEN prev.client_id
                                          ELSE inv.client_id,
   root_domains |-> IF inv.root_domains = << >> THEN prev.root_domains
                                                ELSE inv.root_domains,
   hosts        |-> IF inv.hosts = << >> THEN prev.hosts ELSE inv.hosts,
   entry_groups |-> IF inv.entry_groups = << >> THEN prev.entry_groups
                                                ELSE inv.entry_groups]
=============================================================================
