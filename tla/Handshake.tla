----------------------------- MODULE Handshake -----------------------------
(***************************************************************************)
(* Connections to the control endpoint: the ECH dialer every request of a  *)
(* process shares (internal/control/transport.go) and the pin store that   *)
(* decides whether a verified chain is the one this machine has committed  *)
(* to (internal/pinning/pinning.go).                                       *)
(*                                                                         *)
(* The endpoint rotates its ECH key, numbered here, and its certificate    *)
(* chain, a set of keys, at any moment.  The store has two copies: the map *)
(* of the process and pins.json, which is truncated and then written.      *)
(*                                                                         *)
(* Left out: how an address is found (module Resolver), and chains that    *)
(* fail ordinary verification, which never reach the pins (Fail).          *)
(***************************************************************************)
EXTENDS Naturals

CONSTANTS
  Dials,          \* connections that may be open at once
  NoDial,
  Keys,           \* public keys of certificates
  PinModes,       \* the -pin-mode values commands are run with
  MaxRotations,   \* bound: ECH keys after the first
  MaxFaults       \* bound: failed handshakes and failed writes

ASSUME HandshakeAssumption ==
  /\ NoDial \notin Dials
  /\ PinModes \subseteq {"off", "tofu", "strict"}
  /\ MaxRotations \in Nat /\ MaxFaults \in Nat

VARIABLES
  live,      \* the ECH key the endpoint uses
  chain,     \* the keys of the chain it presents
  process,   \* whether a command is running, with which -pin-mode and -ech
  config,    \* echDialer.config
  pins,      \* Store.pins[host]; empty when there is no entry
  file,      \* pins.json: whether it parses, and the entry it holds
  writer,    \* the dial inside Set, which holds the store's mutex
  dial,      \* the dials
  enrolled,  \* whether a chain was recorded since the file was last removed
  faults

endpoint == <<live, chain>>
store    == <<pins, file, writer, enrolled>>
vars     == <<endpoint, process, config, store, dial, faults>>

Chains == (SUBSET Keys) \ {{}}
Stages == {"idle", "hello", "adopt", "verify", "record", "writing", "stored", "checked",
           "connected", "failed", "rejected"}
DialStates == [pc : Stages, attempt : 0..2, offer : Nat, retry : Nat, chain : SUBSET Keys]
DialState(stage, attempt, offer, retry, keys) ==
  [pc |-> stage, attempt |-> attempt, offer |-> offer, retry |-> retry, chain |-> keys]
IdleDial == DialState("idle", 0, 0, 0, {})
NoFile == [whole |-> TRUE, pins |-> {}]      \* absent, which Open takes for empty
Torn   == [whole |-> FALSE, pins |-> {}]     \* what Unmarshal rejects
Down   == [up |-> FALSE, mode |-> "off", ech |-> FALSE]

TypeOK ==
  /\ live \in Nat /\ chain \in Chains
  /\ process \in [up : BOOLEAN, mode : PinModes \cup {"off"}, ech : BOOLEAN]
  /\ config \in Nat
  /\ pins \in SUBSET Keys
  /\ file \in [whole : BOOLEAN, pins : SUBSET Keys]
  /\ writer \in Dials \cup {NoDial}
  /\ dial \in [Dials -> DialStates]
  /\ enrolled \in BOOLEAN
  /\ faults \in Nat

Init ==
  /\ live = 0 /\ chain \in Chains
  /\ process = Down /\ config = 0
  /\ pins = {} /\ file = NoFile /\ writer = NoDial /\ enrolled = FALSE
  /\ dial = [d \in Dials |-> IdleDial]
  /\ faults = 0

-----------------------------------------------------------------------------
(* The endpoint, and the machine the command runs on                       *)

RotateECH ==
  /\ live < MaxRotations /\ live' = live + 1
  /\ UNCHANGED <<chain, process, config, store, dial, faults>>

RotateChain ==
  /\ chain' \in Chains \ {chain}
  /\ UNCHANGED <<live, process, config, store, dial, faults>>

AnythingGoes(f) == TRUE       \* faulty: a file that does not parse counts as empty

\* pinning.Open: the entry of a file that parses.
Readable(f) == f.whole

\* buildHardening opens the store unless pinning is off, and a file that does
\* not parse ends the command; configureECH then takes from DNS the current
\* configuration, or one a resolver still remembers.
StartProcess ==
  /\ ~process.up
  /\ \E mode \in PinModes, ech \in BOOLEAN :
       /\ mode = "off" \/ Readable(file)
       /\ process' = [up |-> TRUE, mode |-> mode, ech |-> ech]
       /\ pins' = IF mode = "off" THEN {} ELSE file.pins
       /\ config' \in IF ech THEN 0..live ELSE {0}
  /\ UNCHANGED <<endpoint, file, writer, enrolled, dial, faults>>

\* The command ends, or is interrupted, whatever its dials are doing.
EndProcess ==
  /\ process.up /\ process' = Down
  /\ pins' = {} /\ config' = 0 /\ writer' = NoDial
  /\ dial' = [d \in Dials |-> IdleDial]
  /\ UNCHANGED <<endpoint, file, enrolled, faults>>

\* What the mismatch error asks for, and what a file that does not parse needs.
RemovePins ==
  /\ ~process.up
  /\ file # NoFile /\ file' = NoFile /\ enrolled' = FALSE
  /\ UNCHANGED <<endpoint, process, config, pins, writer, dial, faults>>

-----------------------------------------------------------------------------
(* One dial                                                                *)

At(d, stage) == dial[d].pc = stage
Goes(d, stage) == dial' = [dial EXCEPT ![d].pc = stage]
Becomes(d, stage) == dial' = [dial EXCEPT ![d] = DialState(stage, 0, 0, 0, {})]
Fault == faults < MaxFaults /\ faults' = faults + 1
NoFault == UNCHANGED faults

\* dialTLS: the first attempt offers the configuration all dials share.
Begin(d) ==
  /\ process.up /\ At(d, "idle")
  /\ dial' = [dial EXCEPT ![d] = DialState("hello", 1, config, 0, {})]
  /\ UNCHANGED <<endpoint, process, config, store, faults>>

\* The endpoint may honour a key it has replaced; without ECH it never refuses.
Accepted(d) ==
  /\ At(d, "hello")
  /\ dial' = [dial EXCEPT ![d] = DialState("verify", 0, 0, 0, chain)]
  /\ UNCHANGED <<endpoint, process, config, store, faults>>

\* A refused first attempt comes with the current configuration, a refused
\* second one is an error.
Rejected(d) ==
  /\ At(d, "hello") /\ process.ech /\ dial[d].offer # live
  /\ IF dial[d].attempt = 1
     THEN dial' = [dial EXCEPT ![d].pc = "adopt", ![d].retry = live]
     ELSE Becomes(d, "rejected")
  /\ UNCHANGED <<endpoint, process, config, store, faults>>

\* faulty: the second attempt offers the shared configuration as it then is
AdoptShared(d) ==
  /\ At(d, "adopt")
  /\ dial' = [dial EXCEPT ![d] = DialState("hello", 2, config, dial[d].retry, {})]
  /\ config' = dial[d].retry
  /\ UNCHANGED <<endpoint, process, store, faults>>

\* adopt(retry), and an attempt with what this dial was given.
Adopt(d) ==
  /\ At(d, "adopt")
  /\ config' = dial[d].retry
  /\ dial' = [dial EXCEPT ![d] = DialState("hello", 2, dial[d].retry, dial[d].retry, {})]
  /\ UNCHANGED <<endpoint, process, store, faults>>

\* Verifier: Get waits for the store's mutex.
Verify(d) ==
  /\ At(d, "verify") /\ writer = NoDial
  /\ \/ process.mode = "off" /\ Becomes(d, "checked")
     \/ process.mode = "strict" /\ pins = {} /\ Becomes(d, "failed")
     \/ process.mode = "tofu" /\ pins = {} /\ Goes(d, "record")
     \/ /\ process.mode # "off" /\ pins # {}
        /\ Becomes(d, IF dial[d].chain \cap pins # {} THEN "checked" ELSE "failed")
  /\ UNCHANGED <<endpoint, process, config, store, faults>>

\* Set takes the mutex and WriteFile opens the file, which empties it.
Record(d) ==
  /\ At(d, "record") /\ writer = NoDial
  /\ \/ /\ writer' = d /\ file' = Torn /\ Goes(d, "writing") /\ NoFault
     \/ /\ Becomes(d, "failed") /\ Fault /\ UNCHANGED <<writer, file>>
  /\ UNCHANGED <<endpoint, process, config, pins, enrolled>>


Write(d) ==
  /\ At(d, "writing")
  /\ \/ /\ file' = [whole |-> TRUE, pins |-> dial[d].chain] /\ enrolled' = TRUE
        /\ Goes(d, "stored") /\ NoFault /\ UNCHANGED writer
     \/ /\ writer' = NoDial /\ Becomes(d, "failed") /\ Fault /\ UNCHANGED <<file, enrolled>>
  /\ UNCHANGED <<endpoint, process, config, pins>>

\* faulty: the file is written and the map is not replaced
Unlock(d) ==
  /\ At(d, "stored") /\ writer' = NoDial /\ Becomes(d, "checked")
  /\ UNCHANGED <<endpoint, process, config, pins, file, enrolled, faults>>

\* s.pins = next, and the mutex is released.
Remember(d) ==
  /\ At(d, "stored")
  /\ pins' = dial[d].chain /\ writer' = NoDial
  /\ Becomes(d, "checked")
  /\ UNCHANGED <<endpoint, process, config, file, enrolled, faults>>

Finish(d) ==
  /\ At(d, "checked") /\ Becomes(d, "connected")
  /\ UNCHANGED <<endpoint, process, config, store, faults>>

\* No address, a time limit, a chain that does not verify, a refusal without a
\* configuration to retry with; or the handshake breaks after the callback.
Fail(d) ==
  /\ At(d, "hello") \/ At(d, "checked")
  /\ Becomes(d, "failed") /\ Fault
  /\ UNCHANGED <<endpoint, process, config, store>>

\* The caller is done with the connection or has seen the error.
Close(d) ==
  /\ At(d, "connected") \/ At(d, "failed") \/ At(d, "rejected")
  /\ dial' = [dial EXCEPT ![d] = IdleDial]
  /\ UNCHANGED <<endpoint, process, config, store, faults>>

Working(d) ==
  \/ Accepted(d) \/ Rejected(d) \/ Adopt(d) \/ Verify(d) \/ Record(d) \/ Write(d) \/ Remember(d)
  \/ Finish(d)

Next ==
  \/ RotateECH \/ RotateChain \/ StartProcess \/ EndProcess \/ RemovePins
  \/ \E d \in Dials : Begin(d) \/ Working(d) \/ Fail(d) \/ Close(d)

Spec == Init /\ [][Next]_vars

\* With -ech the dialer shakes hands itself (transport.go:107-108, 164): then neither
\* TLSHandshakeTimeout nor the time of the request, which does not end a dial under
\* way, limits the wait for the endpoint's answer.
Unlimited(d) == process.ech /\ At(d, "hello")

\* A dial goes on: every other wait in it has a time limit (transport.go:79-81, 210)
\* and the mutex is released by whoever holds it.
FairSpec == Spec /\ \A d \in Dials : WF_vars(~Unlimited(d) /\ (Working(d) \/ Fail(d)))

-----------------------------------------------------------------------------
(* Properties                                                              *)

\* Once a chain was recorded, no process that pins is back at first use,
\* whatever was interrupted or failed half way, until somebody removes the file:
\* a torn pins.json refuses the command instead (pinning.go Open, Set).
NeverBackToFirstUse ==
  enrolled /\ process.up /\ process.mode # "off" /\ writer = NoDial => pins # {}

\* When the file holds a chain and no dial is between finding no pins and having
\* recorded its own, the file never changes again, in this process or a later
\* one, until somebody removes it (pinning.go Verifier, Set).
Settled ==
  /\ file.whole /\ file.pins # {} /\ writer = NoDial
  /\ \A d \in Dials : ~At(d, "record")

PinsSettle == [][Settled => (file' = file /\ Settled') \/ RemovePins]_vars

\* A dial is refused twice only when the endpoint has rotated again since it
\* answered that dial, whatever other dials have adopted meanwhile
\* (transport.go:146-147 "A second rejection is a real failure, not a rotation").
OneRetryIsEnough ==
  [][\A d \in Dials : At(d, "hello") /\ dial'[d].pc = "rejected" => dial[d].retry # live]_vars

\* Every dial comes to an end or waits for an answer without a limit, also while
\* another holds the store's mutex or has left Set through an error, or waits so
\* itself: that one holds up no other (transport.go, pinning.go Set).
Ended(d) == At(d, "idle") \/ At(d, "connected") \/ At(d, "failed") \/ At(d, "rejected")
=============================================================================
