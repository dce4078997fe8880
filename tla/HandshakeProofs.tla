-------------------------- MODULE HandshakeProofs --------------------------
(***************************************************************************)
(* Proofs about Handshake, for any dials, keys, pinning modes and bounds.  *)
(* The argument: Set has one writer at a time and only in a command that   *)
(* records on first use (Writing); outside of Set the process's map is     *)
(* what a file that parses holds (MemoryIsFile), so a process that pins    *)
(* after a chain was recorded has pins (Remembered), and no dial finds     *)
(* none.  For the retry: a second attempt offers what its own dial was     *)
(* given (OwnRetry).                                                       *)
(***************************************************************************)
EXTENDS Handshake, TLAPS

InSet(d) == At(d, "writing") \/ At(d, "stored")

Writing ==
  /\ \A d \in Dials : InSet(d) <=> writer = d
  /\ \A d \in Dials : ~At(d, "idle") => process.up
  /\ \A d \in Dials : At(d, "record") \/ InSet(d) => process.mode = "tofu" /\ dial[d].chain # {}
  /\ \A d \in Dials : At(d, "verify") => dial[d].chain # {}
  /\ \A d \in Dials : At(d, "writing") => ~file.whole
  /\ \A d \in Dials : At(d, "stored") => file.whole /\ file.pins = dial[d].chain

MemoryIsFile ==
  process.up /\ process.mode # "off" /\ writer = NoDial /\ file.whole => pins = file.pins

Remembered ==
  enrolled =>
    /\ file.whole => file.pins # {}
    /\ process.up /\ process.mode # "off" => pins # {} \/ \E d \in Dials : At(d, "stored")

OwnRetry ==
  \A d \in Dials : At(d, "hello") =>
    \/ dial[d].attempt = 1
    \/ dial[d].attempt = 2 /\ dial[d].offer = dial[d].retry

IInv == TypeOK /\ Writing /\ MemoryIsFile /\ Remembered /\ OwnRetry

-----------------------------------------------------------------------------
\* No command runs and nothing was recorded.
LEMMA InitInv == ASSUME Init PROVE IInv
<1>0. IdleDial \in DialStates
  BY DEF IdleDial, DialState, DialStates, Stages
<1>1. TypeOK
  BY <1>0, HandshakeAssumption DEF Init, TypeOK, Down, NoFile, Chains
<1>2. \A d \in Dials : dial[d].pc = "idle"
  BY DEF Init, IdleDial, DialState
<1>3. Writing /\ MemoryIsFile /\ Remembered /\ OwnRetry
  BY <1>2, HandshakeAssumption DEF Init, Writing, MemoryIsFile, Remembered, OwnRetry, At, InSet,
    Down
<1> QED BY <1>1, <1>3 DEF IInv

\* A step of one dial that is not in Set and does not enter it, and leaves the
\* store alone, keeps the invariant.
LEMMA QuietStep ==
  ASSUME IInv, NEW d \in Dials, ~InSet(d),
         UNCHANGED <<process, store>>, live' \in Nat, chain' \in Chains, config' \in Nat,
         faults' \in Nat,
         NEW r \in DialStates,
         dial' = [dial EXCEPT ![d] = r],
         r.pc \notin {"writing", "stored"},
         r.pc # "idle" => process.up,
         r.pc = "record" => process.mode = "tofu" /\ r.chain # {},
         r.pc = "verify" => r.chain # {},
         r.pc = "hello" => r.attempt = 1 \/ (r.attempt = 2 /\ r.offer = r.retry)
  PROVE  IInv'
<1>1. TypeOK'
  BY DEF IInv, TypeOK, store
<1>2. \A e \in Dials : dial'[e] = IF e = d THEN r ELSE dial[e]
  BY DEF IInv, TypeOK
<1>3. Writing'
  BY <1>2 DEF IInv, Writing, InSet, At, store
<1>4. MemoryIsFile' /\ OwnRetry'
  BY <1>2 DEF IInv, MemoryIsFile, OwnRetry, At, store
<1>5. Remembered'
  BY <1>2 DEF IInv, Remembered, InSet, At, store
<1> QED BY <1>1, <1>3, <1>4, <1>5 DEF IInv

\* So does one that leaves the dial at a stage of no consequence.
LEMMA PlainStep ==
  ASSUME IInv, NEW d \in Dials, ~InSet(d),
         UNCHANGED <<endpoint, process, config, store>>, faults' \in Nat,
         NEW stage \in {"checked", "connected", "failed", "rejected", "idle"},
         stage = "idle" \/ ~At(d, "idle"), Becomes(d, stage)
  PROVE  IInv'
<1> DEFINE r == DialState(stage, 0, 0, 0, {})
<1>1. r \in DialStates /\ r.pc = stage
  BY DEF IdleDial, DialState, DialStates, Stages
<1>2. live' \in Nat /\ chain' \in Chains /\ config' \in Nat
  BY DEF IInv, TypeOK, endpoint
<1>3. stage # "idle" => process.up
  BY DEF IInv, Writing
<1>4. dial' = [dial EXCEPT ![d] = r]
  BY DEF Becomes
<1> HIDE DEF r
<1> QED BY <1>1, <1>2, <1>3, <1>4, QuietStep

\* The endpoint's rotations touch nothing the invariant speaks of.
LEMMA RotateInv == ASSUME IInv, RotateECH \/ RotateChain PROVE IInv'
<1>1. TypeOK'
  BY DEF IInv, TypeOK, RotateECH, RotateChain, store, Chains
<1>2. UNCHANGED <<process, store, dial>>
  BY DEF RotateECH, RotateChain
<1>3. Writing' /\ MemoryIsFile' /\ Remembered' /\ OwnRetry'
  BY <1>2 DEF IInv, Writing, MemoryIsFile, Remembered, OwnRetry, InSet, At, store
<1> QED BY <1>1, <1>3 DEF IInv

\* A process that pins starts with what a file that parses holds.
LEMMA StartInv == ASSUME IInv, StartProcess PROVE IInv'
<1>1. PICK mode \in PinModes, ech \in BOOLEAN :
        /\ mode = "off" \/ file.whole
        /\ process' = [up |-> TRUE, mode |-> mode, ech |-> ech]
        /\ pins' = IF mode = "off" THEN {} ELSE file.pins
        /\ config' \in IF ech THEN 0..live ELSE {0}
  BY DEF StartProcess, Readable
<1>2. UNCHANGED <<endpoint, file, writer, enrolled, dial, faults>> /\ ~process.up
  BY DEF StartProcess
<1>3. TypeOK'
  BY <1>1, <1>2 DEF IInv, TypeOK, endpoint
<1>4. \A d \in Dials : ~InSet(d) /\ ~At(d, "record")
  BY <1>2 DEF IInv, Writing, InSet, At
<1>5. Writing' /\ OwnRetry'
  BY <1>1, <1>2, <1>4 DEF IInv, Writing, OwnRetry, InSet, At
<1>6. MemoryIsFile'
  BY <1>1, <1>2 DEF MemoryIsFile
<1>7. Remembered'
  BY <1>1, <1>2 DEF IInv, Remembered, At
<1> QED BY <1>3, <1>5, <1>6, <1>7 DEF IInv

\* Without a process there are no dials, and the file is as it was.
LEMMA EndInv == ASSUME IInv, EndProcess PROVE IInv'
<1>1. TypeOK'
  BY HandshakeAssumption DEF EndProcess, IInv, TypeOK, endpoint, Down, IdleDial, DialState, DialStates, Stages
<1>2. \A d \in Dials : dial'[d].pc = "idle"
  BY DEF EndProcess, IdleDial, DialState
<1>3. ~process'.up /\ writer' = NoDial /\ UNCHANGED <<file, enrolled>>
  BY DEF EndProcess, Down
<1>4. Writing' /\ MemoryIsFile' /\ Remembered' /\ OwnRetry'
  BY <1>2, <1>3, HandshakeAssumption DEF IInv, Writing, MemoryIsFile, Remembered, OwnRetry, At,
    InSet
<1> QED BY <1>1, <1>4 DEF IInv

\* Removing the file forgets what was recorded in it.
LEMMA RemoveInv == ASSUME IInv, RemovePins PROVE IInv'
<1>1. TypeOK' /\ ~enrolled' /\ ~process.up
  BY DEF RemovePins, IInv, TypeOK, endpoint, NoFile
<1>2. UNCHANGED <<process, writer, dial>>
  BY DEF RemovePins
<1>3. \A d \in Dials : ~InSet(d)
  BY <1>1 DEF IInv, Writing, InSet, At
<1>4. Writing' /\ OwnRetry' /\ MemoryIsFile' /\ Remembered'
  BY <1>1, <1>2, <1>3 DEF IInv, Writing, OwnRetry, MemoryIsFile, Remembered, InSet, At
<1> QED BY <1>1, <1>4 DEF IInv

\* Set is entered by a dial that found no pins and finds no other writer.
LEMMA RecordInv == ASSUME IInv, NEW d \in Dials, Record(d) PROVE IInv'
<1>1. CASE writer' = d /\ file' = Torn /\ Goes(d, "writing") /\ NoFault
  <2>1. /\ At(d, "record") /\ writer = NoDial
        /\ UNCHANGED <<endpoint, process, config, pins, enrolled, faults>>
    BY <1>1 DEF Record, NoFault
  <2>2. TypeOK'
    BY <1>1, <2>1 DEF IInv, TypeOK, endpoint, Goes, Torn, DialStates, Stages
  <2>3. \A e \in Dials : /\ dial'[e].chain = dial[e].chain
                         /\ dial'[e].pc = IF e = d THEN "writing" ELSE dial[e].pc
                         /\ e # d => dial'[e] = dial[e]
    BY <1>1 DEF IInv, TypeOK, Goes
  <2>4. \A e \in Dials : ~InSet(e)
    BY <2>1, HandshakeAssumption DEF IInv, Writing
  <2>5. Writing'
    BY <1>1, <2>1, <2>3, <2>4, HandshakeAssumption DEF IInv, Writing, InSet, At, Torn
  <2>6. MemoryIsFile' /\ OwnRetry'
    BY <1>1, <2>1, <2>3, HandshakeAssumption DEF IInv, MemoryIsFile, OwnRetry, At
  <2>7. Remembered'
    BY <1>1, <2>1, <2>3, <2>4 DEF IInv, Remembered, InSet, At, Torn
  <2> QED BY <2>2, <2>5, <2>6, <2>7 DEF IInv
<1>2. CASE Becomes(d, "failed") /\ Fault /\ UNCHANGED <<writer, file>>
  <2>1. ~InSet(d) /\ ~At(d, "idle") /\ UNCHANGED <<endpoint, process, config, store>>
    BY <1>2 DEF Record, InSet, At, store
  <2>2. faults' \in Nat
    BY <1>2 DEF IInv, TypeOK, Fault
  <2> QED BY <1>2, <2>1, <2>2, PlainStep
<1> QED BY <1>1, <1>2 DEF Record

\* The file holds the chain, or stays torn and the mutex is released.
LEMMA WriteInv == ASSUME IInv, NEW d \in Dials, Write(d) PROVE IInv'
<1>0. /\ At(d, "writing") /\ UNCHANGED <<endpoint, process, config, pins>>
      /\ writer = d /\ ~file.whole /\ dial[d].chain # {}
  BY DEF Write, IInv, Writing, InSet
<1>1. CASE /\ file' = [whole |-> TRUE, pins |-> dial[d].chain] /\ enrolled'
           /\ Goes(d, "stored") /\ NoFault /\ UNCHANGED writer
  <2>2. TypeOK'
    BY <1>0, <1>1 DEF IInv, TypeOK, endpoint, Goes, DialStates, Stages, NoFault, Write
  <2>3. \A e \in Dials : /\ dial'[e].chain = dial[e].chain
                         /\ dial'[e].pc = IF e = d THEN "stored" ELSE dial[e].pc
                         /\ e # d => dial'[e] = dial[e]
    BY <1>1 DEF IInv, TypeOK, Goes
  <2>5. Writing'
    BY <1>0, <1>1, <2>3 DEF IInv, Writing, InSet, At
  <2>6. MemoryIsFile' /\ OwnRetry'
    BY <1>0, <1>1, <2>3, HandshakeAssumption DEF IInv, MemoryIsFile, OwnRetry, At
  <2>7. Remembered'
    BY <1>0, <1>1, <2>3 DEF IInv, Remembered, At
  <2> QED BY <2>2, <2>5, <2>6, <2>7 DEF IInv
<1>2. CASE writer' = NoDial /\ Becomes(d, "failed") /\ Fault /\ UNCHANGED <<file, enrolled>>
  <2>2. TypeOK'
    BY <1>0, <1>2 DEF IInv, TypeOK, endpoint, Becomes, IdleDial, DialState, DialStates, Stages, Fault
  <2>3. \A e \in Dials : /\ dial'[e].pc = IF e = d THEN "failed" ELSE dial[e].pc
                         /\ e # d => dial'[e] = dial[e]
    BY <1>2 DEF IInv, TypeOK, Becomes, IdleDial, DialState
  <2>4. \A e \in Dials : InSet(e) <=> e = d
    BY <1>0 DEF IInv, Writing
  <2>5. Writing'
    BY <1>0, <1>2, <2>3, <2>4, HandshakeAssumption DEF IInv, Writing, InSet, At
  <2>6. MemoryIsFile' /\ OwnRetry'
    BY <1>0, <1>2, <2>3 DEF IInv, MemoryIsFile, OwnRetry, At
  <2>7. Remembered'
    BY <1>0, <1>2, <2>3 DEF IInv, Remembered, At
  <2> QED BY <2>2, <2>5, <2>6, <2>7 DEF IInv
<1> QED BY <1>1, <1>2 DEF Write

\* The map becomes what the file holds, and the mutex is released.
LEMMA RememberInv == ASSUME IInv, NEW d \in Dials, Remember(d) PROVE IInv'
<1>0. /\ writer = d /\ file.pins = dial[d].chain /\ dial[d].chain # {}
      /\ pins' = dial[d].chain /\ writer' = NoDial /\ Becomes(d, "checked")
      /\ UNCHANGED <<endpoint, process, config, file, enrolled, faults>>
  BY DEF Remember, IInv, Writing, InSet
<1>2. TypeOK'
  BY <1>0 DEF IInv, TypeOK, endpoint, Becomes, IdleDial, DialState, DialStates, Stages
<1>3. \A e \in Dials : /\ dial'[e].pc = IF e = d THEN "checked" ELSE dial[e].pc
                       /\ e # d => dial'[e] = dial[e]
  BY <1>0 DEF IInv, TypeOK, Becomes, IdleDial, DialState
<1>4. \A e \in Dials : InSet(e) <=> e = d
  BY <1>0 DEF IInv, Writing
<1>5. Writing'
  BY <1>0, <1>3, <1>4, HandshakeAssumption DEF IInv, Writing, InSet, At
<1>6. MemoryIsFile' /\ OwnRetry' /\ Remembered'
  BY <1>0, <1>3 DEF IInv, MemoryIsFile, OwnRetry, Remembered, At
<1> QED BY <1>2, <1>5, <1>6 DEF IInv

\* Every other step of a dial is quiet.
LEMMA DialInv ==
  ASSUME IInv, NEW d \in Dials,
         \/ Begin(d) \/ Accepted(d) \/ Rejected(d) \/ Adopt(d) \/ Verify(d) \/ Finish(d)
         \/ Fail(d) \/ Close(d)
  PROVE  IInv'
<1>0. /\ dial[d] \in DialStates
      /\ live \in Nat /\ chain \in Chains /\ config \in Nat /\ faults \in Nat
  BY DEF IInv, TypeOK
<1>u. ~At(d, "idle") => process.up
  BY DEF IInv, Writing
<1>1. CASE Begin(d)
  <2> DEFINE r == DialState("hello", 1, config, 0, {})
  <2>1. r \in DialStates /\ r.pc = "hello" /\ r.attempt = 1
    BY <1>0 DEF DialState, DialStates, Stages
  <2>2. ~InSet(d) /\ dial' = [dial EXCEPT ![d] = r] /\ process.up
    BY <1>1 DEF Begin, InSet, At, IdleDial, DialState
  <2>3. UNCHANGED <<process, store, config, live, chain, faults>>
    BY <1>1 DEF Begin, endpoint
  <2> HIDE DEF r
  <2> QED BY <1>0, <2>1, <2>2, <2>3, QuietStep
<1>2. CASE Accepted(d)
  <2> DEFINE r == DialState("verify", 0, 0, 0, chain)
  <2>1. r \in DialStates /\ r.pc = "verify" /\ r.chain # {}
    BY <1>0 DEF DialState, DialStates, Stages, Chains
  <2>2. ~InSet(d) /\ dial' = [dial EXCEPT ![d] = r] /\ process.up
    BY <1>2, <1>u DEF Accepted, InSet, At, IdleDial, DialState
  <2>3. UNCHANGED <<process, store, config, live, chain, faults>>
    BY <1>2 DEF Accepted, endpoint
  <2> HIDE DEF r
  <2> QED BY <1>0, <2>1, <2>2, <2>3, QuietStep
<1>3. CASE Rejected(d)
  <2>1. ~InSet(d) /\ process.up /\ ~At(d, "idle")
    BY <1>3, <1>u DEF Rejected, InSet, At
  <2>2. UNCHANGED <<process, store, config, live, chain, faults>>
    BY <1>3 DEF Rejected, endpoint
  <2>3. CASE dial[d].attempt = 1
    <3> DEFINE r == [dial[d] EXCEPT !.pc = "adopt", !.retry = live]
    <3>1. dial' = [dial EXCEPT ![d] = r]
      BY <1>3, <2>3 DEF Rejected, IInv, TypeOK
    <3>2. r \in DialStates /\ r.pc = "adopt"
      BY <1>0 DEF DialState, DialStates, Stages
    <3> HIDE DEF r
    <3> QED BY <1>0, <2>1, <2>2, <3>1, <3>2, QuietStep
  <2>4. CASE dial[d].attempt # 1
    BY <1>0, <1>3, <2>1, <2>2, <2>4, PlainStep DEF Rejected, endpoint
  <2> QED BY <2>3, <2>4
<1>4. CASE Adopt(d)
  <2> DEFINE r == DialState("hello", 2, dial[d].retry, dial[d].retry, {})
  <2>1. dial' = [dial EXCEPT ![d] = r]
    BY <1>4 DEF Adopt
  <2>2. /\ r \in DialStates /\ r.pc = "hello" /\ r.attempt = 2 /\ r.offer = r.retry
        /\ dial[d].retry \in Nat
    BY <1>0 DEF DialState, DialStates, Stages
  <2>3. ~InSet(d) /\ process.up /\ UNCHANGED <<process, store, live, chain, faults>>
    BY <1>4, <1>u DEF Adopt, InSet, At, endpoint
  <2>4. config' \in Nat
    BY <1>4, <2>2 DEF Adopt
  <2> HIDE DEF r
  <2> QED BY <1>0, <2>1, <2>2, <2>3, <2>4, QuietStep
<1>5. CASE Verify(d)
  <2>1. ~InSet(d) /\ process.up /\ ~At(d, "idle")
    BY <1>5, <1>u DEF Verify, InSet, At
  <2>2. UNCHANGED <<process, store, config, live, chain, faults>>
    BY <1>5 DEF Verify, endpoint
  <2>3. CASE Goes(d, "record") /\ process.mode = "tofu"
    <3> DEFINE r == [dial[d] EXCEPT !.pc = "record"]
    <3>1. dial' = [dial EXCEPT ![d] = r]
      BY <2>3 DEF Goes, IInv, TypeOK
    <3>2. dial[d].chain # {}
      BY <1>5 DEF Verify, IInv, Writing
    <3>3. r \in DialStates /\ r.pc = "record" /\ r.chain # {}
      BY <1>0, <3>2 DEF DialStates, Stages
    <3> HIDE DEF r
    <3> QED BY <1>0, <2>1, <2>2, <2>3, <3>1, <3>3, QuietStep
  <2>4. CASE Becomes(d, "checked") \/ Becomes(d, "failed")
    BY <1>0, <2>1, <2>2, <2>4, PlainStep DEF endpoint
  <2> QED BY <1>5, <2>3, <2>4 DEF Verify
<1>6. CASE Finish(d)
  BY <1>0, <1>6, PlainStep DEF Finish, InSet, At
<1>7. CASE Fail(d)
  BY <1>0, <1>7, PlainStep DEF Fail, InSet, At, Fault
<1>8. CASE Close(d)
  <2>1. Becomes(d, "idle")
    BY <1>8 DEF Close, Becomes, IdleDial, DialState
  <2> QED BY <1>0, <1>8, <2>1, PlainStep DEF Close, InSet, At
<1> QED BY <1>1, <1>2, <1>3, <1>4, <1>5, <1>6, <1>7, <1>8

\* Every step keeps the invariant.
LEMMA StepInv == ASSUME IInv, [Next]_vars PROVE IInv'
<1>1. CASE UNCHANGED vars
  BY <1>1 DEF IInv, TypeOK, Writing, MemoryIsFile, Remembered, OwnRetry, InSet, At, vars,
    endpoint, store
<1>2. CASE Next
  BY <1>2, RotateInv, StartInv, EndInv, RemoveInv, RecordInv, WriteInv, RememberInv, DialInv
    DEF Next, Working
<1> QED BY <1>1, <1>2

\* The invariant holds in every reachable state.
THEOREM Invariance == Spec => []IInv
BY InitInv, StepInv, PTL DEF Spec

\* NeverBackToFirstUse: a process that pins has pins once a chain was recorded.
THEOREM NotBackToFirstUse == Spec => []NeverBackToFirstUse
<1>1. ASSUME IInv PROVE NeverBackToFirstUse
  BY <1>1, HandshakeAssumption DEF IInv, Remembered, Writing, InSet, NeverBackToFirstUse
<1> QED BY <1>1, Invariance, PTL

\* OneRetryIsEnough: a second refusal means another rotation.
THEOREM OneRetry == Spec => OneRetryIsEnough
<1>1. ASSUME IInv, [Next]_vars
      PROVE  [\A d \in Dials : At(d, "hello") /\ dial'[d].pc = "rejected" =>
                dial[d].retry # live]_vars
  <2> SUFFICES ASSUME Next, NEW d \in Dials, At(d, "hello"), dial'[d].pc = "rejected"
               PROVE  dial[d].retry # live
    BY <1>1
  <2>1. /\ \A e \in Dials : dial[e] \in DialStates
        /\ DOMAIN dial = Dials
    BY <1>1 DEF IInv, TypeOK
  <2>a. ~(RotateECH \/ RotateChain \/ StartProcess \/ EndProcess \/ RemovePins)
    BY DEF RotateECH, RotateChain, StartProcess, EndProcess, RemovePins, At, IdleDial, DialState
  <2>b. PICK e \in Dials : Begin(e) \/ Working(e) \/ Fail(e) \/ Close(e)
    BY <2>a DEF Next
  <2>c. e = d
    BY <2>1, <2>b DEF Working, Begin, Accepted, Rejected, Adopt, Verify, Record, Write, Remember,
      Finish, Fail, Close, Becomes, Goes, At
  <2>d. ~Begin(d) /\ ~Adopt(d) /\ ~Verify(d) /\ ~Record(d) /\ ~Write(d) /\ ~Remember(d)
        /\ ~Finish(d) /\ ~Close(d)
    BY DEF Begin, Adopt, Verify, Record, Write, Remember, Finish, Close, At
  <2>e. ~Accepted(d) /\ ~Fail(d)
    BY <2>1 DEF Accepted, Fail, Becomes, IdleDial, DialState
  <2>2. Rejected(d)
    BY <2>b, <2>c, <2>d, <2>e DEF Working
  <2>3. dial[d].attempt # 1
    BY <2>1, <2>2 DEF Rejected, DialStates
  <2>4. dial[d].offer = dial[d].retry
    BY <1>1, <2>3 DEF IInv, OwnRetry
  <2> QED BY <2>2, <2>4 DEF Rejected
<1> QED BY <1>1, Invariance, PTL DEF Spec, OneRetryIsEnough

\* PinsSettle: a recorded chain stays, in this process and the later ones.
THEOREM RecordedStays == Spec => PinsSettle
<1>1. ASSUME IInv, [Next]_vars
      PROVE  [Settled => (file' = file /\ Settled') \/ RemovePins]_vars
  <2> SUFFICES ASSUME Next, Settled, ~RemovePins PROVE file' = file /\ Settled'
    BY <1>1
  <2>1. \A e \in Dials : dial[e] \in DialStates /\ ~InSet(e) /\ ~At(e, "record")
    BY <1>1, HandshakeAssumption DEF IInv, TypeOK, Writing, Settled
  <2>2. DOMAIN dial = Dials
    BY <1>1 DEF IInv, TypeOK
  <2>3. \A e \in Dials : At(e, "verify") => process.mode = "off" \/ pins # {}
    BY <1>1 DEF IInv, Writing, MemoryIsFile, Settled, At
  <2>4. CASE RotateECH \/ RotateChain \/ StartProcess
    BY <2>1, <2>4 DEF RotateECH, RotateChain, StartProcess, store, Settled, At
  <2>5. CASE EndProcess
    BY <2>5 DEF EndProcess, Settled, At, IdleDial, DialState
  <2>6. ASSUME NEW d \in Dials,
               \/ Begin(d) \/ Accepted(d) \/ Rejected(d) \/ Adopt(d) \/ Finish(d) \/ Fail(d)
               \/ Close(d)
        PROVE  file' = file /\ Settled'
    <3>1. UNCHANGED store
      BY <2>6 DEF Begin, Accepted, Rejected, Adopt, Finish, Fail, Close
    <3>a. \A e \in Dials \ {d} : dial'[e] = dial[e]
      BY <2>1, <2>2, <2>6 DEF Begin, Accepted, Rejected, Adopt, Finish, Fail, Close, Becomes
    <3>b. ASSUME Begin(d) \/ Accepted(d) \/ Finish(d) \/ Fail(d) \/ Close(d)
          PROVE  dial'[d].pc # "record"
      BY <2>1, <2>2, <3>b DEF Begin, Accepted, Finish, Fail, Close, Becomes, IdleDial, DialState
    <3>c. ASSUME Rejected(d) \/ Adopt(d) PROVE dial'[d].pc # "record"
      BY <2>1, <2>2, <3>c DEF Rejected, Adopt, Becomes, IdleDial, DialState, DialStates
    <3>2. dial'[d].pc # "record" /\ \A e \in Dials \ {d} : dial'[e] = dial[e]
      BY <2>6, <3>a, <3>b, <3>c
    <3> QED BY <2>1, <3>1, <3>2 DEF Settled, store, At
  <2>7. ASSUME NEW d \in Dials, Verify(d) PROVE file' = file /\ Settled'
    <3>1. UNCHANGED store
      BY <2>7 DEF Verify
    <3>2. Becomes(d, "checked") \/ Becomes(d, "failed")
      BY <2>3, <2>7 DEF Verify
    <3>3. dial'[d].pc # "record" /\ \A e \in Dials \ {d} : dial'[e] = dial[e]
      BY <2>1, <2>2, <3>2 DEF Becomes, IdleDial, DialState
    <3> QED BY <2>1, <3>1, <3>3 DEF Settled, store, At
  <2>8. ASSUME NEW d \in Dials PROVE ~Record(d) /\ ~Write(d) /\ ~Remember(d)
    BY <2>1 DEF Record, Write, Remember, InSet, At
  <2> QED BY <2>4, <2>5, <2>6, <2>7, <2>8 DEF Next, Working
<1> QED BY <1>1, Invariance, PTL DEF Spec, PinsSettle
=============================================================================
