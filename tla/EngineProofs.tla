---------------------------- MODULE EngineProofs ----------------------------
(***************************************************************************)
(* Proofs about Engine, for any number of callers and configurations: its  *)
(* types, that what it reports is what listens, and that it implements     *)
(* Proxy.  The argument is that of any monitor: one caller at a time is in *)
(* its critical section (Exclusive), outside of one the engine and the     *)
(* port agree (Settled), inside one they are known step by step (Underway) *)
(* and what a call leaves behind when it unlocks is an outcome Proxy       *)
(* allows (Outcome).                                                       *)
(***************************************************************************)
EXTENDS Engine, TLAPS

Exclusive ==
  \A c \in Callers :
    /\ pc[c] \in Critical <=> mu = c
    /\ pc[c] = "idle" <=> request[c] = NoRequest
    /\ pc[c] \in {"load", "discard"} => request[c].op = "apply"
    /\ pc[c] = "close" => request[c].op \in {"apply", "stop"}
    /\ pc[c] = "status" => request[c].op = "status"
    /\ pc[c] \notin {"idle", "unlock"} => answer[c] = NoAnswer

Agree ==
  /\ plan = inst
  /\ port \in Plans \cup {NoPlan} => port = inst
  /\ inst \in Plans => port = inst

Settled ==
  (\A c \in Callers : pc[c] \notin {"load", "discard"}) => Agree

Underway ==
  \A c \in Callers :
    /\ pc[c] \in {"close", "status"} => before = [plan |-> plan, lastErr |-> lastErr]
    /\ pc[c] \in {"load", "discard"} => inst = NoPlan /\ plan = NoPlan
    /\ pc[c] = "load" => port \in {NoPlan, Stranger}
    /\ pc[c] = "discard" => port \in {NoPlan, Stranger, request[c].plan}

Outcome(c) ==
  \/ /\ request[c].op = "apply"
     /\ \/ plan = request[c].plan /\ lastErr = FALSE /\ answer[c] = NoAnswer
        \/ /\ plan = NoPlan /\ lastErr = TRUE
           /\ answer[c] = [NoAnswer EXCEPT !.ok = FALSE]
  \/ /\ request[c].op = "stop"
     /\ plan = NoPlan /\ lastErr = before.lastErr
     /\ \E ok \in {TRUE, before.plan = NoPlan} : answer[c] = [NoAnswer EXCEPT !.ok = ok]
  \/ /\ request[c].op = "status"
     /\ plan = before.plan /\ lastErr = before.lastErr
     /\ answer[c] = [ok |-> TRUE, plan |-> plan, failed |-> lastErr]

Outcomes == \A c \in Callers : pc[c] = "unlock" => Outcome(c)

IInv == TypeOK /\ Exclusive /\ Settled /\ Underway /\ Outcomes

-----------------------------------------------------------------------------
(* The invariant                                                           *)

\* Whoever is not in the critical section of the caller that is, waits or idles.
LEMMA Alone ==
  ASSUME IInv, NEW c \in Callers, pc[c] \in Critical
  PROVE  mu = c /\ \A d \in Callers \ {c} : pc[d] \in {"idle", "lock"}
  BY DEF IInv, TypeOK, Exclusive, Critical, Steps

\* The zero request and the zero answer are no plan's.
LEMMA Zeros ==
  /\ NoAnswer \in Answers /\ [NoAnswer EXCEPT !.ok = FALSE] \in Answers
  /\ NoRequest \notin Requests
  BY DEF NoAnswer, Answers, NoRequest, Requests

\* A stopped engine with no caller is inside the invariant.
LEMMA InitInv == ASSUME Init PROVE IInv
<1>1. TypeOK
  BY Zeros DEF Init, TypeOK, Steps
<1>2. Exclusive
  BY EngineAssumption DEF Init, Exclusive, Critical, Steps
<1>3. Settled /\ Underway /\ Outcomes
  BY EngineAssumption DEF Init, Settled, Agree, Underway, Outcomes
<1> QED BY <1>1, <1>2, <1>3 DEF IInv

\* A call that starts touches nothing of the engine.
LEMMA InvokeInv ==
  ASSUME IInv, NEW c \in Callers, NEW q \in Requests, Invoke(c, q)
  PROVE  IInv'
<1>1. TypeOK'
  BY Zeros DEF IInv, TypeOK, Invoke, GoTo, Steps, engine
<1>2. Exclusive'
  BY Zeros, EngineAssumption DEF IInv, TypeOK, Exclusive, Invoke, GoTo, Critical, Steps
<1>3. Settled'
  BY DEF IInv, TypeOK, Settled, Agree, Invoke, GoTo, engine
<1>4. Underway' /\ Outcomes'
  BY DEF IInv, TypeOK, Underway, Outcomes, Outcome, Invoke, GoTo, engine
<1> QED BY <1>1, <1>2, <1>3, <1>4 DEF IInv

\* Whoever takes the mutex finds the engine settled and notes how.
LEMMA LockInv ==
  ASSUME IInv, NEW c \in Callers, Lock(c)
  PROVE  IInv'
<1>0. request[c] \in Requests /\ request[c].op \in {"apply", "stop", "status"}
  BY DEF IInv, TypeOK, Exclusive, Lock, Requests
<1>1. TypeOK'
  BY DEF IInv, TypeOK, Lock, GoTo, Steps, engine
<1>2. Exclusive'
  BY <1>0, EngineAssumption DEF IInv, TypeOK, Exclusive, Lock, GoTo, Critical, Steps
<1>3. \A d \in Callers : pc[d] \in {"idle", "lock"}
  BY EngineAssumption DEF IInv, TypeOK, Exclusive, Lock, Critical, Steps
<1>4. Settled'
  BY <1>3 DEF IInv, TypeOK, Settled, Agree, Lock, GoTo, engine
<1>5. Underway' /\ Outcomes'
  BY <1>3 DEF IInv, TypeOK, Underway, Outcomes, Lock, GoTo, engine
<1> QED BY <1>1, <1>2, <1>4, <1>5 DEF IInv

\* Whoever gives it back leaves the engine settled.
LEMMA UnlockInv ==
  ASSUME IInv, NEW c \in Callers, Unlock(c)
  PROVE  IInv'
<1>0. mu = c /\ \A d \in Callers \ {c} : pc[d] \in {"idle", "lock"}
  BY Alone DEF Unlock, Critical, Steps
<1>1. TypeOK'
  BY DEF IInv, TypeOK, Unlock, GoTo, Steps, engine
<1>2. Exclusive'
  BY <1>0, EngineAssumption DEF IInv, TypeOK, Exclusive, Unlock, GoTo, Critical, Steps
<1>3. Settled'
  BY <1>0 DEF IInv, TypeOK, Settled, Agree, Unlock, GoTo, engine
<1>4. Underway' /\ Outcomes'
  BY <1>0 DEF IInv, TypeOK, Underway, Outcomes, Unlock, GoTo, engine
<1> QED BY <1>1, <1>2, <1>3, <1>4 DEF IInv

\* stopLocked releases whatever the engine holds.
LEMMA StopLockedInv ==
  ASSUME IInv, NEW c \in Callers, StopLocked(c)
  PROVE  IInv'
<1>0. mu = c /\ \A d \in Callers \ {c} : pc[d] \in {"idle", "lock"}
  BY Alone DEF StopLocked, Critical, Steps
<1>1. /\ inst' = NoPlan /\ plan' = NoPlan /\ lastErr' = lastErr /\ before' = before
      /\ request' = request /\ mu' = mu
      /\ before = [plan |-> plan, lastErr |-> lastErr]
      /\ pc[c] = "close" /\ answer[c] = NoAnswer
  BY DEF IInv, StopLocked, Underway, Exclusive
<1>2. port' \in {NoPlan, Stranger}
  BY <1>0, EngineAssumption DEF IInv, TypeOK, Settled, Agree, StopLocked
<1>3. CASE request[c].op = "apply"
  <2>1. pc' = [pc EXCEPT ![c] = "load"] /\ answer' = answer
    BY <1>3 DEF StopLocked, GoTo
  <2>2. TypeOK'
    BY <1>1, <1>2, <2>1 DEF IInv, TypeOK, Steps
  <2>3. Exclusive'
    BY <1>0, <1>1, <1>3, <2>1 DEF IInv, TypeOK, Exclusive, Critical, Steps
  <2>4. Settled' /\ Underway' /\ Outcomes'
    BY <1>0, <1>1, <1>2, <2>1 DEF IInv, TypeOK, Settled, Underway, Outcomes
  <2> QED BY <2>2, <2>3, <2>4 DEF IInv
<1>4. CASE request[c].op = "stop"
  <2>1. PICK ok \in {TRUE, inst = NoPlan} :
          pc' = [pc EXCEPT ![c] = "unlock"] /\ answer' = [answer EXCEPT ![c].ok = ok]
    BY <1>4 DEF StopLocked, GoTo
  <2>2. TypeOK'
    <3>1. ok \in BOOLEAN
      OBVIOUS
    <3>2. answer' \in [Callers -> Answers]
      BY <2>1, <3>1 DEF IInv, TypeOK, Answers
    <3> QED BY <1>1, <1>2, <2>1, <3>2 DEF IInv, TypeOK, Steps
  <2>3. Exclusive'
    BY <1>0, <1>1, <2>1 DEF IInv, TypeOK, Exclusive, Critical, Steps
  <2>4. plan = inst
    BY <1>0, <1>1 DEF IInv, Settled, Agree
  <2>5. Settled' /\ Underway'
    BY <1>0, <1>1, <1>2, <2>1, EngineAssumption DEF IInv, TypeOK, Settled, Agree, Underway
  <2>6. Outcome(c)'
    BY <1>1, <1>4, <2>1, <2>4 DEF IInv, TypeOK, Outcome
  <2>7. Outcomes'
    BY <1>0, <2>1, <2>6 DEF IInv, TypeOK, Outcomes
  <2> QED BY <2>2, <2>3, <2>5, <2>7 DEF IInv
<1> QED BY <1>3, <1>4 DEF StopLocked

\* A launch that works leaves the instance listening, one that does not leaves it
\* recorded or to be discarded.
LEMMA LaunchInv ==
  ASSUME IInv, NEW c \in Callers, Launch(c)
  PROVE  IInv'
<1>0. mu = c /\ \A d \in Callers \ {c} : pc[d] \in {"idle", "lock"}
  BY Alone DEF Launch, Critical, Steps
<1>1. /\ request' = request /\ before' = before /\ mu' = mu
      /\ pc[c] = "load" /\ request[c].op = "apply" /\ answer[c] = NoAnswer
      /\ inst = NoPlan /\ plan = NoPlan /\ port \in {NoPlan, Stranger}
  BY DEF IInv, Launch, Underway, Exclusive
<1>2. request[c].plan \in Plans
  BY <1>1 DEF IInv, TypeOK, Requests, NoRequest
<1>3. CASE /\ FailLocked(c)
           /\ UNCHANGED <<inst, plan, port>>
  <2>1. TypeOK'
    BY <1>1, <1>3 DEF IInv, TypeOK, FailLocked, GoTo, Steps, Answers
  <2>2. Exclusive'
    BY <1>0, <1>1, <1>3 DEF IInv, TypeOK, Exclusive, FailLocked, GoTo, Critical, Steps
  <2>3. Settled' /\ Underway'
    BY <1>0, <1>1, <1>3, EngineAssumption
    DEF IInv, TypeOK, Settled, Agree, Underway, FailLocked, GoTo
  <2>4. Outcomes'
    BY <1>0, <1>1, <1>3 DEF IInv, TypeOK, Outcomes, Outcome, FailLocked, GoTo
  <2> QED BY <2>1, <2>2, <2>3, <2>4 DEF IInv
<1>4. CASE /\ port = NoPlan
           /\ port' = request[c].plan
           /\ inst' = request[c].plan /\ plan' = request[c].plan
           /\ lastErr' = FALSE
           /\ GoTo(c, "unlock")
           /\ UNCHANGED answer
  <2>1. TypeOK'
    BY <1>1, <1>2, <1>4 DEF IInv, TypeOK, GoTo, Steps
  <2>2. Exclusive'
    BY <1>0, <1>1, <1>4 DEF IInv, TypeOK, Exclusive, GoTo, Critical, Steps
  <2>3. Settled' /\ Underway'
    BY <1>0, <1>1, <1>4 DEF IInv, TypeOK, Settled, Agree, Underway, GoTo
  <2>4. Outcomes'
    BY <1>0, <1>1, <1>4 DEF IInv, TypeOK, Outcomes, Outcome, GoTo
  <2> QED BY <2>1, <2>2, <2>3, <2>4 DEF IInv
<1>5. CASE /\ \/ port' = port
              \/ port = NoPlan /\ port' = request[c].plan
           /\ GoTo(c, "discard")
           /\ UNCHANGED <<engine, answer>>
  <2>1. TypeOK'
    BY <1>1, <1>2, <1>5 DEF IInv, TypeOK, GoTo, Steps, engine
  <2>2. Exclusive'
    BY <1>0, <1>1, <1>5 DEF IInv, TypeOK, Exclusive, GoTo, Critical, Steps, engine
  <2>3. Settled' /\ Underway' /\ Outcomes'
    BY <1>0, <1>1, <1>5 DEF IInv, TypeOK, Settled, Underway, Outcomes, GoTo, engine
  <2> QED BY <2>1, <2>2, <2>3 DEF IInv
<1> QED BY <1>3, <1>4, <1>5 DEF Launch

\* An instance that failed to start gives the port back.
LEMMA DiscardInv ==
  ASSUME IInv, NEW c \in Callers, Discard(c)
  PROVE  IInv'
<1>0. mu = c /\ \A d \in Callers \ {c} : pc[d] \in {"idle", "lock"}
  BY Alone DEF Discard, Critical, Steps
<1>1. /\ request' = request /\ before' = before /\ mu' = mu
      /\ pc[c] = "discard" /\ request[c].op = "apply" /\ answer[c] = NoAnswer
      /\ inst = NoPlan /\ plan = NoPlan /\ inst' = inst /\ plan' = plan
      /\ port' \in {NoPlan, Stranger}
  BY DEF IInv, Discard, Underway, Exclusive
<1>2. lastErr' = TRUE /\ answer' = [answer EXCEPT ![c].ok = FALSE]
      /\ pc' = [pc EXCEPT ![c] = "unlock"]
  BY DEF Discard, FailLocked, GoTo
<1>3. TypeOK'
  BY <1>1, <1>2 DEF IInv, TypeOK, Steps, Answers
<1>4. Exclusive'
  BY <1>0, <1>1, <1>2 DEF IInv, TypeOK, Exclusive, Critical, Steps
<1>5. Settled' /\ Underway'
  BY <1>0, <1>1, <1>2, EngineAssumption DEF IInv, TypeOK, Settled, Agree, Underway
<1>6. Outcomes'
  BY <1>0, <1>1, <1>2 DEF IInv, TypeOK, Outcomes, Outcome
<1> QED BY <1>3, <1>4, <1>5, <1>6 DEF IInv

\* Status reports the engine as it is.
LEMMA StatusInv ==
  ASSUME IInv, NEW c \in Callers, Status(c)
  PROVE  IInv'
<1>0. mu = c /\ \A d \in Callers \ {c} : pc[d] \in {"idle", "lock"}
  BY Alone DEF Status, Critical, Steps
<1>1. /\ pc[c] = "status" /\ request[c].op = "status"
      /\ before = [plan |-> plan, lastErr |-> lastErr]
      /\ answer' = [answer EXCEPT ![c] = [ok |-> TRUE, plan |-> plan, failed |-> lastErr]]
      /\ pc' = [pc EXCEPT ![c] = "unlock"]
      /\ UNCHANGED <<mu, inst, plan, lastErr, port, request, before>>
  BY DEF IInv, Status, Underway, Exclusive, GoTo, engine
<1>2. TypeOK'
  BY <1>1 DEF IInv, TypeOK, Steps, Answers
<1>3. Exclusive'
  BY <1>0, <1>1 DEF IInv, TypeOK, Exclusive, Critical, Steps
<1>4. Settled' /\ Underway'
  BY <1>0, <1>1 DEF IInv, TypeOK, Settled, Agree, Underway
<1>5. Outcomes'
  BY <1>0, <1>1 DEF IInv, TypeOK, Outcomes, Outcome
<1> QED BY <1>2, <1>3, <1>4, <1>5 DEF IInv

\* Another program can only take a port that is free.
LEMMA StrangerInv == ASSUME IInv, StrangerBinds PROVE IInv'
<1>1. TypeOK' /\ Exclusive' /\ Underway' /\ Outcomes'
  BY DEF IInv, TypeOK, Exclusive, Underway, Outcomes, Outcome, StrangerBinds, engine
<1>2. Settled'
  BY EngineAssumption DEF IInv, TypeOK, Settled, Agree, StrangerBinds, engine
<1> QED BY <1>1, <1>2 DEF IInv

\* One step of the engine, whichever it is.
LEMMA NextInv == ASSUME IInv, [Next]_vars PROVE IInv'
<1>1. CASE UNCHANGED vars
  BY <1>1 DEF vars, engine, IInv, TypeOK, Exclusive, Settled, Agree, Underway, Outcomes, Outcome
<1>2. CASE Next
  BY <1>2, InvokeInv, LockInv, UnlockInv, StopLockedInv, LaunchInv, DiscardInv, StatusInv,
     StrangerInv
  DEF Next, Work
<1> QED BY <1>1, <1>2

\* The inductive invariant holds in every reachable state of Engine.
THEOREM Invariance == Spec => []IInv
<1> QED BY InitInv, NextInv, PTL DEF Spec

\* Every variable of Engine keeps its type.
THEOREM TypeCorrect == Spec => []TypeOK
<1>1. IInv => TypeOK
  BY DEF IInv
<1> QED BY <1>1, Invariance, PTL

\* At most one call is inside the body of Apply, Stop or Status.
THEOREM OneAtATime ==
  Spec => [](\A c, d \in Callers : pc[c] \in Critical /\ pc[d] \in Critical => c = d)
<1>1. IInv => \A c, d \in Callers : pc[c] \in Critical /\ pc[d] \in Critical => c = d
  BY DEF IInv, Exclusive
<1> QED BY <1>1, Invariance, PTL

\* Between calls the plan reported is that of the instance that listens, and
\* nothing the engine has forgotten does (Apply closes what failed to start).
THEOREM NothingIsForgotten == Spec => []NothingForgotten
<1>1. IInv => NothingForgotten
  <2> SUFFICES ASSUME IInv, mu = NoOne PROVE Agree
    BY DEF NothingForgotten, Agree
  <2>1. \A c \in Callers : pc[c] \notin {"load", "discard"}
    BY EngineAssumption DEF IInv, Exclusive, Critical, Steps
  <2> QED BY <2>1 DEF IInv, Settled
<1> QED BY <1>1, Invariance, PTL

-----------------------------------------------------------------------------
(* Implementation.  The abstract proxy changes when a call unlocks.        *)

\* A stopped engine is a stopped proxy nobody has called.
LEMMA InitAtomic == ASSUME Init PROVE Atomic!Init
  BY DEF Init, Atomic!Init, NoRequest, Atomic!NoRequest, NoAnswer, Atomic!NoAnswer

\* Taking the mutex, and every step in the body, is invisible.
LEMMA InsideAtomic ==
  ASSUME IInv, NEW c \in Callers,
         Lock(c) \/ StopLocked(c) \/ Launch(c) \/ Discard(c) \/ Status(c)
  PROVE  UNCHANGED Atomic!vars
<1>1. /\ request' = request /\ pc[c] # "idle" /\ pc'[c] # "idle"
      /\ \A d \in Callers \ {c} : pc'[d] = pc[d] /\ answer'[d] = answer[d]
  BY DEF IInv, TypeOK, Lock, StopLocked, Launch, Discard, Status, GoTo, FailLocked
<1>2. [d \in Callers |-> IF pc[d] = "idle" THEN answer[d] ELSE NoAnswer]'
       = [d \in Callers |-> IF pc[d] = "idle" THEN answer[d] ELSE NoAnswer]
  BY <1>1
<1>3. CASE Lock(c)
  BY <1>1, <1>2, <1>3, EngineAssumption DEF IInv, TypeOK, Lock, engine, Atomic!vars
<1>4. CASE StopLocked(c) \/ Launch(c) \/ Discard(c) \/ Status(c)
  <2>1. mu = c /\ mu' = mu /\ before' = before
    BY <1>4, Alone DEF StopLocked, Launch, Discard, Status, Critical, Steps
  <2> QED BY <1>1, <1>2, <2>1, EngineAssumption DEF Atomic!vars
<1> QED BY <1>3, <1>4

\* A call that starts is one the proxy is waiting to serve.
LEMMA InvokeAtomic ==
  ASSUME IInv, NEW c \in Callers, NEW q \in Requests, Invoke(c, q)
  PROVE  Atomic!Invoke(c, q)
<1>1. request[c] = NoRequest /\ request' = [request EXCEPT ![c] = q]
  BY DEF IInv, Exclusive, Invoke
<1>2. [d \in Callers |-> IF pc[d] = "idle" THEN answer[d] ELSE NoAnswer]'
       = [[d \in Callers |-> IF pc[d] = "idle" THEN answer[d] ELSE NoAnswer]
            EXCEPT ![c] = NoAnswer]
  BY DEF IInv, TypeOK, Invoke, GoTo
<1>3. UNCHANGED <<mu, plan, lastErr, before>>
  BY DEF Invoke, engine
<1> QED BY <1>1, <1>2, <1>3
        DEF Atomic!Invoke, NoRequest, Atomic!NoRequest, NoAnswer, Atomic!NoAnswer

\* A call that unlocks returns one of the outcomes the proxy allows.
LEMMA UnlockAtomic ==
  ASSUME IInv, NEW c \in Callers, Unlock(c)
  PROVE  Atomic!Apply(c) \/ Atomic!Stop(c) \/ Atomic!Status(c)
<1> DEFINE Shown == [d \in Callers |-> IF pc[d] = "idle" THEN answer[d] ELSE NoAnswer]
<1>1. /\ mu = c /\ mu # NoOne /\ mu' = NoOne
      /\ plan' = plan /\ lastErr' = lastErr /\ before' = before
      /\ request' = [request EXCEPT ![c] = NoRequest]
      /\ Outcome(c)
  BY Alone, EngineAssumption DEF Unlock, Critical, Steps, engine, IInv, Outcomes
<1>2. Shown' = [Shown EXCEPT ![c] = answer[c]]
  BY DEF IInv, TypeOK, Unlock, GoTo
<1>3. NoRequest = Atomic!NoRequest
  BY DEF NoRequest, Atomic!NoRequest
<1>4. NoAnswer = Atomic!NoAnswer
  BY DEF NoAnswer, Atomic!NoAnswer
<1>5. /\ (IF mu = NoOne THEN plan ELSE before.plan) = before.plan
      /\ (IF mu = NoOne THEN lastErr ELSE before.lastErr) = before.lastErr
      /\ (IF mu' = NoOne THEN plan' ELSE before'.plan) = plan
      /\ (IF mu' = NoOne THEN lastErr' ELSE before'.lastErr) = lastErr
  BY <1>1
<1>6. CASE request[c].op = "apply"
  <2>1. CASE plan = request[c].plan /\ lastErr = FALSE /\ answer[c] = NoAnswer
    BY <1>1, <1>2, <1>3, <1>6, <1>4, <1>5, <2>1, Zenon DEF Atomic!Apply, Atomic!Return
  <2>2. CASE /\ plan = NoPlan /\ lastErr = TRUE
             /\ answer[c] = [NoAnswer EXCEPT !.ok = FALSE]
    BY <1>1, <1>2, <1>3, <1>6, <1>4, <1>5, <2>2, Zenon DEF Atomic!Apply, Atomic!Return
  <2> QED BY <1>1, <1>6, <2>1, <2>2 DEF Outcome
<1>7. CASE request[c].op = "stop"
  <2>1. PICK ok \in {TRUE, before.plan = NoPlan} : answer[c] = [NoAnswer EXCEPT !.ok = ok]
    BY <1>1, <1>7 DEF Outcome
  <2>2. plan = NoPlan /\ lastErr = before.lastErr
    BY <1>1, <1>7 DEF Outcome
  <2> QED BY <1>1, <1>2, <1>3, <1>7, <1>4, <1>5, <2>1, <2>2, Zenon DEF Atomic!Stop, Atomic!Return
<1>8. CASE request[c].op = "status"
  <2>1. /\ plan = before.plan /\ lastErr = before.lastErr
        /\ answer[c] = [ok |-> TRUE, plan |-> plan, failed |-> lastErr]
    BY <1>1, <1>8 DEF Outcome
  <2> QED BY <1>1, <1>2, <1>3, <1>8, <1>5, <2>1, Zenon DEF Atomic!Status, Atomic!Return
<1> QED BY <1>1, <1>6, <1>7, <1>8 DEF Outcome

\* Every step of the engine is one of the proxy or changes nothing it shows.
LEMMA NextAtomic == ASSUME IInv, [Next]_vars PROVE [Atomic!Next]_(Atomic!vars)
<1>1. CASE UNCHANGED vars
  BY <1>1 DEF vars, engine, Atomic!vars
<1>2. CASE StrangerBinds
  BY <1>2 DEF StrangerBinds, engine, Atomic!vars
<1>3. ASSUME NEW c \in Callers,
             Lock(c) \/ StopLocked(c) \/ Launch(c) \/ Discard(c) \/ Status(c)
      PROVE  UNCHANGED Atomic!vars
  BY <1>3, InsideAtomic
<1>4. ASSUME NEW c \in Callers, Unlock(c)
      PROVE  Atomic!Next
  BY <1>4, UnlockAtomic DEF Atomic!Next
<1>5. ASSUME NEW c \in Callers, NEW q \in Requests, Invoke(c, q)
      PROVE  Atomic!Next
  BY <1>5, InvokeAtomic DEF Atomic!Next, Requests, Atomic!Requests
<1> QED BY <1>1, <1>2, <1>3, <1>4, <1>5 DEF Next, Work

\* The engine's calls are linearizable, for any number of callers and plans.
THEOREM Implementation == Spec => ImplementsProxy
<1> QED BY InitAtomic, NextAtomic, Invariance, PTL DEF Spec, ImplementsProxy, Atomic!Spec
=============================================================================
