------------------------------- MODULE Engine -------------------------------
(***************************************************************************)
(* internal/engine: the owner of the running xray-core instance.  Apply,   *)
(* Stop and Status hold the mutex for the whole of their body; what they   *)
(* do inside is several steps, between which another program may take the  *)
(* listening port.                                                         *)
(*                                                                         *)
(* External: an instance that is started binds the port unless something   *)
(* holds it, may fail after it has bound it, and releases it when closed,  *)
(* even by a Close that reports an error.                                  *)
(***************************************************************************)
CONSTANTS
  Callers,    \* goroutines that use the engine
  Plans,      \* configurations, each with its plan
  NoPlan, NoOne,
  Stranger    \* another program on the listening port

ASSUME EngineAssumption ==
  /\ NoPlan \notin Plans /\ Stranger \notin Plans \cup {NoPlan}
  /\ NoOne \notin Callers

VARIABLES
  mu,         \* who holds the mutex
  inst,       \* the instance, as the configuration it was made from
  plan, lastErr,
  port,       \* who listens: an instance, another program or nobody
  pc, request, answer,
  before      \* history: plan and lastErr when the mutex was taken

engine == <<inst, plan, lastErr>>
vars == <<mu, engine, port, pc, request, answer, before>>

NoRequest == [op |-> "none", plan |-> NoPlan]
Requests  == [op : {"apply"}, plan : Plans] \cup [op : {"stop", "status"}, plan : {NoPlan}]
NoAnswer  == [ok |-> TRUE, plan |-> NoPlan, failed |-> FALSE]
Answers   == [ok : BOOLEAN, plan : Plans \cup {NoPlan}, failed : BOOLEAN]

Steps    == {"idle", "lock", "close", "load", "discard", "status", "unlock"}
Critical == Steps \ {"idle", "lock"}

GoTo(c, step) == pc' = [pc EXCEPT ![c] = step]

Init ==
  /\ mu = NoOne /\ inst = NoPlan /\ plan = NoPlan /\ lastErr = FALSE
  /\ port \in {NoPlan, Stranger}
  /\ pc = [c \in Callers |-> "idle"]
  /\ request = [c \in Callers |-> NoRequest]
  /\ answer = [c \in Callers |-> NoAnswer]
  /\ before = [plan |-> NoPlan, lastErr |-> FALSE]

Invoke(c, q) ==
  /\ pc[c] = "idle"
  /\ request' = [request EXCEPT ![c] = q]
  /\ answer' = [answer EXCEPT ![c] = NoAnswer]
  /\ GoTo(c, "lock")
  /\ UNCHANGED <<mu, engine, port, before>>

Lock(c) ==
  /\ pc[c] = "lock" /\ mu = NoOne
  /\ mu' = c
  /\ before' = [plan |-> plan, lastErr |-> lastErr]
  /\ GoTo(c, IF request[c].op = "status" THEN "status" ELSE "close")
  /\ UNCHANGED <<engine, port, request, answer>>

UnlockOnSuccess(c) ==      \* faulty: an early return leaves the mutex locked
  /\ pc[c] = "unlock"
  /\ mu' = IF answer[c].ok THEN NoOne ELSE mu
  /\ request' = [request EXCEPT ![c] = NoRequest]
  /\ GoTo(c, "idle")
  /\ UNCHANGED <<engine, port, answer, before>>

Unlock(c) ==
  /\ pc[c] = "unlock"
  /\ mu' = NoOne
  /\ request' = [request EXCEPT ![c] = NoRequest]
  /\ GoTo(c, "idle")
  /\ UNCHANGED <<engine, port, answer, before>>

\* stopLocked.  Stop returns the error of Close, Apply does not look at it.
StopKeepingPlan(c) ==      \* faulty: the plan is not reset
  /\ pc[c] = "close"
  /\ port' = IF inst = NoPlan THEN port ELSE NoPlan
  /\ inst' = NoPlan
  /\ GoTo(c, IF request[c].op = "apply" THEN "load" ELSE "unlock")
  /\ UNCHANGED <<mu, plan, lastErr, request, answer, before>>

StopLocked(c) ==
  /\ pc[c] = "close"
  /\ port' = IF inst = NoPlan THEN port ELSE NoPlan
  /\ inst' = NoPlan /\ plan' = NoPlan
  /\ \/ /\ request[c].op = "apply"
        /\ GoTo(c, "load")
        /\ UNCHANGED answer
     \/ /\ request[c].op = "stop"
        /\ \E ok \in {TRUE, inst = NoPlan} : answer' = [answer EXCEPT ![c].ok = ok]
        /\ GoTo(c, "unlock")
  /\ UNCHANGED <<mu, lastErr, request, before>>

\* failLocked, then return.
FailLocked(c) ==
  /\ lastErr' = TRUE
  /\ answer' = [answer EXCEPT ![c].ok = FALSE]
  /\ GoTo(c, "unlock")

\* LoadConfig, New and Start.
Launch(c) ==
  /\ pc[c] = "load"
  /\ \/ /\ FailLocked(c)                       \* not a configuration
        /\ UNCHANGED <<inst, plan, port>>
     \/ /\ port = NoPlan                       \* started
        /\ port' = request[c].plan
        /\ inst' = request[c].plan /\ plan' = request[c].plan
        /\ lastErr' = FALSE
        /\ GoTo(c, "unlock")
        /\ UNCHANGED answer
     \/ /\ \/ port' = port                     \* failed to start, perhaps half way
           \/ port = NoPlan /\ port' = request[c].plan
        /\ GoTo(c, "discard")
        /\ UNCHANGED <<engine, answer>>
  /\ UNCHANGED <<mu, request, before>>

DiscardWithoutClosing(c) ==   \* faulty: the instance that failed is not closed
  /\ pc[c] = "discard"
  /\ FailLocked(c)
  /\ UNCHANGED <<mu, inst, plan, port, request, before>>

Discard(c) ==
  /\ pc[c] = "discard"
  /\ port' = IF port = request[c].plan THEN NoPlan ELSE port
  /\ FailLocked(c)
  /\ UNCHANGED <<mu, inst, plan, request, before>>

Status(c) ==
  /\ pc[c] = "status"
  /\ answer' = [answer EXCEPT ![c] = [ok |-> TRUE, plan |-> plan, failed |-> lastErr]]
  /\ GoTo(c, "unlock")
  /\ UNCHANGED <<mu, engine, port, request, before>>

StrangerBinds ==
  /\ port \in {NoPlan, Stranger}
  /\ port' \in {NoPlan, Stranger} \ {port}
  /\ UNCHANGED <<mu, engine, pc, request, answer, before>>

Work(c) == Unlock(c) \/ StopLocked(c) \/ Launch(c) \/ Discard(c) \/ Status(c)

Next ==
  \/ \E c \in Callers : Lock(c) \/ Work(c) \/ \E q \in Requests : Invoke(c, q)
  \/ StrangerBinds

Spec == Init /\ [][Next]_vars

\* Go runs every goroutine, and sync.Mutex hands itself to a waiter that has
\* waited too long.  Nobody has to call the engine.
Fairness == \A c \in Callers : WF_vars(Work(c)) /\ SF_vars(Lock(c))

FairSpec == Spec /\ Fairness

-----------------------------------------------------------------------------
(* Properties                                                              *)

\* Every variable has its type, and the mutex guards the critical sections.
TypeOK ==
  /\ mu \in Callers \cup {NoOne}
  /\ inst \in Plans \cup {NoPlan} /\ plan \in Plans \cup {NoPlan} /\ lastErr \in BOOLEAN
  /\ port \in Plans \cup {NoPlan, Stranger}
  /\ pc \in [Callers -> Steps]
  /\ request \in [Callers -> Requests \cup {NoRequest}]
  /\ answer \in [Callers -> Answers]
  /\ before \in [plan : Plans \cup {NoPlan}, lastErr : BOOLEAN]

\* Between calls, whatever has failed on the way, the plan Status reports is the
\* plan of the instance that listens, and nothing the engine has forgotten
\* still listens: Stop can always release the port.
NothingForgotten ==
  mu = NoOne =>
    /\ plan = inst
    /\ port \in Plans \cup {NoPlan} => port = inst
    /\ inst \in Plans => port = inst

\* The calls are linearizable (Proxy): what each returns, and what the engine is
\* left serving, is as if it had run at one instant, its Unlock.
Atomic == INSTANCE Proxy WITH
  serving <- IF mu = NoOne THEN plan ELSE before.plan,
  failed  <- IF mu = NoOne THEN lastErr ELSE before.lastErr,
  answer  <- [c \in Callers |-> IF pc[c] = "idle" THEN answer[c] ELSE NoAnswer]

ImplementsProxy == Atomic!Spec

\* Every call of the engine returns: no path leaves the mutex locked.
CallsReturn == \A c \in Callers : pc[c] = "lock" ~> pc[c] = "idle"
=============================================================================
