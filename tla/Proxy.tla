------------------------------- MODULE Proxy -------------------------------
(***************************************************************************)
(* What internal/engine promises its callers: however many goroutines use  *)
(* it, each call takes effect at one instant between its invocation and    *)
(* its return.  A configuration that cannot be applied leaves the proxy    *)
(* stopped, with the error recorded, and never reverts to the old one.     *)
(***************************************************************************)
CONSTANTS Callers, Plans, NoPlan

VARIABLES
  serving,     \* the plan served, NoPlan when the proxy is stopped
  failed,      \* the last configuration could not be applied
  request,     \* what each caller is waiting for
  answer       \* what its last call returned

vars == <<serving, failed, request, answer>>

NoRequest == [op |-> "none", plan |-> NoPlan]
Requests  == [op : {"apply"}, plan : Plans] \cup [op : {"stop", "status"}, plan : {NoPlan}]

NoAnswer == [ok |-> TRUE, plan |-> NoPlan, failed |-> FALSE]
Answers  == [ok : BOOLEAN, plan : Plans \cup {NoPlan}, failed : BOOLEAN]

Init ==
  /\ serving = NoPlan /\ failed = FALSE
  /\ request = [c \in Callers |-> NoRequest]
  /\ answer = [c \in Callers |-> NoAnswer]

Invoke(c, q) ==
  /\ request[c] = NoRequest
  /\ request' = [request EXCEPT ![c] = q]
  /\ answer' = [answer EXCEPT ![c] = NoAnswer]
  /\ UNCHANGED <<serving, failed>>

Return(c, a) ==
  /\ request' = [request EXCEPT ![c] = NoRequest]
  /\ answer' = [answer EXCEPT ![c] = a]

Apply(c) ==
  /\ request[c].op = "apply"
  /\ \/ /\ serving' = request[c].plan /\ failed' = FALSE
        /\ Return(c, NoAnswer)
     \/ /\ serving' = NoPlan /\ failed' = TRUE
        /\ Return(c, [NoAnswer EXCEPT !.ok = FALSE])

\* A close that reports an error has stopped the proxy all the same.
Stop(c) ==
  /\ request[c].op = "stop"
  /\ serving' = NoPlan /\ UNCHANGED failed
  /\ \E ok \in {TRUE, serving = NoPlan} : Return(c, [NoAnswer EXCEPT !.ok = ok])

Status(c) ==
  /\ request[c].op = "status"
  /\ Return(c, [ok |-> TRUE, plan |-> serving, failed |-> failed])
  /\ UNCHANGED <<serving, failed>>

Next ==
  \E c \in Callers : Apply(c) \/ Stop(c) \/ Status(c) \/ \E q \in Requests : Invoke(c, q)

Spec == Init /\ [][Next]_vars
=============================================================================
