------------------------------- MODULE Store -------------------------------
(***************************************************************************)
(* What a Session promises when one goroutine refreshes: a Refresh returns *)
(* the directory that was published at one instant between its call and    *)
(* its return, completed with what was stored at that instant, and by then *)
(* that is what is stored; or it returns an error.  Tickets, version       *)
(* floors, the three ways to ask and the identity are not seen from here.  *)
(* What a crash or a failed write takes away is what was stored, never     *)
(* part of it.                                                             *)
(***************************************************************************)
EXTENDS Inventory

CONSTANTS
  Callers,
  Directory      \* the directories that are published, in order

VARIABLES
  generation,    \* how many of them have been published
  stored,        \* what the next process would load, NoInventory if nothing loads
  status,        \* of each caller: "idle", "busy", or what Refresh returned
  obtained       \* what its Refresh has been given

vars == <<generation, stored, status, obtained>>

Published == Directory[generation]

Init ==
  /\ generation = 1
  /\ stored \in {NoInventory} \cup {i \in {Directory[1]} : Validate(i)}
  /\ status = [c \in Callers |-> "idle"]
  /\ obtained = [c \in Callers |-> NoInventory]

Publish ==
  /\ generation < Len(Directory)
  /\ generation' = generation + 1
  /\ UNCHANGED <<stored, status, obtained>>

Give(c, i) == obtained' = [obtained EXCEPT ![c] = i]
Tell(c, s) == status' = [status EXCEPT ![c] = s]

Call(c) ==
  /\ status[c] # "busy"
  /\ Tell(c, "busy") /\ Give(c, NoInventory)
  /\ UNCHANGED <<generation, stored>>

\* A full directory, or one without its pool, over what is stored.
Answers == {Published, FillMissingFrom([Published EXCEPT !.root_domains = << >>], stored)}

Obtain(c) ==
  /\ status[c] = "busy" /\ obtained[c] = NoInventory
  /\ \E i \in Answers : Validate(i) /\ Give(c, i)
  /\ UNCHANGED <<generation, stored, status>>

\* What was obtained could not be written, and another is asked for.
Discard(c) ==
  /\ status[c] = "busy"
  /\ Give(c, NoInventory)
  /\ UNCHANGED <<generation, stored, status>>

\* Only who has something to put in its place may lose what is stored.
Lose(c) ==
  /\ status[c] = "busy" /\ obtained[c] # NoInventory
  /\ stored' = NoInventory
  /\ UNCHANGED <<generation, status, obtained>>

Keep(c) ==
  /\ status[c] = "busy" /\ obtained[c] # NoInventory
  /\ stored' = obtained[c]
  /\ \E s \in {"busy", "ok"} : Tell(c, s)
  /\ UNCHANGED <<generation, obtained>>

Succeed(c) ==
  /\ status[c] = "busy" /\ obtained[c] # NoInventory /\ stored = obtained[c]
  /\ Tell(c, "ok")
  /\ UNCHANGED <<generation, stored, obtained>>

Fail(c) ==
  /\ status[c] = "busy"
  /\ \E s \in {"needsAuth", "failed"} : Tell(c, s)
  /\ Give(c, NoInventory)
  /\ UNCHANGED <<generation, stored>>

\* A process ends, or is killed, with whoever calls from it.
End(C) ==
  /\ status' = [c \in Callers |-> IF c \in C THEN "idle" ELSE status[c]]
  /\ obtained' = [c \in Callers |-> IF c \in C THEN NoInventory ELSE obtained[c]]
  /\ UNCHANGED <<generation, stored>>

Next ==
  \/ Publish
  \/ \E c \in Callers :
       Call(c) \/ Obtain(c) \/ Discard(c) \/ Lose(c) \/ Keep(c) \/ Succeed(c) \/ Fail(c)
  \/ \E C \in SUBSET Callers : End(C)

Spec == Init /\ [][Next]_vars
=============================================================================
