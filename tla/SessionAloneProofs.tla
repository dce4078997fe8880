------------------------- MODULE SessionAloneProofs -------------------------
(***************************************************************************)
(* What Session promises when one goroutine refreshes, as in a -refresh    *)
(* command or a server without a console or without an updater: the        *)
(* version reported never falls, what a refresh returned is what is on     *)
(* disk, a ticket outlives the run that obtained it, and a Refresh is as   *)
(* good as atomic (Store).  Processes may still be many, and may stop at   *)
(* any step.                                                               *)
(***************************************************************************)
EXTENDS SessionProofs

-----------------------------------------------------------------------------
(* Where each step of a Refresh leads                                      *)

\* A move of the control variables, seen at the refresher that makes it.
LEMMA Arrives ==
  ASSUME IInv, NEW r \in Refreshers, NEW next, GoTo(r, next)
  PROVE  /\ next \in Outcomes => pc'[r] = "idle" /\ result'[r] = next
         /\ next \notin Outcomes => pc'[r] = next /\ result'[r] = result[r]
  BY SMT DEF IInv, TypeOK, GoTo

\* The steps before anything is stored return an error or nothing.
LEMMA EarlyMoves ==
  ASSUME IInv, NEW r \in Refreshers
  PROVE  /\ Refresh(r) => pc'[r] = "sync"
         /\ CallSync(r) => pc'[r] \in {"ticket", "parse", "reparse"}
         /\ AdoptFloor(r) => pc'[r] = "resync"
         /\ ReadTicket(r) => pc'[r] \in {"bootstrap", "redeem"}
         /\ RememberTicket(r) => pc'[r] = "save"
         /\ OpenNodes(r) => pc'[r] \in {"storeWrite", "bootstrap"}
                              \/ (pc'[r] = "idle" /\ result'[r] = "failed")
<1>1. Refresh(r) => pc'[r] = "sync"
  BY SMT DEF IInv, TypeOK, Refresh
<1>2. CallSync(r) => pc'[r] \in {"ticket", "parse", "reparse"}
  <2>1. CallSync(r) => GoTo(r, "ticket") \/ GoTo(r, "parse") \/ GoTo(r, "reparse")
    BY Zenon DEF CallSync
  <2> QED BY <2>1, Arrives DEF Outcomes
<1>3. AdoptFloor(r) => pc'[r] = "resync"
  BY Arrives DEF AdoptFloor, Outcomes
<1>4. ReadTicket(r) => pc'[r] \in {"bootstrap", "redeem"}
  <2>1. ReadTicket(r) => GoTo(r, "bootstrap") \/ GoTo(r, "redeem")
    BY Zenon DEF ReadTicket
  <2> QED BY <2>1, Arrives DEF Outcomes
<1>5. RememberTicket(r) => pc'[r] = "save"
  BY Arrives DEF RememberTicket, Outcomes
<1>6. ASSUME OpenNodes(r)
      PROVE  pc'[r] \in {"storeWrite", "bootstrap"} \/ (pc'[r] = "idle" /\ result'[r] = "failed")
  <2>1. GoTo(r, "storeWrite") \/ GoTo(r, AfterStore(r, FALSE))
    BY <1>6, Zenon DEF OpenNodes
  <2>2. AfterStore(r, FALSE) \in {"bootstrap", "failed"}
    BY <1>6, SMT DEF OpenNodes, At, IInv, Path, Storing, AfterStore
  <2> QED BY <2>1, <2>2, Arrives DEF Outcomes
<1> QED BY <1>1, <1>2, <1>3, <1>4, <1>5, <1>6

\* An answer with a directory leads to the disk, one without to the next attempt.
LEMMA AnswerMoves ==
  ASSUME IInv, NEW r \in Refreshers
  PROVE  /\ Redeem(r) => pc'[r] \in {"store", "bootstrap"}
                           \/ (pc'[r] = "idle" /\ result'[r] = "failed")
         /\ Bootstrap(r) => pc'[r] \in {"clear", "remember"}
                              \/ (pc'[r] = "idle" /\ result'[r] = "failed")
         /\ Authorize(r) => pc'[r] = "complete"
                              \/ (pc'[r] = "idle" /\ result'[r] \in {"needsAuth", "failed"})
<1>1. ASSUME Redeem(r)
      PROVE  pc'[r] \in {"store", "bootstrap"} \/ (pc'[r] = "idle" /\ result'[r] = "failed")
  <2>1. GoTo(r, "store") \/ GoTo(r, "bootstrap") \/ GoTo(r, "failed")
    BY <1>1, Zenon DEF Redeem
  <2> QED BY <2>1, Arrives DEF Outcomes
<1>2. ASSUME Bootstrap(r)
      PROVE  pc'[r] \in {"clear", "remember"} \/ (pc'[r] = "idle" /\ result'[r] = "failed")
  <2>1. GoTo(r, "clear") \/ GoTo(r, "remember") \/ GoTo(r, "failed")
    BY <1>2, Zenon DEF Bootstrap
  <2> QED BY <2>1, Arrives DEF Outcomes
<1>3. ASSUME Authorize(r)
      PROVE  pc'[r] = "complete" \/ (pc'[r] = "idle" /\ result'[r] \in {"needsAuth", "failed"})
  <2>1. GoTo(r, "complete") \/ GoTo(r, "needsAuth") \/ GoTo(r, "failed")
    BY <1>3, Zenon DEF Authorize
  <2> QED BY <2>1, Arrives DEF Outcomes
<1> QED BY <1>1, <1>2, <1>3

\* After the identity a Refresh goes on by what it is saved for: a ticket to be
\* approved, a directory still to be stored, or one that is stored.
LEMMA SaveMoves ==
  ASSUME IInv, NEW r \in Refreshers, ClearTicket(r) \/ OpenIdentity(r) \/ WriteIdentity(r)
  PROVE  /\ pc'[r] \in {"save", "saveWrite", "authorize", "store", "idle"}
         /\ pc'[r] = "save" => ClearTicket(r)
         /\ pc'[r] = "saveWrite" => OpenIdentity(r)
         /\ pc'[r] = "authorize" => writer[r] = "remember"
         /\ pc'[r] = "store" => writer[r] = "bootstrap"
         /\ pc'[r] = "idle" => result'[r] = "ok" /\ writer[r] \in {"redeem", "complete"}
<1>1. /\ writer[r] \in {"remember", "redeem", "bootstrap", "complete"}
      /\ result[r] = "none"
  BY SMT DEF ClearTicket, OpenIdentity, WriteIdentity, At, IInv, Path, Storing
<1>2. \/ GoTo(r, "save") /\ ClearTicket(r)
      \/ GoTo(r, "saveWrite") /\ OpenIdentity(r)
      \/ GoTo(r, AfterSave(r))
  BY Zenon DEF ClearTicket, OpenIdentity, WriteIdentity
<1>3. /\ writer[r] = "remember" => AfterSave(r) = "authorize"
      /\ writer[r] = "bootstrap" => AfterSave(r) = "store"
      /\ writer[r] \in {"redeem", "complete"} => AfterSave(r) = "ok"
  BY SMT DEF AfterSave
<1> QED BY <1>1, <1>2, <1>3, Arrives, SMT DEF Outcomes

\* A Forget leaves alone whoever belongs to another session.
LEMMA ForgetOthers ==
  ASSUME IInv, NEW s \in Sessions, Forget(s), NEW r \in Refreshers
  PROVE  \/ pc'[r] = "idle" /\ result'[r] = "none"
         \/ /\ SessionOf[r] # s
            /\ UNCHANGED <<pc[r], result[r], payload[r], ticket[r], draft[r], inv[r], writer[r],
                           running[SessionOf[r]], pendingTicket[SessionOf[r]],
                           appVersion[SessionOf[r]]>>
  BY SessionAssumption, SMT DEF IInv, TypeOK, Forget, Cleared

-----------------------------------------------------------------------------
(* The version reported: the floor a refresher adopts was above it when it *)
(* was compared, and nobody has adopted another since.                     *)

FloorPath(r) == pc[r] = "adopt" => BelowFloor(r)

VInv == \A r \in Refreshers : FloorPath(r)

\* parseSync alone leads to an adoption, and only of a higher floor.
LEMMA RefresherFloor ==
  ASSUME IInv, NEW r \in Refreshers, \A q \in Refreshers : q = r, RefresherStep(r)
  PROVE  VInv'
<1>1. CASE ParseSync(r)
  <2>1. \/ GoTo(r, "store") \/ GoTo(r, "ticket")
        \/ GoTo(r, "adopt") /\ BelowFloor(r)
    BY <1>1, Zenon DEF ParseSync
  <2>2. payload'[r].floor = payload[r].floor /\ UNCHANGED appVersion
    BY <1>1, SMT DEF ParseSync, IInv, TypeOK, NoReply, memory
  <2> QED BY <2>1, <2>2, Arrives DEF VInv, FloorPath, BelowFloor, Outcomes
<1>2. CASE ~ParseSync(r)
  <2>1. pc'[r] # "adopt"
    <3>1. CASE ClearTicket(r) \/ OpenIdentity(r) \/ WriteIdentity(r)
      BY <3>1, SaveMoves
    <3>2. CASE WriteNodes(r)
      <4>1. GoTo(r, AfterStore(r, TRUE)) \/ GoTo(r, AfterStore(r, FALSE))
        BY <3>2, Zenon DEF WriteNodes
      <4>2. /\ AfterStore(r, TRUE) \in {"ok", "clear"}
            /\ AfterStore(r, FALSE) \in {"failed", "bootstrap"}
        BY <3>2, SMT DEF WriteNodes, At, IInv, Path, Storing, AfterStore
      <4> QED BY <4>1, <4>2, Arrives DEF Outcomes
    <3> QED BY <1>2, <3>1, <3>2, EarlyMoves, AnswerMoves DEF RefresherStep
  <2> QED BY <2>1 DEF VInv, FloorPath
<1> QED BY <1>1, <1>2

\* A session that opens or ends takes its own refresher's floor with it.
LEMMA SessionFloor ==
  ASSUME IInv, VInv, NEW s \in Sessions, SessionStep(s) \/ Interrupt(s)
  PROVE  VInv'
<1>1. CASE Forget(s)
  BY <1>1, ForgetOthers DEF VInv, FloorPath, BelowFloor
<1>2. CASE ~Forget(s)
  <2>1. UNCHANGED <<pc, payload, appVersion>>
    BY <1>2 DEF SessionStep, OpenSession, NewIdentity, SaveNewIdentity, Finish, Interrupt,
       locals, control
  <2> QED BY <2>1 DEF VInv, FloorPath, BelowFloor
<1> QED BY <1>1, <1>2

\* Every floor that is to be adopted is above the version in use.
LEMMA FloorInvariance ==
  ASSUME \A r, q \in Refreshers : r = q
  PROVE  Spec => []VInv
<1>1. Init => VInv
  BY SMT DEF Init, VInv, FloorPath
<1>2. IInv /\ VInv /\ [Next]_vars => VInv'
  <2> SUFFICES ASSUME IInv, VInv, [Next]_vars PROVE VInv'
    OBVIOUS
  <2>1. ASSUME NEW r \in Refreshers, RefresherStep(r) PROVE VInv'
    BY <2>1, RefresherFloor
  <2>2. ASSUME NEW s \in Sessions, SessionStep(s) \/ Interrupt(s) PROVE VInv'
    BY <2>2, SessionFloor
  <2>3. CASE ControlPlaneStep \/ UNCHANGED vars
    BY <2>3 DEF ControlPlaneStep, ApproveClient, PublishDirectory, RaiseFloor, vars, memory,
       locals, control, VInv, FloorPath, BelowFloor
  <2> QED BY <2>1, <2>2, <2>3 DEF Next
<1> QED BY <1>1, <1>2, Invariance, PTL DEF Spec

\* With one refresher the version a running client reports never falls back, however
\* often the floor rises and whichever reply it was read from (VersionNeverFalls).
THEOREM VersionStays ==
  ASSUME \A r, q \in Refreshers : r = q
  PROVE  Spec => VersionNeverFalls
<1> DEFINE NoFall == \A s \in Sessions : running'[s] = "up" => appVersion'[s] >= appVersion[s]
<1>1. IInv /\ VInv /\ [Next]_vars => [NoFall]_vars
  <2> SUFFICES ASSUME IInv, VInv, Next PROVE NoFall
    BY DEF NoFall
  <2>0. \A s \in Sessions : appVersion[s] \in Nat
    BY SessionAssumption DEF IInv, TypeOK
  <2>1. CASE UNCHANGED appVersion
    BY <2>0, <2>1
  <2>2. ASSUME NEW r \in Refreshers, AdoptFloor(r) PROVE NoFall
    <3>1. BelowFloor(r)
      BY <2>2 DEF AdoptFloor, At, VInv, FloorPath
    <3>2. appVersion' = [appVersion EXCEPT ![SessionOf[r]] = payload[r].floor]
      BY <2>2 DEF AdoptFloor
    <3>3. payload[r].floor \in Nat
      BY SessionAssumption DEF IInv, TypeOK, Reply
    <3>4. appVersion \in [Sessions -> 0..MaxFloor]
      BY DEF IInv, TypeOK
    <3> QED BY <2>0, <3>1, <3>2, <3>3, <3>4, SMT DEF BelowFloor
  <2>3. ASSUME NEW s \in Sessions, Forget(s) PROVE NoFall
    <3>1. running'[s] = "down" /\ \A q \in Sessions \ {s} : appVersion'[q] = appVersion[q]
      BY <2>3, SMT DEF Forget, IInv, TypeOK
    <3> QED BY <2>0, <3>1
  <2>4. \/ UNCHANGED appVersion
        \/ \E r \in Refreshers : AdoptFloor(r)
        \/ \E s \in Sessions : Forget(s)
    <3>1. ASSUME NEW r \in Refreshers, RefresherStep(r)
          PROVE  UNCHANGED appVersion \/ AdoptFloor(r)
      BY <3>1 DEF RefresherStep, Refresh, CallSync, ParseSync, ReadTicket, Redeem, Bootstrap,
         RememberTicket, ClearTicket, Authorize, OpenIdentity, WriteIdentity, OpenNodes,
         WriteNodes, memory
    <3>2. ASSUME NEW s \in Sessions, SessionStep(s) \/ Interrupt(s)
          PROVE  UNCHANGED appVersion \/ Forget(s)
      BY <3>2 DEF SessionStep, OpenSession, NewIdentity, SaveNewIdentity, Finish, Interrupt
    <3>3. ControlPlaneStep => UNCHANGED appVersion
      BY DEF ControlPlaneStep, ApproveClient, PublishDirectory, RaiseFloor, memory
    <3> QED BY <3>1, <3>2, <3>3 DEF Next
  <2> QED BY <2>1, <2>2, <2>3, <2>4
<1> QED BY <1>1, FloorInvariance, Invariance, PTL DEF Spec, VersionNeverFalls

-----------------------------------------------------------------------------
(* The inventory returned: what was stored is still on disk while the      *)
(* ticket it was redeemed with is cleared, and a file that is being        *)
(* written holds nothing of another writer's.                              *)

StoredPath(r) ==
  /\ pc[r] = "idle" /\ result[r] = "ok" => nodesFile = NodesOf(inv[r])
  /\ pc[r] \in {"clear", "save", "saveWrite"} /\ writer[r] \in {"redeem", "complete"} =>
       nodesFile = NodesOf(inv[r])
  /\ pc[r] = "storeWrite" => nodesFile.state = "empty"

SInv == \A r \in Refreshers : StoredPath(r)

\* The write of nodes.json reports success only for the whole of what it was given.
LEMMA WriteNodesStored ==
  ASSUME IInv, SInv, NEW r \in Refreshers, WriteNodes(r), \A q \in Refreshers : q = r
  PROVE  SInv'
<1>1. nodesFile.state = "empty" /\ writer[r] \in Storing /\ UNCHANGED <<inv, writer>>
  BY DEF WriteNodes, At, SInv, StoredPath, IInv, Path, locals
<1>2. CASE nodesFile' \in Written(nodesFile, NodesOf(inv[r]), Nodes("garbage"))
  <2>1. nodesFile' = NodesOf(inv[r])
    BY <1>1, <1>2, Zenon DEF Written
  <2>2. GoTo(r, AfterStore(r, TRUE)) \/ GoTo(r, AfterStore(r, FALSE))
    BY Zenon DEF WriteNodes
  <2>3. /\ AfterStore(r, TRUE) \in {"ok", "clear"}
        /\ AfterStore(r, FALSE) \in {"failed", "bootstrap"}
    BY <1>1, SMT DEF Storing, AfterStore
  <2>4. pc'[r] # "storeWrite"
    BY <2>2, <2>3, Arrives DEF Outcomes
  <2> QED BY <1>1, <2>1, <2>4 DEF SInv, StoredPath
<1>3. CASE nodesFile' \notin Written(nodesFile, NodesOf(inv[r]), Nodes("garbage"))
  <2>1. GoTo(r, AfterStore(r, FALSE))
    BY <1>3, Zenon DEF WriteNodes
  <2>2. AfterStore(r, FALSE) \in {"failed", "bootstrap"}
    BY <1>1, SMT DEF Storing, AfterStore
  <2>3. pc'[r] = "bootstrap" \/ (pc'[r] = "idle" /\ result'[r] = "failed")
    BY <2>1, <2>2, Arrives DEF Outcomes
  <2> QED BY <2>3 DEF SInv, StoredPath
<1> QED BY <1>2, <1>3

\* No other step reports success before its inventory is on disk, or touches
\* nodes.json afterwards.
LEMMA RefresherStored ==
  ASSUME IInv, SInv, NEW r \in Refreshers, RefresherStep(r), \A q \in Refreshers : q = r
  PROVE  SInv'
<1>1. CASE WriteNodes(r)
  BY <1>1, WriteNodesStored
<1>2. CASE ClearTicket(r) \/ OpenIdentity(r) \/ WriteIdentity(r)
  <2>1. UNCHANGED <<nodesFile, inv, writer>> /\ pc[r] \in {"clear", "save", "saveWrite"}
    BY <1>2 DEF ClearTicket, OpenIdentity, WriteIdentity, At, disk, locals
  <2> QED BY <1>2, <2>1, SaveMoves DEF SInv, StoredPath
<1>3. CASE OpenNodes(r)
  <2>1. nodesFile' = Nodes("empty") \/ GoTo(r, AfterStore(r, FALSE))
    BY <1>3, Zenon DEF OpenNodes
  <2>2. AfterStore(r, FALSE) \in {"failed", "bootstrap"}
    BY <1>3, SMT DEF OpenNodes, At, IInv, Path, Storing, AfterStore
  <2>3. pc'[r] = "storeWrite" => nodesFile' = Nodes("empty")
    BY <2>1, <2>2, Arrives DEF Outcomes
  <2>4. Nodes("empty").state = "empty"
    BY DEF Nodes
  <2> QED BY <1>3, <2>3, <2>4, EarlyMoves DEF SInv, StoredPath
<1>4. CASE Bootstrap(r)
  <2>1. pc'[r] = "clear" => writer'[r] = "bootstrap"
    <3>1. \/ writer' = [writer EXCEPT ![r] = "bootstrap"]
          \/ GoTo(r, "remember") \/ GoTo(r, "failed")
      BY <1>4, Zenon DEF Bootstrap
    <3>2. writer \in [Refreshers -> Writers]
      BY DEF IInv, TypeOK
    <3>3. GoTo(r, "remember") \/ GoTo(r, "failed") => pc'[r] # "clear"
      BY Arrives DEF Outcomes
    <3> QED BY <3>1, <3>2, <3>3
  <2>2. pc'[r] \in {"clear", "remember"} \/ (pc'[r] = "idle" /\ result'[r] = "failed")
    BY <1>4, AnswerMoves
  <2> QED BY <2>1, <2>2 DEF SInv, StoredPath
<1>5. CASE RememberTicket(r)
  <2>1. writer' = [writer EXCEPT ![r] = "remember"] /\ writer \in [Refreshers -> Writers]
    BY <1>5 DEF RememberTicket, IInv, TypeOK
  <2>2. writer'[r] = "remember" /\ pc'[r] = "save"
    BY <1>5, <2>1, EarlyMoves
  <2> QED BY <2>2 DEF SInv, StoredPath
<1>6. CASE ParseSync(r)
  <2>1. GoTo(r, "store") \/ GoTo(r, "adopt") \/ GoTo(r, "ticket")
    BY <1>6, Zenon DEF ParseSync
  <2>2. pc'[r] \in {"store", "adopt", "ticket"}
    BY <2>1, Arrives DEF Outcomes
  <2> QED BY <2>2 DEF SInv, StoredPath
<1>7. CASE Refresh(r) \/ CallSync(r) \/ AdoptFloor(r) \/ ReadTicket(r)
  BY <1>7, EarlyMoves DEF SInv, StoredPath
<1>8. CASE Redeem(r) \/ Authorize(r)
  BY <1>8, AnswerMoves DEF SInv, StoredPath
<1> QED BY <1>1, <1>2, <1>3, <1>4, <1>5, <1>6, <1>7, <1>8 DEF RefresherStep

\* Opening, creating, finishing or interrupting a session leaves nodes.json alone.
LEMMA SessionStored ==
  ASSUME IInv, SInv,
         (\E s \in Sessions : SessionStep(s) \/ Interrupt(s)) \/ ControlPlaneStep \/ UNCHANGED vars
  PROVE  SInv'
<1>1. UNCHANGED nodesFile
  BY DEF SessionStep, OpenSession, NewIdentity, SaveNewIdentity, Finish, Interrupt,
     ControlPlaneStep, ApproveClient, PublishDirectory, RaiseFloor, vars, disk
<1>2. (\E s \in Sessions : Forget(s)) \/ UNCHANGED <<pc, result, inv, writer>>
  BY DEF SessionStep, OpenSession, NewIdentity, SaveNewIdentity, Finish, Interrupt,
     ControlPlaneStep, ApproveClient, PublishDirectory, RaiseFloor, vars, locals, control
<1>3. CASE \E s \in Sessions : Forget(s)
  BY <1>1, <1>3, ForgetOthers DEF SInv, StoredPath
<1>4. CASE UNCHANGED <<pc, result, inv, writer>>
  BY <1>1, <1>4 DEF SInv, StoredPath
<1> QED BY <1>2, <1>3, <1>4

\* What a refresh stored stays on disk until it has returned it.
LEMMA StoredInvariance ==
  ASSUME \A r, q \in Refreshers : r = q
  PROVE  Spec => []SInv
<1>1. Init => SInv
  BY SMT DEF Init, SInv, StoredPath
<1>2. IInv /\ SInv /\ [Next]_vars => SInv'
  <2> SUFFICES ASSUME IInv, SInv, [Next]_vars PROVE SInv'
    OBVIOUS
  <2>1. ASSUME NEW r \in Refreshers, RefresherStep(r) PROVE SInv'
    BY <2>1, RefresherStored
  <2> QED BY <2>1, SessionStored DEF Next
<1> QED BY <1>1, <1>2, Invariance, PTL DEF Spec

\* With one refresher, a refresh that reports success has left on disk exactly what it
\* returned, whatever failed on the way and however often it was tried (StoredIsReturned).
THEOREM ReturnedIsStored ==
  ASSUME \A r, q \in Refreshers : r = q
  PROVE  Spec => []StoredIsReturned
<1>1. SInv => StoredIsReturned
  BY DEF SInv, StoredPath, StoredIsReturned, At
<1> QED BY <1>1, StoredInvariance, PTL

-----------------------------------------------------------------------------
(* The ticket: whoever refreshes belongs to a session that runs, nobody    *)
(* runs beside a session that is creating its identity, and what a save    *)
(* has in hand is the ticket to be recorded, or nothing is recorded.       *)

Attended(r) == pc[r] # "idle" => running[SessionOf[r]] = "up"

Created ==
  /\ identityFile.state = "absent" =>
       recorded = NoTicket /\ \A s \in Sessions : running[s] = "down"
  /\ \A s \in Sessions : running[s] = "creating" =>
       /\ identityFile.state = "empty" /\ recorded = NoTicket
       /\ \A q \in Sessions \ {s} : running[q] = "down"

SavedPath(r) ==
  /\ pc[r] = "save" /\ writer[r] = "remember" => pendingTicket[SessionOf[r]] = ticket[r]
  /\ pc[r] = "saveWrite" /\ writer[r] = "remember" => draft[r] = ticket[r]
  /\ pc[r] \in {"save", "saveWrite"} /\ writer[r] # "remember" => recorded = NoTicket

TInv ==
  /\ TicketOutlivesRun
  /\ Created
  /\ \A r \in Refreshers : Attended(r) /\ SavedPath(r)

\* While somebody refreshes there is an identity and nobody is creating one.
LEMMA NobodyCreates ==
  ASSUME TInv, NEW r \in Refreshers, pc[r] # "idle"
  PROVE  /\ identityFile.state # "absent"
         /\ \A s \in Sessions : running[s] # "creating"
<1>1. SessionOf[r] \in Sessions /\ running[SessionOf[r]] = "up"
  BY SessionAssumption DEF TInv, Attended
<1> QED BY <1>1 DEF TInv, Created

\* Nothing that leaves the runs alone and the identity there disturbs its creation.
LEMMA CreatedStays ==
  ASSUME TInv, UNCHANGED running, NEW r \in Refreshers, pc[r] # "idle",
         identityFile'.state # "absent"
  PROVE  Created'
  BY NobodyCreates DEF Created

\* A step of a Refresh that does not save keeps the ticket and its history.
LEMMA QuietTicket ==
  ASSUME IInv, TInv, NEW r \in Refreshers, \A q \in Refreshers : q = r,
         UNCHANGED <<identityFile, running, recorded>>,
         pc'[r] # "idle" => running[SessionOf[r]] = "up",
         pc'[r] \notin {"save", "saveWrite"}
  PROVE  TInv'
<1>1. TicketOutlivesRun' /\ Created'
  BY DEF TInv, TicketOutlivesRun, Readable, Created
<1> QED BY <1>1 DEF TInv, Attended, SavedPath

\* rememberTicket and clearTicket set what the save that follows is to write.
LEMMA AssignTicket ==
  ASSUME IInv, TInv, NEW r \in Refreshers, \A q \in Refreshers : q = r,
         RememberTicket(r) \/ ClearTicket(r)
  PROVE  TInv'
<1>1. /\ UNCHANGED <<identityFile, running>> /\ running[SessionOf[r]] = "up"
      /\ pc[r] # "idle" /\ SessionOf[r] \in Sessions
  BY SessionAssumption DEF RememberTicket, ClearTicket, At, disk, TInv, Attended
<1>2. Created'
  BY <1>1, CreatedStays, NobodyCreates
<1>3. CASE RememberTicket(r)
  <2>1. /\ pendingTicket' = [pendingTicket EXCEPT ![SessionOf[r]] = ticket[r]]
        /\ writer' = [writer EXCEPT ![r] = "remember"]
        /\ UNCHANGED <<ticket, recorded>>
    BY <1>3 DEF RememberTicket, history
  <2>2. /\ pendingTicket \in [Sessions -> Tickets] /\ writer \in [Refreshers -> Writers]
    BY DEF IInv, TypeOK
  <2>3. pc'[r] = "save" /\ writer'[r] = "remember" /\ pendingTicket'[SessionOf[r]] = ticket'[r]
    BY <1>1, <1>3, <2>1, <2>2, EarlyMoves
  <2>4. TicketOutlivesRun'
    BY <1>1, <2>1 DEF TInv, TicketOutlivesRun, Readable
  <2> QED BY <1>1, <1>2, <2>3, <2>4 DEF TInv, Attended, SavedPath
<1>4. CASE ClearTicket(r)
  <2>1. writer[r] # "remember" /\ UNCHANGED writer
    BY <1>4, SMT DEF ClearTicket, At, IInv, Path, Storing, locals
  <2>2. \/ recorded' = NoTicket
        \/ UNCHANGED recorded /\ GoTo(r, AfterSave(r))
    BY <1>4, Zenon DEF ClearTicket
  <2>3. GoTo(r, AfterSave(r)) => pc'[r] \notin {"save", "saveWrite"}
    <3>1. AfterSave(r) \in {"authorize", "store", "ok"}
      BY SMT DEF AfterSave
    <3> QED BY <3>1, Arrives DEF Outcomes
  <2>4. TicketOutlivesRun'
    BY <1>1, <2>2 DEF TInv, TicketOutlivesRun, Readable
  <2>5. SavedPath(r)'
    BY <2>1, <2>2, <2>3 DEF SavedPath
  <2> QED BY <1>1, <1>2, <2>4, <2>5 DEF TInv, Attended
<1> QED BY <1>3, <1>4

\* Save reads the ticket when it opens the file, which then holds none.
LEMMA OpenIdentityTicket ==
  ASSUME IInv, TInv, NEW r \in Refreshers, \A q \in Refreshers : q = r, OpenIdentity(r)
  PROVE  TInv'
<1>1. /\ UNCHANGED <<running, ticket, writer, pendingTicket>> /\ running[SessionOf[r]] = "up"
      /\ pc[r] = "save" /\ draft \in [Refreshers -> Tickets]
  BY DEF OpenIdentity, At, memory, TInv, Attended, IInv, TypeOK
<1>2. \/ /\ \E t \in TicketReads(r) : draft' = [draft EXCEPT ![r] = t]
         /\ identityFile' = Identity("empty") /\ GoTo(r, "saveWrite") /\ UNCHANGED recorded
      \/ /\ GoTo(r, AfterSave(r)) /\ UNCHANGED identityFile
         /\ recorded' = IF writer[r] = "remember" THEN NoTicket ELSE recorded
  BY Zenon DEF OpenIdentity
<1>3. CASE /\ \E t \in TicketReads(r) : draft' = [draft EXCEPT ![r] = t]
           /\ identityFile' = Identity("empty") /\ GoTo(r, "saveWrite") /\ UNCHANGED recorded
  <2>1. TicketReads(r) = {pendingTicket[SessionOf[r]]}
    BY DEF TicketReads, TicketBeingAssigned
  <2>2. draft'[r] = pendingTicket[SessionOf[r]]
    BY <1>1, <1>3, <2>1
  <2>3. identityFile'.state = "empty"
    BY <1>3 DEF Identity
  <2>4. pc'[r] = "saveWrite"
    BY <1>3, Arrives DEF Outcomes
  <2>5. SavedPath(r)'
    BY <1>1, <1>3, <2>2, <2>4 DEF TInv, SavedPath
  <2>6. TicketOutlivesRun'
    BY <2>3 DEF TicketOutlivesRun, Readable
  <2>7. Created'
    BY <1>1, <2>3, CreatedStays
  <2> QED BY <1>1, <2>5, <2>6, <2>7 DEF TInv, Attended
<1>4. CASE /\ GoTo(r, AfterSave(r)) /\ UNCHANGED identityFile
           /\ recorded' = IF writer[r] = "remember" THEN NoTicket ELSE recorded
  <2>1. AfterSave(r) \in {"authorize", "store", "ok"}
    BY SMT DEF AfterSave
  <2>2. pc'[r] \notin {"save", "saveWrite"}
    BY <1>4, <2>1, Arrives DEF Outcomes
  <2>3. TicketOutlivesRun'
    BY <1>4 DEF TInv, TicketOutlivesRun, Readable
  <2>4. Created'
    BY <1>1, <1>4, CreatedStays, NobodyCreates
  <2> QED BY <1>1, <2>2, <2>3, <2>4 DEF TInv, Attended, SavedPath
<1> QED BY <1>2, <1>3, <1>4

\* A whole write of the ticket it was to record, or one after the ticket was cleared.
LEMMA WriteIdentityTicket ==
  ASSUME IInv, TInv, NEW r \in Refreshers, \A q \in Refreshers : q = r, WriteIdentity(r)
  PROVE  TInv'
<1>1. /\ UNCHANGED <<running, writer>> /\ running[SessionOf[r]] = "up" /\ pc[r] = "saveWrite"
      /\ writer[r] # "remember" => recorded = NoTicket
      /\ writer[r] = "remember" => draft[r] = ticket[r]
  BY DEF WriteIdentity, At, memory, TInv, Attended, SavedPath
<1>2. \/ /\ identityFile' \in {IdentityOf(draft[r]), Identity("garbage")}
         /\ recorded' = IF writer[r] = "remember" THEN ticket[r] ELSE recorded
      \/ /\ identityFile' \in {identityFile, Identity("garbage")}
         /\ recorded' = IF writer[r] = "remember" THEN NoTicket ELSE recorded
  BY Zenon DEF WriteIdentity, Written, HalfWritten
<1>3. /\ IdentityOf(draft[r]).ticket = draft[r] /\ IdentityOf(draft[r]).state = "ok"
      /\ Identity("garbage").state = "garbage"
  BY DEF Identity, IdentityOf
<1>4. TicketOutlivesRun'
  BY <1>1, <1>2, <1>3 DEF TicketOutlivesRun, Readable
<1>5. Created'
  <2>1. identityFile'.state # "absent"
    BY <1>1, <1>2, <1>3, NobodyCreates
  <2> QED BY <1>1, <2>1, CreatedStays
<1>6. pc'[r] \notin {"save", "saveWrite"}
  <2>1. GoTo(r, AfterSave(r)) /\ AfterSave(r) \in {"authorize", "store", "ok"}
    BY SMT DEF WriteIdentity, AfterSave
  <2> QED BY <2>1, Arrives DEF Outcomes
<1> QED BY <1>1, <1>4, <1>5, <1>6 DEF TInv, Attended, SavedPath

\* Every step of the refresher keeps the ticket.
LEMMA RefresherTicket ==
  ASSUME IInv, TInv, NEW r \in Refreshers, RefresherStep(r), \A q \in Refreshers : q = r
  PROVE  TInv'
<1>1. CASE RememberTicket(r) \/ ClearTicket(r)
  BY <1>1, AssignTicket
<1>2. CASE OpenIdentity(r)
  BY <1>2, OpenIdentityTicket
<1>3. CASE WriteIdentity(r)
  BY <1>3, WriteIdentityTicket
<1>4. CASE ~(RememberTicket(r) \/ ClearTicket(r) \/ OpenIdentity(r) \/ WriteIdentity(r))
  <2>1. /\ UNCHANGED <<identityFile, running, recorded>>
        /\ pc[r] # "idle" \/ running[SessionOf[r]] = "up"
    BY <1>4 DEF RefresherStep, Refresh, CallSync, ParseSync, AdoptFloor, ReadTicket, Redeem,
       Bootstrap, Authorize, OpenNodes, WriteNodes, At, disk, memory, history
  <2>2. running[SessionOf[r]] = "up"
    BY <2>1 DEF TInv, Attended
  <2>3. pc'[r] \notin {"save", "saveWrite"}
    <3>1. CASE ParseSync(r)
      <4>1. GoTo(r, "store") \/ GoTo(r, "adopt") \/ GoTo(r, "ticket")
        BY <3>1, Zenon DEF ParseSync
      <4> QED BY <4>1, Arrives DEF Outcomes
    <3>2. CASE WriteNodes(r)
      <4>1. GoTo(r, AfterStore(r, TRUE)) \/ GoTo(r, AfterStore(r, FALSE))
        BY <3>2, Zenon DEF WriteNodes
      <4>2. /\ AfterStore(r, TRUE) \in {"ok", "clear"}
            /\ AfterStore(r, FALSE) \in {"failed", "bootstrap"}
        BY <3>2, SMT DEF WriteNodes, At, IInv, Path, Storing, AfterStore
      <4> QED BY <4>1, <4>2, Arrives DEF Outcomes
    <3> QED BY <1>4, <3>1, <3>2, EarlyMoves, AnswerMoves DEF RefresherStep
  <2> QED BY <2>1, <2>2, <2>3, QuietTicket
<1> QED BY <1>1, <1>2, <1>3, <1>4

\* A session that ends takes its refreshers with it, and leaves the file as it was.
LEMMA ForgetTicket ==
  ASSUME IInv, TInv, NEW s \in Sessions, Forget(s), UNCHANGED <<disk, recorded>>
  PROVE  TInv'
<1>1. \A q \in Sessions : running'[q] = "down" \/ running'[q] = running[q]
  BY SMT DEF Forget, IInv, TypeOK
<1>2. TicketOutlivesRun' /\ Created'
  BY <1>1 DEF TInv, TicketOutlivesRun, Readable, Created, disk
<1>3. \A r \in Refreshers : (Attended(r) /\ SavedPath(r))'
  BY ForgetOthers DEF TInv, Attended, SavedPath
<1> QED BY <1>2, <1>3 DEF TInv

\* A session that opens finds the ticket; one that creates an identity has none.
LEMMA SessionTicket ==
  ASSUME IInv, TInv, NEW s \in Sessions, SessionStep(s) \/ Interrupt(s)
  PROVE  TInv'
<1>0. running \in [Sessions -> {"down", "creating", "up"}]
  BY DEF IInv, TypeOK
<1>1. CASE OpenSession(s)
  <2>1. /\ running[s] = "down" /\ identityFile.state = "ok"
        /\ running' = [running EXCEPT ![s] = "up"]
        /\ pendingTicket' = [pendingTicket EXCEPT ![s] = identityFile.ticket]
        /\ UNCHANGED <<identityFile, recorded, pc, writer, ticket, draft>>
    BY <1>1 DEF OpenSession, Readable, disk, history, control, locals
  <2>2. \A r \in Refreshers : pc[r] # "idle" => SessionOf[r] # s
    BY <2>1 DEF TInv, Attended
  <2>3. \A r \in Refreshers : (Attended(r) /\ SavedPath(r))'
    <3>1. pendingTicket \in [Sessions -> Tickets]
      BY DEF IInv, TypeOK
    <3> QED BY <1>0, <2>1, <2>2, <3>1, SessionAssumption DEF TInv, Attended, SavedPath
  <2>4. TicketOutlivesRun' /\ Created'
    BY <1>0, <2>1 DEF TInv, TicketOutlivesRun, Readable, Created
  <2> QED BY <2>3, <2>4 DEF TInv
<1>2. CASE NewIdentity(s)
  <2>1. /\ identityFile.state = "absent" /\ identityFile' = Identity("empty")
        /\ running' = [running EXCEPT ![s] = "creating"]
        /\ UNCHANGED <<recorded, pc, writer, ticket, draft, pendingTicket>>
    BY <1>2 DEF NewIdentity, history, control, locals
  <2>2. recorded = NoTicket /\ \A q \in Sessions : running[q] = "down"
    BY <2>1 DEF TInv, Created
  <2>3. identityFile'.state = "empty"
    BY <2>1 DEF Identity
  <2>4. \A r \in Refreshers : (Attended(r) /\ SavedPath(r))'
    BY <2>1, <2>2, SessionAssumption DEF TInv, Attended, SavedPath
  <2>5. TicketOutlivesRun' /\ Created'
    BY <1>0, <2>1, <2>2, <2>3 DEF TicketOutlivesRun, Readable, Created
  <2> QED BY <2>4, <2>5 DEF TInv
<1>3. CASE SaveNewIdentity(s)
  <2>1. /\ running[s] = "creating"
        /\ running' = [running EXCEPT ![s] = "up"] \/ running' = [running EXCEPT ![s] = "down"]
        /\ identityFile' \in {identityFile, IdentityOf(NoTicket), Identity("garbage")}
        /\ UNCHANGED <<recorded, pc, writer, ticket, draft, pendingTicket>>
    BY <1>3, Zenon DEF SaveNewIdentity, Written, HalfWritten, control, locals
  <2>2. /\ recorded = NoTicket /\ identityFile.state = "empty"
        /\ \A q \in Sessions \ {s} : running[q] = "down"
    BY <2>1 DEF TInv, Created
  <2>3. identityFile'.state # "absent"
    BY <2>1, <2>2 DEF IdentityOf, Identity
  <2>4. \A r \in Refreshers : pc[r] = "idle"
    BY <2>1, <2>2, SessionAssumption DEF TInv, Attended
  <2>5. TicketOutlivesRun' /\ Created'
    BY <1>0, <2>1, <2>2, <2>3 DEF TicketOutlivesRun, Created
  <2> QED BY <2>1, <2>4, <2>5 DEF TInv, Attended, SavedPath
<1>4. CASE Finish(s)
  BY <1>4, ForgetTicket DEF Finish, history
<1>5. CASE Interrupt(s)
  BY <1>5, ForgetTicket DEF Interrupt
<1> QED BY <1>1, <1>2, <1>3, <1>4, <1>5 DEF SessionStep

\* With one refresher, the ticket last recorded without a warning and not redeemed
\* since is the one the next run finds, wherever the last one stopped (TicketOutlivesRun).
THEOREM TicketIsFound ==
  ASSUME \A r, q \in Refreshers : r = q
  PROVE  Spec => []TicketOutlivesRun
<1>1. Init => TInv
  <2> SUFFICES ASSUME Init PROVE TInv
    OBVIOUS
  <2>1. TicketOutlivesRun /\ Created
    BY DEF Init, TicketOutlivesRun, Created
  <2>2. \A r \in Refreshers : Attended(r) /\ SavedPath(r)
    BY SMT DEF Init, Attended, SavedPath
  <2> QED BY <2>1, <2>2 DEF TInv
<1>2. IInv /\ TInv /\ [Next]_vars => TInv'
  <2> SUFFICES ASSUME IInv, TInv, [Next]_vars PROVE TInv'
    OBVIOUS
  <2>1. ASSUME NEW r \in Refreshers, RefresherStep(r) PROVE TInv'
    BY <2>1, RefresherTicket
  <2>2. ASSUME NEW s \in Sessions, SessionStep(s) \/ Interrupt(s) PROVE TInv'
    BY <2>2, SessionTicket
  <2>3. CASE ControlPlaneStep \/ UNCHANGED vars
    BY <2>3 DEF ControlPlaneStep, ApproveClient, PublishDirectory, RaiseFloor, vars, disk, memory,
       locals, control, history, TInv, TicketOutlivesRun, Readable, Created, Attended, SavedPath
  <2> QED BY <2>1, <2>2, <2>3 DEF Next
<1>3. TInv => TicketOutlivesRun
  BY DEF TInv
<1> QED BY <1>1, <1>2, <1>3, Invariance, PTL DEF Spec

-----------------------------------------------------------------------------
(* The refinement of Store: what one refresher has in hand passed Validate *)
(* when it was parsed, and nothing is on disk while it is being written.   *)

\* Store speaks of inventories as Session does.
LEMMA SameInventories ==
  /\ Promised!NoInventory = NoInventory /\ Promised!Published = Published
  /\ \A i : Promised!Validate(i) <=> Validate(i)
  /\ \A i, j : Promised!FillMissingFrom(i, j) = FillMissingFrom(i, j)
<1>1. Promised!NoInventory = NoInventory
  BY Zenon DEF NoInventory, Promised!NoInventory
<1>2. Promised!Published = Published
  BY DEF Published, Promised!Published
<1>3. ASSUME NEW i PROVE Promised!Validate(i) <=> Validate(i)
  BY Zenon DEF Validate, Promised!Validate, HasUsableKey, Promised!HasUsableKey, KeyLength,
     Promised!KeyLength
<1>4. ASSUME NEW i, NEW j PROVE Promised!FillMissingFrom(i, j) = FillMissingFrom(i, j)
  BY Zenon DEF FillMissingFrom, Promised!FillMissingFrom
<1> QED BY <1>1, <1>2, <1>3, <1>4

\* What the only refresher shows is all there is to see.
LEMMA SeenAlone ==
  ASSUME NEW r \in Refreshers, \A q \in Refreshers : q = r, NEW v
  PROVE  /\ InHand(r)' = v => Promised!Give(r, v)
         /\ StatusOf(r)' = v => Promised!Tell(r, v)
<1>1. ASSUME InHand(r)' = v PROVE Promised!Give(r, v)
  <2>1. [q \in Refreshers |-> InHand(q)]' = [[q \in Refreshers |-> InHand(q)] EXCEPT ![r] = v]
    BY <1>1
  <2> QED BY <2>1 DEF Promised!Give
<1>2. ASSUME StatusOf(r)' = v PROVE Promised!Tell(r, v)
  <2>1. [q \in Refreshers |-> StatusOf(q)]' = [[q \in Refreshers |-> StatusOf(q)] EXCEPT ![r] = v]
    BY <1>2
  <2> QED BY <2>1 DEF Promised!Tell
<1> QED BY <1>1, <1>2

\* What is in hand and what is told, from where the refresher is: before a step
LEMMA HandBefore ==
  ASSUME NEW r \in Refreshers
  PROVE  /\ pc[r] \in {"store", "storeWrite", "clear"} => InHand(r) = inv[r]
         /\ pc[r] \in {"save", "saveWrite"} =>
              InHand(r) = IF writer[r] # "remember" THEN inv[r] ELSE NoInventory
         /\ pc[r] \in {"sync", "resync", "adopt", "ticket", "redeem", "bootstrap", "remember",
                       "authorize", "complete"} => InHand(r) = NoInventory
         /\ pc[r] # "idle" => StatusOf(r) = "busy"
         /\ pc[r] = "idle" => StatusOf(r) = IF result[r] = "none" THEN "idle" ELSE result[r]
  BY DEF InHand, StatusOf, At

\* and after it.
LEMMA HandAfter ==
  ASSUME NEW r \in Refreshers
  PROVE  /\ pc'[r] \in {"store", "storeWrite", "clear"} => InHand(r)' = inv'[r]
         /\ pc'[r] \in {"save", "saveWrite"} =>
              InHand(r)' = IF writer'[r] # "remember" THEN inv'[r] ELSE NoInventory
         /\ pc'[r] = "idle" => InHand(r)' = IF result'[r] = "ok" THEN inv'[r] ELSE NoInventory
         /\ pc'[r] \in {"sync", "resync", "adopt", "ticket", "redeem", "bootstrap", "remember",
                        "authorize", "complete"} => InHand(r)' = NoInventory
         /\ pc'[r] # "idle" => StatusOf(r)' = "busy"
         /\ pc'[r] = "idle" => StatusOf(r)' = IF result'[r] = "none" THEN "idle" ELSE result'[r]
  BY DEF InHand, StatusOf, At

\* What is on its way to nodes.json has passed Validate.
UInv == \A r \in Refreshers : writer[r] \in Storing => Validate(inv[r])

LEMMA Unusable == ~Validate(NoInventory)
  BY Zenon DEF Validate, NoInventory

\* Only parsing gives a refresher something to store.
LEMMA RefresherUsable ==
  ASSUME IInv, UInv, NEW r \in Refreshers, RefresherStep(r)
  PROVE  UInv'
<1>1. inv \in [Refreshers -> InventoryType] /\ writer \in [Refreshers -> Writers]
  BY DEF IInv, TypeOK
<1>2. \/ UNCHANGED <<inv, writer>>
      \/ \E i, w : /\ inv' = [inv EXCEPT ![r] = i] /\ writer' = [writer EXCEPT ![r] = w]
                   /\ w \in Storing => Validate(i)
  <2>1. CASE ParseSync(r)
    <3>1. \/ \E i : /\ inv' = [inv EXCEPT ![r] = i] /\ writer' = [writer EXCEPT ![r] = "sync"]
                    /\ Validate(i)
          \/ UNCHANGED <<inv, writer>>
      BY <2>1, Zenon DEF ParseSync
    <3> QED BY <3>1
  <2>2. CASE Redeem(r)
    <3>1. \/ /\ inv' = [inv EXCEPT ![r] = Published] /\ writer' = [writer EXCEPT ![r] = pc[r]]
             /\ Validate(Published)
          \/ UNCHANGED <<inv, writer>>
      BY <2>2, Zenon DEF Redeem
    <3> QED BY <3>1
  <2>3. CASE Bootstrap(r)
    <3>1. \/ /\ inv' = [inv EXCEPT ![r] = Published] /\ writer' = [writer EXCEPT ![r] = "bootstrap"]
             /\ Validate(Published)
          \/ UNCHANGED <<inv, writer>>
      BY <2>3, Zenon DEF Bootstrap, DirectoryFromBootstrap
    <3> QED BY <3>1
  <2>4. CASE RememberTicket(r)
    <3>1. inv' = [inv EXCEPT ![r] = inv[r]] /\ writer' = [writer EXCEPT ![r] = "remember"]
      BY <1>1, <2>4 DEF RememberTicket
    <3>2. "remember" \notin Storing
      BY DEF Storing
    <3> QED BY <3>1, <3>2
  <2>5. CASE Refresh(r)
    <3>1. inv' = [inv EXCEPT ![r] = NoInventory] /\ writer' = [writer EXCEPT ![r] = "none"]
      BY <2>5 DEF Refresh
    <3>2. "none" \notin Storing
      BY DEF Storing
    <3> QED BY <3>1, <3>2
  <2>6. CASE ~(ParseSync(r) \/ Redeem(r) \/ Bootstrap(r) \/ RememberTicket(r) \/ Refresh(r))
    BY <2>6 DEF RefresherStep, CallSync, AdoptFloor, ReadTicket, ClearTicket, Authorize,
       OpenIdentity, WriteIdentity, OpenNodes, WriteNodes, locals
  <2> QED BY <2>1, <2>2, <2>3, <2>4, <2>5, <2>6
<1> QED BY <1>1, <1>2 DEF UInv

\* The inventory in hand for nodes.json is one that Validate accepts.
LEMMA UsableInvariance == Spec => []UInv
<1>1. Init => UInv
  BY DEF Init, UInv, Storing
<1>2. IInv /\ UInv /\ [Next]_vars => UInv'
  <2> SUFFICES ASSUME IInv, UInv, [Next]_vars PROVE UInv'
    OBVIOUS
  <2>1. ASSUME NEW r \in Refreshers, RefresherStep(r) PROVE UInv'
    BY <2>1, RefresherUsable
  <2>2. ASSUME NEW s \in Sessions, SessionStep(s) \/ Interrupt(s) PROVE UInv'
    <3>1. CASE Forget(s)
      <4>1. ASSUME NEW r \in Refreshers, writer'[r] # writer[r] \/ inv'[r] # inv[r]
            PROVE  writer'[r] = "none"
        BY <3>1, <4>1 DEF Forget, Cleared
      <4> QED BY <4>1 DEF UInv, Storing
    <3>2. CASE ~Forget(s)
      <4>1. UNCHANGED <<inv, writer>>
        BY <2>2, <3>2 DEF SessionStep, OpenSession, NewIdentity, SaveNewIdentity, Finish,
           Interrupt, locals
      <4> QED BY <4>1 DEF UInv
    <3> QED BY <3>1, <3>2
  <2>3. CASE ControlPlaneStep \/ UNCHANGED vars
    BY <2>3 DEF ControlPlaneStep, ApproveClient, PublishDirectory, RaiseFloor, vars, locals, UInv
  <2> QED BY <2>1, <2>2, <2>3 DEF Next
<1> QED BY <1>1, <1>2, Invariance, PTL DEF Spec

\* The moves of Store, seen at the only refresher.
LEMMA StoreMoves ==
  ASSUME NEW r \in Refreshers, \A q \in Refreshers : q = r, UNCHANGED generation
  PROVE  /\ UNCHANGED <<OnDisk, StatusOf(r), InHand(r)>> => UNCHANGED Promised!vars
         /\ /\ StatusOf(r) # "busy" /\ StatusOf(r)' = "busy" /\ InHand(r)' = NoInventory
            /\ UNCHANGED OnDisk
            => Promised!Call(r)
         /\ /\ StatusOf(r) = "busy" /\ UNCHANGED <<OnDisk, StatusOf(r)>>
            /\ InHand(r) = NoInventory /\ Validate(InHand(r)')
            /\ InHand(r)' \in
                 {Published, FillMissingFrom([Published EXCEPT !.root_domains = << >>], OnDisk)}
            => Promised!Obtain(r)
         /\ /\ StatusOf(r) = "busy" /\ InHand(r)' = NoInventory /\ UNCHANGED <<OnDisk, StatusOf(r)>>
            => Promised!Discard(r)
         /\ /\ StatusOf(r) = "busy" /\ InHand(r) # NoInventory /\ OnDisk' = NoInventory
            /\ UNCHANGED <<StatusOf(r), InHand(r)>>
            => Promised!Lose(r)
         /\ /\ StatusOf(r) = "busy" /\ InHand(r) # NoInventory /\ OnDisk' = InHand(r)
            /\ StatusOf(r)' \in {"busy", "ok"} /\ UNCHANGED InHand(r)
            => Promised!Keep(r)
         /\ /\ StatusOf(r) = "busy" /\ InHand(r) # NoInventory /\ OnDisk = InHand(r)
            /\ StatusOf(r)' = "ok" /\ UNCHANGED <<OnDisk, InHand(r)>>
            => Promised!Succeed(r)
         /\ /\ StatusOf(r) = "busy" /\ StatusOf(r)' \in {"needsAuth", "failed"}
            /\ InHand(r)' = NoInventory /\ UNCHANGED OnDisk
            => Promised!Fail(r)
<1> DEFINE told == [q \in Refreshers |-> StatusOf(q)]
           hand == [q \in Refreshers |-> InHand(q)]
<1>1. /\ told[r] = StatusOf(r) /\ hand[r] = InHand(r)
      /\ UNCHANGED StatusOf(r) => UNCHANGED told
      /\ UNCHANGED InHand(r) => UNCHANGED hand
  OBVIOUS
<1>2. /\ Promised!Give(r, InHand(r)') /\ Promised!Tell(r, StatusOf(r)')
  BY SeenAlone
<1> QED BY <1>1, <1>2, SameInventories
        DEF Promised!vars, Promised!Call, Promised!Obtain, Promised!Answers, Promised!Discard,
            Promised!Lose, Promised!Keep, Promised!Succeed, Promised!Fail

\* A reply to a sync counts at once, if it can be used over what is on disk then.
LEMMA CallSyncStore ==
  ASSUME IInv, NEW r \in Refreshers, \A q \in Refreshers : q = r, CallSync(r)
  PROVE  Promised!Next \/ UNCHANGED Promised!vars
<1>1. UNCHANGED <<generation, nodesFile>> /\ pc[r] \in {"sync", "resync"}
  BY DEF CallSync, At, controlPlane, disk
<1>2. UNCHANGED OnDisk
  BY <1>1 DEF OnDisk
<1>3. InHand(r) = NoInventory /\ StatusOf(r) = "busy" /\ UNCHANGED StatusOf(r)
  BY <1>1, EarlyMoves, HandBefore, HandAfter
<1>4. CASE GoTo(r, "ticket")
  <2>1. pc'[r] = "ticket"
    BY <1>4, Arrives DEF Outcomes
  <2>2. UNCHANGED InHand(r)
    BY <1>3, <2>1, HandAfter
  <2> QED BY <1>1, <1>2, <1>3, <2>2, StoreMoves
<1>5. CASE ~GoTo(r, "ticket")
  <2>1. /\ payload' = [payload EXCEPT ![r] = IF UpToDate(SessionOf[r]) THEN SyncReply ELSE ReleaseReply]
        /\ GoTo(r, "parse") \/ GoTo(r, "reparse")
    BY <1>5, Zenon DEF CallSync
  <2>2. pc'[r] \in {"parse", "reparse"}
    BY <2>1, Arrives DEF Outcomes
  <2>3. payload'[r] = SyncReply \/ payload'[r] = ReleaseReply
    BY <2>1 DEF IInv, TypeOK
  <2> DEFINE full == [Published EXCEPT !.root_domains = << >>]
  <2>4. /\ SyncReply.dir = full /\ SyncReply.runtime = TRUE /\ ReleaseReply.runtime = FALSE
    BY Zenon DEF SyncReply, ReleaseReply
  <2> HIDE DEF full
  <2>5. Merged(payload[r].dir)' = Merged(payload'[r].dir)
    BY <1>1 DEF Merged, Loadable
  <2>6. \/ InHand(r)' = NoInventory
        \/ InHand(r)' = Merged(full) /\ Validate(Merged(full))
    <3>1. InHand(r)' = IF payload'[r].runtime /\ Validate(Merged(payload'[r].dir))
                       THEN Merged(payload'[r].dir) ELSE NoInventory
      BY <2>2, <2>5 DEF InHand, At
    <3> QED BY <2>3, <2>4, <3>1
  <2>7. Validate(Merged(full)) => Merged(full) = FillMissingFrom(full, OnDisk)
    <3>1. CASE Loadable(nodesFile)
      BY <3>1 DEF Merged, OnDisk
    <3>2. CASE ~Loadable(nodesFile)
      <4>1. Merged(full) = full
        BY <3>2 DEF Merged
      <4>2. full.root_domains = << >>
        BY DEF full, Published
      <4> QED BY <4>1, <4>2, Zenon DEF Validate
    <3> QED BY <3>1, <3>2
  <2>8. CASE InHand(r)' = NoInventory
    BY <1>1, <1>2, <1>3, <2>8, StoreMoves
  <2>9. CASE InHand(r)' = Merged(full) /\ Validate(Merged(full))
    <3>1. Promised!Obtain(r)
      BY <1>1, <1>2, <1>3, <2>7, <2>9, StoreMoves DEF full
    <3> QED BY <3>1 DEF Promised!Next
  <2> QED BY <2>6, <2>8, <2>9
<1> QED BY <1>4, <1>5

\* Parsing keeps what the reply brought.
LEMMA ParseSyncStore ==
  ASSUME IInv, NEW r \in Refreshers, \A q \in Refreshers : q = r, ParseSync(r)
  PROVE  UNCHANGED Promised!vars
<1>1. UNCHANGED <<generation, nodesFile>> /\ pc[r] \in {"parse", "reparse"}
  BY DEF ParseSync, At, controlPlane, disk
<1>2. UNCHANGED OnDisk
  BY <1>1 DEF OnDisk
<1> DEFINE next == Merged(payload[r].dir)
           usable == payload[r].runtime /\ Validate(next)
<1>3. InHand(r) = IF usable THEN next ELSE NoInventory
  BY <1>1 DEF InHand, At
<1>4. \/ usable /\ inv' = [inv EXCEPT ![r] = next] /\ GoTo(r, "store")
      \/ ~usable /\ (GoTo(r, "adopt") \/ GoTo(r, "ticket"))
  BY Zenon DEF ParseSync
<1>5. \/ usable /\ inv'[r] = next /\ pc'[r] = "store"
      \/ ~usable /\ pc'[r] \in {"adopt", "ticket"}
  <2>1. inv \in [Refreshers -> InventoryType]
    BY DEF IInv, TypeOK
  <2> HIDE DEF usable, next
  <2> QED BY <1>4, <2>1, Arrives DEF Outcomes
<1> HIDE DEF usable, next
<1>6. UNCHANGED InHand(r)
  BY <1>3, <1>5, HandAfter
<1>7. StatusOf(r)' = "busy" /\ StatusOf(r) = "busy"
  BY <1>1, <1>5, HandBefore, HandAfter
<1> QED BY <1>1, <1>2, <1>6, <1>7, StoreMoves

\* A redeemed ticket or a bootstrap brings what is published.
LEMMA AnswerStore ==
  ASSUME IInv, NEW r \in Refreshers, \A q \in Refreshers : q = r, Redeem(r) \/ Bootstrap(r)
  PROVE  Promised!Next \/ UNCHANGED Promised!vars
<1>1. UNCHANGED <<generation, nodesFile>> /\ pc[r] \in {"redeem", "complete", "bootstrap"}
  BY DEF Redeem, Bootstrap, At, controlPlane, disk
<1>2. UNCHANGED OnDisk
  BY <1>1 DEF OnDisk
<1>3. InHand(r) = NoInventory /\ StatusOf(r) = "busy"
  BY <1>1, HandBefore
<1>4. \/ /\ GoTo(r, "store") \/ GoTo(r, "clear")
         /\ inv' = [inv EXCEPT ![r] = Published] /\ Validate(Published)
      \/ GoTo(r, "bootstrap") \/ GoTo(r, "remember")
      \/ GoTo(r, "failed")
  <2>1. CASE Redeem(r)
    BY <2>1, Zenon DEF Redeem
  <2>2. CASE Bootstrap(r)
    BY <2>2, Zenon DEF Bootstrap, DirectoryFromBootstrap
  <2> QED BY <2>1, <2>2
<1>5. CASE /\ GoTo(r, "store") \/ GoTo(r, "clear")
           /\ inv' = [inv EXCEPT ![r] = Published] /\ Validate(Published)
  <2>1. pc'[r] \in {"store", "clear"} /\ inv'[r] = Published
    BY <1>5, Arrives DEF Outcomes, IInv, TypeOK
  <2>2. InHand(r)' = Published /\ StatusOf(r)' = "busy"
    BY <2>1, HandAfter
  <2>3. Promised!Obtain(r)
    BY <1>1, <1>2, <1>3, <1>5, <2>2, StoreMoves
  <2> QED BY <2>3 DEF Promised!Next
<1>6. CASE GoTo(r, "bootstrap") \/ GoTo(r, "remember")
  <2>1. pc'[r] \in {"bootstrap", "remember"}
    BY <1>6, Arrives DEF Outcomes
  <2>2. InHand(r)' = NoInventory /\ StatusOf(r)' = "busy"
    BY <2>1, HandAfter
  <2> QED BY <1>1, <1>2, <1>3, <2>2, StoreMoves
<1>7. CASE GoTo(r, "failed")
  <2>1. pc'[r] = "idle" /\ result'[r] = "failed"
    BY <1>7, Arrives DEF Outcomes
  <2>2. InHand(r)' = NoInventory /\ StatusOf(r)' = "failed"
    BY <2>1, HandAfter
  <2>3. Promised!Fail(r)
    BY <1>1, <1>2, <1>3, <2>2, StoreMoves
  <2> QED BY <2>3 DEF Promised!Next
<1> QED BY <1>4, <1>5, <1>6, <1>7

\* A new call, and the steps between the attempts.
LEMMA QuietStore ==
  ASSUME IInv, NEW r \in Refreshers, \A q \in Refreshers : q = r,
         Refresh(r) \/ AdoptFloor(r) \/ ReadTicket(r) \/ RememberTicket(r) \/ Authorize(r)
  PROVE  Promised!Next \/ UNCHANGED Promised!vars
<1>1. UNCHANGED <<generation, nodesFile>>
  BY DEF Refresh, AdoptFloor, ReadTicket, RememberTicket, Authorize, controlPlane, disk
<1>2. UNCHANGED OnDisk
  BY <1>1 DEF OnDisk
<1>3. CASE Refresh(r)
  <2>1. pc[r] = "idle" /\ result[r] \in Outcomes \cup {"none"} /\ pc'[r] = "sync"
    BY <1>3, EarlyMoves DEF Refresh, At, IInv, TypeOK
  <2>2. StatusOf(r) # "busy" /\ StatusOf(r)' = "busy" /\ InHand(r)' = NoInventory
    BY <2>1, HandBefore, HandAfter DEF Outcomes
  <2>3. Promised!Call(r)
    BY <1>1, <1>2, <2>2, StoreMoves
  <2> QED BY <2>3 DEF Promised!Next
<1>4. CASE ~Refresh(r)
  <2>1. pc[r] \in {"adopt", "ticket", "remember", "authorize"}
    BY <1>4 DEF AdoptFloor, ReadTicket, RememberTicket, Authorize, At
  <2>2. StatusOf(r) = "busy" /\ InHand(r) = NoInventory
    BY <2>1, HandBefore
  <2>3. \/ pc'[r] \in {"resync", "bootstrap", "redeem", "complete"}
        \/ pc'[r] = "save" /\ writer'[r] = "remember"
        \/ pc'[r] = "idle" /\ result'[r] \in {"needsAuth", "failed"}
    <3>1. RememberTicket(r) => writer'[r] = "remember"
      BY DEF RememberTicket, IInv, TypeOK
    <3> QED BY <1>4, <3>1, EarlyMoves, AnswerMoves
  <2>4. CASE pc'[r] = "idle" /\ result'[r] \in {"needsAuth", "failed"}
    <3>1. StatusOf(r)' \in {"needsAuth", "failed"} /\ InHand(r)' = NoInventory
      BY <2>4, HandAfter
    <3>2. Promised!Fail(r)
      BY <1>1, <1>2, <2>2, <3>1, StoreMoves
    <3> QED BY <3>2 DEF Promised!Next
  <2>5. CASE ~(pc'[r] = "idle" /\ result'[r] \in {"needsAuth", "failed"})
    <3>1. StatusOf(r)' = "busy" /\ InHand(r)' = NoInventory
      BY <2>3, <2>5, HandAfter
    <3> QED BY <1>1, <1>2, <2>2, <3>1, StoreMoves
  <2> QED BY <2>4, <2>5
<1> QED BY <1>3, <1>4

\* What is on disk and valid is what the next process loads.
LEMMA Loads ==
  ASSUME NEW i, nodesFile = NodesOf(i), Validate(i)
  PROVE  OnDisk = i
  BY DEF OnDisk, Loadable, NodesOf

\* While the identity is saved what is in hand stays there, and a success is told
\* only of what is stored.
LEMMA SaveStore ==
  ASSUME IInv, SInv, UInv, NEW r \in Refreshers, \A q \in Refreshers : q = r,
         ClearTicket(r) \/ OpenIdentity(r) \/ WriteIdentity(r)
  PROVE  Promised!Next \/ UNCHANGED Promised!vars
<1>1. /\ UNCHANGED <<generation, nodesFile, inv, writer>>
      /\ pc[r] \in {"clear", "save", "saveWrite"}
  BY DEF ClearTicket, OpenIdentity, WriteIdentity, At, controlPlane, disk, locals
<1>2. UNCHANGED OnDisk
  BY <1>1 DEF OnDisk
<1>3. StatusOf(r) = "busy"
  BY <1>1, HandBefore
<1>4. /\ writer[r] \in {"remember", "redeem", "bootstrap", "complete"}
      /\ pc[r] = "clear" => writer[r] # "remember"
  BY <1>1, SMT DEF IInv, Path, Storing
<1>5. CASE writer[r] = "remember"
  <2>1. InHand(r) = NoInventory
    BY <1>1, <1>4, <1>5, HandBefore
  <2>2. pc'[r] \in {"save", "saveWrite", "authorize"}
    BY <1>5, SaveMoves
  <2>3. InHand(r)' = NoInventory /\ StatusOf(r)' = "busy"
    BY <1>1, <1>5, <2>2, HandAfter
  <2> QED BY <1>1, <1>2, <1>3, <2>1, <2>3, StoreMoves
<1>6. CASE writer[r] # "remember"
  <2>1. InHand(r) = inv[r]
    BY <1>1, <1>6, HandBefore
  <2>2. CASE pc'[r] = "idle"
    <3>1. result'[r] = "ok" /\ writer[r] \in {"redeem", "complete"}
      BY <2>2, SaveMoves
    <3>2. InHand(r)' = inv[r] /\ StatusOf(r)' = "ok"
      BY <1>1, <2>2, <3>1, HandAfter
    <3>3. nodesFile = NodesOf(inv[r])
      BY <1>1, <3>1 DEF SInv, StoredPath
    <3>4. Validate(inv[r])
      BY <3>1 DEF UInv, Storing
    <3>5. OnDisk = InHand(r) /\ InHand(r) # NoInventory
      BY <2>1, <3>3, <3>4, Loads, Unusable
    <3>6. Promised!Succeed(r)
      BY <1>1, <1>2, <1>3, <2>1, <3>2, <3>5, StoreMoves
    <3> QED BY <3>6 DEF Promised!Next
  <2>3. CASE pc'[r] # "idle"
    <3>1. pc'[r] \in {"save", "saveWrite", "store"}
      BY <1>6, <2>3, SaveMoves
    <3>2. InHand(r)' = inv[r] /\ StatusOf(r)' = "busy"
      BY <1>1, <1>6, <3>1, HandAfter
    <3> QED BY <1>1, <1>2, <1>3, <2>1, <3>2, StoreMoves
  <2> QED BY <2>2, <2>3
<1> QED BY <1>5, <1>6

\* An inventory that could not be written is let go of.
LEMMA NotWritten ==
  ASSUME IInv, NEW r \in Refreshers, \A q \in Refreshers : q = r, UNCHANGED generation,
         writer[r] \in Storing, StatusOf(r) = "busy", UNCHANGED OnDisk, GoTo(r, AfterStore(r, FALSE))
  PROVE  Promised!Next
<1>1. AfterStore(r, FALSE) \in {"bootstrap", "failed"}
  BY SMT DEF Storing, AfterStore
<1>2. pc'[r] = "bootstrap" \/ (pc'[r] = "idle" /\ result'[r] = "failed")
  BY <1>1, Arrives DEF Outcomes
<1>3. InHand(r)' = NoInventory /\ StatusOf(r)' \in {"busy", "failed"}
  BY <1>2, HandAfter
<1>4. Promised!Discard(r) \/ Promised!Fail(r)
  BY <1>3, StoreMoves
<1> QED BY <1>4 DEF Promised!Next

\* os.WriteFile on nodes.json loses what is stored, then puts what is in hand there.
LEMMA WriteStore ==
  ASSUME IInv, SInv, UInv, NEW r \in Refreshers, \A q \in Refreshers : q = r,
         OpenNodes(r) \/ WriteNodes(r)
  PROVE  Promised!Next \/ UNCHANGED Promised!vars
<1>1. /\ UNCHANGED <<generation, inv, writer>>
      /\ pc[r] \in {"store", "storeWrite"} /\ writer[r] \in Storing
  BY DEF OpenNodes, WriteNodes, At, controlPlane, locals, IInv, Path
<1>2. /\ InHand(r) = inv[r] /\ StatusOf(r) = "busy"
      /\ Validate(inv[r]) /\ InHand(r) # NoInventory
  BY <1>1, HandBefore, Unusable DEF UInv
<1>3. \A f : f.state # "ok" => ~Loadable(f)
  BY DEF Loadable
<1>4. CASE OpenNodes(r)
  <2>1. \/ nodesFile' = Nodes("empty") /\ GoTo(r, "storeWrite")
        \/ UNCHANGED nodesFile /\ GoTo(r, AfterStore(r, FALSE))
    BY <1>4, Zenon DEF OpenNodes
  <2>2. CASE nodesFile' = Nodes("empty") /\ GoTo(r, "storeWrite")
    <3>1. pc'[r] = "storeWrite"
      BY <2>2, Arrives DEF Outcomes
    <3>2. InHand(r)' = inv[r] /\ StatusOf(r)' = "busy"
      BY <1>1, <3>1, HandAfter
    <3>3. OnDisk' = NoInventory
      BY <2>2 DEF OnDisk, Loadable, Nodes
    <3>4. Promised!Lose(r)
      BY <1>1, <1>2, <3>2, <3>3, StoreMoves
    <3> QED BY <3>4 DEF Promised!Next
  <2>3. CASE UNCHANGED nodesFile /\ GoTo(r, AfterStore(r, FALSE))
    BY <1>1, <1>2, <2>3, NotWritten DEF OnDisk
  <2> QED BY <2>1, <2>2, <2>3
<1>5. CASE WriteNodes(r)
  <2>1. nodesFile.state = "empty"
    BY <1>5 DEF WriteNodes, At, SInv, StoredPath
  <2>2. \/ nodesFile' = NodesOf(inv[r]) /\ GoTo(r, AfterStore(r, TRUE))
        \/ nodesFile' \in {nodesFile, Nodes("garbage")} /\ GoTo(r, AfterStore(r, FALSE))
    <3>1. \/ /\ nodesFile' \in Written(nodesFile, NodesOf(inv[r]), Nodes("garbage"))
             /\ GoTo(r, AfterStore(r, TRUE))
          \/ nodesFile' \in {nodesFile, Nodes("garbage")} /\ GoTo(r, AfterStore(r, FALSE))
      BY <1>5, Zenon DEF WriteNodes, HalfWritten
    <3>2. Written(nodesFile, NodesOf(inv[r]), Nodes("garbage")) = {NodesOf(inv[r])}
      BY <2>1 DEF Written
    <3> QED BY <3>1, <3>2
  <2>3. CASE nodesFile' = NodesOf(inv[r]) /\ GoTo(r, AfterStore(r, TRUE))
    <3>1. AfterStore(r, TRUE) \in {"ok", "clear"}
      BY <1>1, SMT DEF Storing, AfterStore
    <3>2. pc'[r] = "clear" \/ (pc'[r] = "idle" /\ result'[r] = "ok")
      BY <2>3, <3>1, Arrives DEF Outcomes
    <3>3. InHand(r)' = inv[r] /\ StatusOf(r)' \in {"busy", "ok"}
      BY <1>1, <3>2, HandAfter
    <3>4. OnDisk' = inv[r]
      <4>1. nodesFile'.state = "ok" /\ nodesFile'.inv = inv[r]
        BY <2>3 DEF NodesOf
      <4>2. Validate(nodesFile.inv)'
        <5>1. Validate(nodesFile'.inv)
          BY <1>2, <4>1
        <5> QED BY <5>1, Zenon DEF Validate, HasUsableKey
      <4> QED BY <4>1, <4>2 DEF OnDisk, Loadable
    <3>5. Promised!Keep(r)
      BY <1>1, <1>2, <3>3, <3>4, StoreMoves
    <3> QED BY <3>5 DEF Promised!Next
  <2>4. CASE nodesFile' \in {nodesFile, Nodes("garbage")} /\ GoTo(r, AfterStore(r, FALSE))
    <3>1. nodesFile.state # "ok" /\ nodesFile'.state # "ok"
      BY <2>1, <2>4 DEF Nodes
    <3>2. UNCHANGED OnDisk
      BY <3>1 DEF OnDisk, Loadable
    <3> QED BY <1>1, <1>2, <2>4, <3>2, NotWritten
  <2> QED BY <2>2, <2>3, <2>4
<1> QED BY <1>4, <1>5

\* Every step of a Refresh is one of Store's or is not seen there.
LEMMA RefresherStore ==
  ASSUME IInv, SInv, UInv, NEW r \in Refreshers, \A q \in Refreshers : q = r, RefresherStep(r)
  PROVE  Promised!Next \/ UNCHANGED Promised!vars
  BY CallSyncStore, ParseSyncStore, AnswerStore, QuietStore, SaveStore, WriteStore DEF RefresherStep

\* A session that ends takes its refreshers' calls with it; one that opens is not seen.
LEMMA SessionStore ==
  ASSUME IInv, NEW s \in Sessions, SessionStep(s) \/ Interrupt(s)
  PROVE  Promised!Next \/ UNCHANGED Promised!vars
<1>1. UNCHANGED <<generation, nodesFile>>
  BY DEF SessionStep, OpenSession, NewIdentity, SaveNewIdentity, Finish, Interrupt,
     controlPlane, disk
<1>2. UNCHANGED OnDisk
  BY <1>1 DEF OnDisk
<1>3. CASE Forget(s)
  <2> DEFINE C == {q \in Refreshers : SessionOf[q] = s}
  <2>1. ASSUME NEW q \in Refreshers
        PROVE  /\ StatusOf(q)' = IF q \in C THEN "idle" ELSE StatusOf(q)
               /\ InHand(q)' = IF q \in C THEN NoInventory ELSE InHand(q)
    <3>1. CASE q \in C
      <4>1. pc'[q] = "idle" /\ result'[q] = "none"
        BY <1>3, <3>1 DEF Forget, Cleared
      <4>2. StatusOf(q)' = "idle" /\ InHand(q)' = NoInventory
        BY <4>1, HandAfter
      <4> QED BY <3>1, <4>2
    <3>2. CASE q \notin C
      <4>1. UNCHANGED <<pc[q], result[q], payload[q], inv[q], writer[q]>>
        BY <1>3, <3>2 DEF Forget, Cleared
      <4>2. UNCHANGED <<StatusOf(q), InHand(q)>>
        BY <1>1, <4>1 DEF StatusOf, InHand, At, Merged, Loadable
      <4> QED BY <3>2, <4>2
    <3> QED BY <3>1, <3>2
  <2> HIDE DEF C
  <2>2. Promised!End(C)
    BY <1>1, <1>2, <2>1, SameInventories DEF Promised!End
  <2>3. C \in SUBSET Refreshers
    BY DEF C
  <2> QED BY <2>2, <2>3 DEF Promised!Next
<1>4. CASE ~Forget(s)
  <2>1. UNCHANGED <<pc, result, payload, inv, writer>>
    BY <1>4 DEF SessionStep, OpenSession, NewIdentity, SaveNewIdentity, Finish, Interrupt,
       control, locals
  <2>2. \A q \in Refreshers : UNCHANGED <<StatusOf(q), InHand(q)>>
    BY <1>1, <2>1 DEF StatusOf, InHand, At, Merged, Loadable
  <2> QED BY <1>1, <1>2, <2>2 DEF Promised!vars
<1> QED BY <1>3, <1>4

\* Of the control plane only publication is seen.
LEMMA ControlPlaneStore ==
  ASSUME IInv, ControlPlaneStep \/ UNCHANGED vars
  PROVE  Promised!Next \/ UNCHANGED Promised!vars
<1>1. UNCHANGED <<nodesFile, pc, result, payload, inv, writer>>
  BY DEF ControlPlaneStep, ApproveClient, PublishDirectory, RaiseFloor, vars, disk, control, locals
<1>2. UNCHANGED OnDisk
  BY <1>1 DEF OnDisk
<1>3. \A q \in Refreshers : UNCHANGED <<StatusOf(q), InHand(q)>>
  BY <1>1 DEF StatusOf, InHand, At, Merged, Loadable
<1>4. generation' = generation \/ (generation < Len(Directory) /\ generation' = generation + 1)
  BY DEF ControlPlaneStep, ApproveClient, PublishDirectory, RaiseFloor, vars, controlPlane
<1>5. CASE generation' = generation
  BY <1>2, <1>3, <1>5 DEF Promised!vars
<1>6. CASE generation < Len(Directory) /\ generation' = generation + 1
  BY <1>2, <1>3, <1>6 DEF Promised!Publish, Promised!Next
<1> QED BY <1>4, <1>5, <1>6

\* With one refresher, a Refresh returns what was published at one instant since its
\* call, completed with what was stored then, and has stored it; whatever it went
\* through on the way, and whatever else fails (ImplementsStore).
THEOREM RefreshIsAtomic ==
  ASSUME \A r, q \in Refreshers : r = q
  PROVE  Spec => ImplementsStore
<1>1. Init => Promised!Init
  <2> SUFFICES ASSUME Init PROVE Promised!Init
    OBVIOUS
  <2>1. \A r \in Refreshers : StatusOf(r) = "idle" /\ InHand(r) = NoInventory
    <3>1. \A r \in Refreshers : pc[r] = "idle" /\ result[r] = "none"
      BY DEF Init
    <3> QED BY <3>1 DEF StatusOf, InHand, At
  <2>2. OnDisk = NoInventory \/ (Validate(Directory[1]) /\ OnDisk = Directory[1])
    <3>1. \/ nodesFile = Nodes("absent")
          \/ Validate(Directory[1]) /\ nodesFile = NodesOf(Directory[1])
      BY Zenon DEF Init
    <3>2. Nodes("absent").state # "ok"
      BY DEF Nodes
    <3> QED BY <3>1, <3>2, Loads DEF OnDisk, Loadable
  <2>3. generation = 1
    BY Zenon DEF Init
  <2> QED BY <2>1, <2>2, <2>3, SameInventories DEF Promised!Init
<1>2. IInv /\ SInv /\ UInv /\ [Next]_vars => [Promised!Next]_(Promised!vars)
  <2> SUFFICES ASSUME IInv, SInv, UInv, [Next]_vars
               PROVE  Promised!Next \/ UNCHANGED Promised!vars
    OBVIOUS
  <2>1. ASSUME NEW r \in Refreshers, RefresherStep(r)
        PROVE  Promised!Next \/ UNCHANGED Promised!vars
    BY <2>1, RefresherStore
  <2>2. ASSUME NEW s \in Sessions, SessionStep(s) \/ Interrupt(s)
        PROVE  Promised!Next \/ UNCHANGED Promised!vars
    BY <2>2, SessionStore
  <2> QED BY <2>1, <2>2, ControlPlaneStore DEF Next
<1> QED BY <1>1, <1>2, Invariance, StoredInvariance, UsableInvariance, PTL
        DEF Spec, ImplementsStore, Promised!Spec
=============================================================================
