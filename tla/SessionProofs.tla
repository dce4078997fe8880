--------------------------- MODULE SessionProofs ---------------------------
(***************************************************************************)
(* Proofs about Session: its types and, from them, that whatever is on     *)
(* disk or handed to a caller is an inventory the client can serve from.   *)
(***************************************************************************)
EXTENDS Session, TLAPS

-----------------------------------------------------------------------------
(* Facts about the operators                                               *)

\* The zero inventory, and so every file without one, has the right type.
LEMMA NoInventoryType == NoInventory \in InventoryType
<1>1. << >> \in Seq(Text) /\ << >> \in Seq(Host) /\ << >> \in Seq(EntryGroup)
  OBVIOUS
<1> QED BY <1>1, TextAssumption, Zenon DEF NoInventory, InventoryType

\* What nodes.json can hold after a write, whole or not, has its type.
LEMMA NodesType ==
  ASSUME NEW st \in FileStates, NEW i \in InventoryType
  PROVE  /\ Nodes(st) \in [state : FileStates, inv : InventoryType]
         /\ NodesOf(i) \in [state : FileStates, inv : InventoryType]
  BY NoInventoryType DEF Nodes, NodesOf, FileStates

\* What identity.json can hold after Identity.Save, whole or not, has its type.
LEMMA IdentityType ==
  ASSUME NEW st \in FileStates, NEW t \in Tickets
  PROVE  /\ Identity(st) \in [state : FileStates, ticket : Tickets]
         /\ IdentityOf(t) \in [state : FileStates, ticket : Tickets]
<1>1. NoTicket \in Tickets
  BY SessionAssumption, SMT DEF Tickets, NoTicket, Garbled
<1> QED BY <1>1, Zenon DEF Identity, IdentityOf, FileStates

\* A merge of two inventories is an inventory.
LEMMA FillMissingFromType ==
  ASSUME NEW i \in InventoryType, NEW prev \in InventoryType
  PROVE  FillMissingFrom(i, prev) \in InventoryType
<1>1. ASSUME NEW j \in InventoryType
      PROVE  /\ j.client_id \in Text /\ j.root_domains \in Seq(Text)
             /\ j.hosts \in Seq(Host) /\ j.entry_groups \in Seq(EntryGroup)
  BY SMT DEF InventoryType
<1>2. /\ (IF i.client_id = "" THEN prev.client_id ELSE i.client_id) \in Text
      /\ (IF i.root_domains = << >> THEN prev.root_domains
                                    ELSE i.root_domains) \in Seq(Text)
      /\ (IF i.hosts = << >> THEN prev.hosts ELSE i.hosts) \in Seq(Host)
      /\ (IF i.entry_groups = << >> THEN prev.entry_groups
                                    ELSE i.entry_groups) \in Seq(EntryGroup)
  BY <1>1, Zenon
<1> QED BY <1>2, Zenon DEF FillMissingFrom, InventoryType

\* What Validate accepts, the code that serves can rely on.
LEMMA ValidIsServable ==
  ASSUME NEW i \in InventoryType, Validate(i)
  PROVE  Servable(i)
  BY DEF Validate, Servable, HasUsableKey

\* Every answer of the control plane that trySync can be handed is a reply.
LEMMA ReplyTypes ==
  ASSUME generation \in 1..Len(Directory), floor \in 0..MaxFloor
  PROVE  /\ Published \in InventoryType
         /\ SyncReply \in Reply /\ ReleaseReply \in Reply /\ NoReply \in Reply
<1>1. Published \in InventoryType
  BY SessionAssumption, SMT DEF Published
<1>2. [Published EXCEPT !.root_domains = << >>] \in InventoryType
  <2> DEFINE P == Published
  <2>1. P \in InventoryType
    BY <1>1
  <2> HIDE DEF P
  <2>2. << >> \in Seq(Text)
    OBVIOUS
  <2>3. [P EXCEPT !.root_domains = << >>] \in InventoryType
    BY <2>1, <2>2, Zenon DEF InventoryType
  <2> QED BY <2>3 DEF P
<1>3. NoReply \in Reply /\ ReleaseReply \in Reply
  BY NoInventoryType, SessionAssumption, SMT DEF NoReply, ReleaseReply, Reply
<1>4. SyncReply \in Reply
  BY <1>2, SMT DEF SyncReply, Reply
<1> QED BY <1>1, <1>3, <1>4

\* The zero values a session and its refreshers start from and fall back to.
LEMMA Zeros ==
  /\ NoTicket \in Tickets /\ Garbled \in Tickets
  /\ DefaultVersion \in 0..MaxFloor
  /\ 0 \in 0..MaxFaults
  /\ NoReply \in Reply
<1>1. /\ NoTicket \in Tickets /\ Garbled \in Tickets
      /\ DefaultVersion \in 0..MaxFloor /\ 0 \in 0..MaxFaults /\ 0 \in 0..MaxFloor
  BY SessionAssumption, SMT DEF Tickets, NoTicket, Garbled
<1> QED BY <1>1, NoInventoryType, Zenon DEF NoReply, Reply

\* Updating one point of a function keeps its type.
LEMMA UpdateType ==
  ASSUME NEW A, NEW B, NEW f \in [A -> B], NEW a, NEW b \in B
  PROVE  [f EXCEPT ![a] = b] \in [A -> B]
  OBVIOUS

\* GoTo keeps the two control variables typed, whether it moves on or returns.
LEMMA GoToType ==
  ASSUME NEW r \in Refreshers, NEW next \in Steps \cup Outcomes, GoTo(r, next),
         pc \in [Refreshers -> Steps], result \in [Refreshers -> Outcomes \cup {"none"}]
  PROVE  /\ pc' \in [Refreshers -> Steps]
         /\ result' \in [Refreshers -> Outcomes \cup {"none"}]
  BY SMT DEF GoTo, Steps, Outcomes

\* The continuations are steps of Refresh or results of it.
LEMMA ContinuationTypes ==
  ASSUME NEW r \in Refreshers, NEW b \in BOOLEAN,
         writer[r] \in {"sync", "redeem", "bootstrap", "complete"}
  PROVE  AfterStore(r, b) \in Steps \cup Outcomes
  BY SMT DEF AfterStore, Steps, Outcomes

\* After a save of identity.json a Refresh goes on to one of its steps or returns.
LEMMA AfterSaveType ==
  ASSUME NEW r \in Refreshers
  PROVE  AfterSave(r) \in Steps \cup Outcomes
<1>1. CASE writer[r] = "remember"
  BY <1>1, SMT DEF AfterSave, Steps, Outcomes
<1>2. CASE writer[r] = "bootstrap"
  BY <1>2, SMT DEF AfterSave, Steps, Outcomes
<1>3. CASE writer[r] \notin {"remember", "bootstrap"}
  BY <1>3, SMT DEF AfterSave, Steps, Outcomes
<1> QED BY <1>1, <1>2, <1>3

-----------------------------------------------------------------------------
(* The inductive invariant: which path of Refresh a write belongs to is    *)
(* known from where the refresher is, and a path that writes nodes.json    *)
(* holds an inventory that has passed Validate.                            *)

Storing == {"sync", "redeem", "bootstrap", "complete"}

Path(r) ==
  /\ pc[r] # "idle" => result[r] = "none"
  /\ pc[r] \in {"store", "storeWrite"} => writer[r] \in Storing
  /\ pc[r] = "clear" => writer[r] \in Storing \ {"sync"}
  /\ pc[r] \in {"save", "saveWrite"} => writer[r] \in {"remember"} \cup (Storing \ {"sync"})
  /\ result[r] = "ok" => writer[r] \in Storing
  /\ writer[r] \in Storing => Servable(inv[r])

IInv ==
  /\ TypeOK
  /\ \A r \in Refreshers : Path(r)
  /\ nodesFile.state = "ok" => Servable(nodesFile.inv)

\* A first run, and one that finds a directory, start inside the invariant.
LEMMA InitInv == ASSUME Init PROVE IInv
<1>1. /\ Directory[1] \in InventoryType
      /\ 1 \in 1..Len(Directory) /\ {0, 1} \subseteq 0..MaxTickets
      /\ 0..DefaultVersion \subseteq 0..MaxFloor
  BY SessionAssumption, SMT
<1>2. << >> \in Seq(Text) /\ Directory[1].root_domains \in Seq(Text)
  BY <1>1, SMT DEF InventoryType
<1>3. /\ nodesFile \in [state : FileStates, inv : InventoryType]
      /\ identityFile \in [state : FileStates, ticket : Tickets]
  <2>1. /\ Nodes("absent") \in [state : FileStates, inv : InventoryType]
        /\ NodesOf(Directory[1]) \in [state : FileStates, inv : InventoryType]
    BY <1>1, NodesType, Zenon DEF FileStates
  <2>2. /\ Identity("absent") \in [state : FileStates, ticket : Tickets]
        /\ IdentityOf(NoTicket) \in [state : FileStates, ticket : Tickets]
    BY IdentityType, Zeros, Zenon DEF FileStates
  <2> QED BY <2>1, <2>2, Zenon DEF Init
<1>4. TypeOK
  <2>1. /\ approved \in BOOLEAN /\ generation \in 1..Len(Directory)
        /\ floor \in 0..MaxFloor /\ issued \in 0..MaxTickets
    BY <1>1, Zenon DEF Init
  <2>2. /\ running \in [Sessions -> {"down", "creating", "up"}]
        /\ pendingTicket \in [Sessions -> Tickets]
        /\ appVersion \in [Sessions -> 0..MaxFloor]
    BY Zeros, Zenon DEF Init
  <2>3. /\ pc \in [Refreshers -> Steps]
        /\ result \in [Refreshers -> Outcomes \cup {"none"}]
        /\ payload \in [Refreshers -> Reply]
        /\ ticket \in [Refreshers -> Tickets] /\ draft \in [Refreshers -> Tickets]
        /\ inv \in [Refreshers -> InventoryType]
        /\ writer \in [Refreshers -> Writers]
    BY Zeros, NoInventoryType, Zenon DEF Init, Steps, Writers, Outcomes
  <2>4. faults \in 0..MaxFaults /\ pool \in Seq(Text) /\ recorded \in Tickets
    BY <1>2, Zeros, Zenon DEF Init
  <2> QED BY <1>3, <2>1, <2>2, <2>3, <2>4 DEF TypeOK
<1>5. \A r \in Refreshers : Path(r)
  BY SMT DEF Init, Path, Storing
<1>6. nodesFile.state = "ok" => Servable(nodesFile.inv)
  BY <1>1, ValidIsServable, SMT DEF Init, Nodes, NodesOf
<1> QED BY <1>4, <1>5, <1>6 DEF IInv

\* Steps of the control plane touch neither the disk nor a session.
LEMMA ControlPlaneInv == ASSUME IInv, ControlPlaneStep PROVE IInv'
<1>1. UNCHANGED <<disk, memory, locals, control, history>>
  BY DEF ControlPlaneStep, ApproveClient, PublishDirectory, RaiseFloor
<1>2. TypeOK'
  <2>1. CASE ApproveClient
    BY <2>1, SMT DEF IInv, TypeOK, ApproveClient, disk, memory, locals, control, history
  <2>2. CASE PublishDirectory
    BY <2>2, SessionAssumption, SMT
       DEF IInv, TypeOK, PublishDirectory, disk, memory, locals, control, history
  <2>3. CASE RaiseFloor
    BY <2>3, SessionAssumption, SMT
       DEF IInv, TypeOK, RaiseFloor, disk, memory, locals, control, history
  <2> QED BY <2>1, <2>2, <2>3 DEF ControlPlaneStep
<1> QED BY <1>1, <1>2 DEF IInv, Path, disk, locals, control

\* A call of Refresh starts from the zero values of its locals.
LEMMA RefreshInv == ASSUME IInv, NEW r \in Refreshers, Refresh(r) PROVE IInv'
<1>1. TypeOK'
  BY Zeros, NoInventoryType, SMT
     DEF IInv, TypeOK, Refresh, Steps, Writers, controlPlane, disk, memory, history
<1>2. \A q \in Refreshers : Path(q)'
  BY SMT DEF IInv, TypeOK, Path, Storing, Refresh
<1> QED BY <1>1, <1>2 DEF IInv, Refresh, disk

\* Client.Sync, answered or lost, keeps the invariant.
LEMMA CallSyncInv == ASSUME IInv, NEW r \in Refreshers, CallSync(r) PROVE IInv'
<1>1. PICK next \in Steps : GoTo(r, next) /\ next \in {"ticket", "parse", "reparse"}
  BY SMT DEF CallSync, Steps
<1>2. TypeOK'
  <2>1. faults' \in 0..MaxFaults
    BY SessionAssumption, SMT DEF IInv, TypeOK, CallSync, Fault
  <2>2. SyncReply \in Reply /\ ReleaseReply \in Reply
    BY ReplyTypes DEF IInv, TypeOK
  <2>3. (IF UpToDate(SessionOf[r]) THEN SyncReply ELSE ReleaseReply) \in Reply
    BY <2>2, Zenon
  <2>4. payload' \in [Refreshers -> Reply]
    BY <2>3, UpdateType, Zenon DEF IInv, TypeOK, CallSync
  <2> QED BY <2>1, <2>4, <1>1, GoToType
     DEF IInv, TypeOK, CallSync, controlPlane, disk, memory
<1>3. \A q \in Refreshers : Path(q)'
  BY <1>1, SMT DEF IInv, TypeOK, Path, Storing, CallSync, GoTo, At, Outcomes
<1> QED BY <1>2, <1>3 DEF IInv, CallSync, disk

\* parseSync stores only what has passed Validate after the merge.
LEMMA ParseSyncInv == ASSUME IInv, NEW r \in Refreshers, ParseSync(r) PROVE IInv'
<1> DEFINE next == Merged(payload[r].dir)
<1>1. payload[r].dir \in InventoryType /\ payload[r].floor \in 0..MaxFloor
  BY SMT DEF IInv, TypeOK, Reply
<1>2. next \in InventoryType
  BY <1>1, FillMissingFromType, SMT DEF IInv, TypeOK, Merged
<1>3. [NoReply EXCEPT !.floor = payload[r].floor] \in Reply
  BY <1>1, Zeros, Zenon DEF NoReply, Reply
<1>4. \/ /\ Validate(next) /\ inv' = [inv EXCEPT ![r] = next]
         /\ writer' = [writer EXCEPT ![r] = "sync"] /\ GoTo(r, "store")
      \/ /\ UNCHANGED <<inv, writer>>
         /\ GoTo(r, "adopt") \/ GoTo(r, "ticket")
  <2> HIDE DEF next
  <2> QED BY SMT DEF ParseSync, next
<1> HIDE DEF next
<1>5. TypeOK'
  <2>1. payload' \in [Refreshers -> Reply]
    BY <1>3, SMT DEF IInv, TypeOK, ParseSync
  <2>2. /\ inv' \in [Refreshers -> InventoryType]
        /\ writer' \in [Refreshers -> Writers]
    BY <1>2, <1>4, SMT DEF IInv, TypeOK, Writers
  <2>3. /\ pc' \in [Refreshers -> Steps]
        /\ result' \in [Refreshers -> Outcomes \cup {"none"}]
    BY <1>4, GoToType, SMT DEF IInv, TypeOK, Steps
  <2> QED BY <2>1, <2>2, <2>3
     DEF IInv, TypeOK, ParseSync, controlPlane, disk, memory, history
<1>6. \A q \in Refreshers : Path(q)'
  <2>1. Validate(next) => Servable(next)
    BY <1>2, ValidIsServable
  <2> QED BY <1>4, <2>1, SMT
     DEF IInv, TypeOK, Path, Storing, ParseSync, GoTo, At, Outcomes
<1> QED BY <1>5, <1>6 DEF IInv, ParseSync, disk

\* Adopting the floor of a reply (session.go:191-196) keeps the invariant.
LEMMA AdoptFloorInv == ASSUME IInv, NEW r \in Refreshers, AdoptFloor(r) PROVE IInv'
<1>1. TypeOK'
  <2>1. payload[r].floor \in 0..MaxFloor
    BY SMT DEF IInv, TypeOK, Reply
  <2>2. appVersion' \in [Sessions -> 0..MaxFloor]
    BY <2>1, UpdateType, Zenon DEF IInv, TypeOK, AdoptFloor
  <2>3. /\ pc' \in [Refreshers -> Steps]
        /\ result' \in [Refreshers -> Outcomes \cup {"none"}]
    <3>1. "resync" \in Steps \cup Outcomes
      BY DEF Steps
    <3> QED BY <3>1, GoToType, Zenon DEF IInv, TypeOK, AdoptFloor
  <2> QED BY <2>2, <2>3
     DEF IInv, TypeOK, AdoptFloor, controlPlane, disk, locals, history
<1>2. \A q \in Refreshers : Path(q)'
  BY SMT DEF IInv, TypeOK, Path, Storing, AdoptFloor, GoTo, At, Outcomes, locals
<1> QED BY <1>1, <1>2 DEF IInv, AdoptFloor, disk

\* A ticket read, even half of one, is a ticket.
LEMMA TicketReadsType ==
  ASSUME IInv, NEW r \in Refreshers, NEW t \in TicketReads(r)
  PROVE  t \in Tickets
  BY SessionAssumption, Zeros, SMT DEF IInv, TypeOK, TicketReads

\* Reading the pending ticket, even torn, keeps the invariant.
LEMMA ReadTicketInv == ASSUME IInv, NEW r \in Refreshers, ReadTicket(r) PROVE IInv'
<1>1. PICK t \in TicketReads(r) :
        /\ ticket' = [ticket EXCEPT ![r] = t]
        /\ GoTo(r, "bootstrap") \/ GoTo(r, "redeem")
  BY Zenon DEF ReadTicket
<1>2. TypeOK'
  <2>1. ticket' \in [Refreshers -> Tickets]
    BY <1>1, TicketReadsType, SMT DEF IInv, TypeOK
  <2>2. /\ pc' \in [Refreshers -> Steps]
        /\ result' \in [Refreshers -> Outcomes \cup {"none"}]
    BY <1>1, GoToType, SMT DEF IInv, TypeOK, Steps
  <2> QED BY <2>1, <2>2
     DEF IInv, TypeOK, ReadTicket, controlPlane, disk, memory, history
<1>3. \A q \in Refreshers : Path(q)'
  BY <1>1, SMT DEF IInv, TypeOK, Path, Storing, ReadTicket, GoTo, At, Outcomes
<1> QED BY <1>2, <1>3 DEF IInv, ReadTicket, disk

\* Redeem and Complete carry on only with a directory that validates.
LEMMA RedeemInv == ASSUME IInv, NEW r \in Refreshers, Redeem(r) PROVE IInv'
<1>1. Published \in InventoryType
  BY ReplyTypes DEF IInv, TypeOK
<1>2. \/ /\ Validate(Published) /\ inv' = [inv EXCEPT ![r] = Published]
         /\ writer' = [writer EXCEPT ![r] = pc[r]] /\ GoTo(r, "store")
      \/ UNCHANGED <<inv, writer>> /\ (GoTo(r, "bootstrap") \/ GoTo(r, "failed"))
  BY Zenon DEF Redeem
<1>3. pc[r] \in {"redeem", "complete"} /\ pc[r] \in Writers
  BY SMT DEF Redeem, At, Writers
<1>4. TypeOK'
  <2>1. faults' \in 0..MaxFaults
    BY SessionAssumption, SMT DEF IInv, TypeOK, Redeem, Fault
  <2>2. /\ inv' \in [Refreshers -> InventoryType]
        /\ writer' \in [Refreshers -> Writers]
    <3>1. inv \in [Refreshers -> InventoryType] /\ writer \in [Refreshers -> Writers]
      BY DEF IInv, TypeOK
    <3> QED BY <1>1, <1>2, <1>3, <3>1
  <2>3. /\ pc' \in [Refreshers -> Steps]
        /\ result' \in [Refreshers -> Outcomes \cup {"none"}]
    <3>1. {"store", "clear", "bootstrap", "remember", "failed"} \subseteq Steps \cup Outcomes
      BY DEF Steps, Outcomes
    <3>2. /\ pc \in [Refreshers -> Steps]
          /\ result \in [Refreshers -> Outcomes \cup {"none"}]
      BY DEF IInv, TypeOK
    <3> QED BY <1>2, <3>1, <3>2, GoToType
  <2> QED BY <2>1, <2>2, <2>3
     DEF IInv, TypeOK, Redeem, controlPlane, disk, memory
<1>5. \A q \in Refreshers : Path(q)'
  <2>1. Validate(Published) => Servable(Published)
    BY <1>1, ValidIsServable
  <2> QED BY <1>2, <1>3, <2>1, SMT
     DEF IInv, TypeOK, Path, Storing, GoTo, Outcomes
<1> QED BY <1>4, <1>5 DEF IInv, Redeem, disk

\* Bootstrap carries on only with a directory that validates, or with a ticket.
LEMMA BootstrapInv == ASSUME IInv, NEW r \in Refreshers, Bootstrap(r) PROVE IInv'
<1>1. Published \in InventoryType
  BY ReplyTypes DEF IInv, TypeOK
<1>2. \/ /\ Validate(Published) /\ inv' = [inv EXCEPT ![r] = Published]
         /\ writer' = [writer EXCEPT ![r] = "bootstrap"] /\ GoTo(r, "clear")
      \/ UNCHANGED <<inv, writer>> /\ (GoTo(r, "remember") \/ GoTo(r, "failed"))
  BY Zenon DEF Bootstrap, DirectoryFromBootstrap
<1>3. TypeOK'
  <2> DEFINE fresh == IF issued < MaxTickets THEN issued + 1 ELSE issued
  <2>1. fresh \in 0..MaxTickets /\ fresh \in Tickets
    BY SessionAssumption, SMT DEF IInv, TypeOK, Tickets, Garbled
  <2>2. issued' \in {issued, fresh} /\ (UNCHANGED ticket \/ ticket' = [ticket EXCEPT ![r] = fresh])
    BY Zenon DEF Bootstrap
  <2>3. faults' \in 0..MaxFaults
    BY SessionAssumption, SMT DEF IInv, TypeOK, Bootstrap, Fault
  <2> HIDE DEF fresh
  <2>4. issued' \in 0..MaxTickets /\ ticket' \in [Refreshers -> Tickets]
    <3>1. issued \in 0..MaxTickets /\ ticket \in [Refreshers -> Tickets]
      BY DEF IInv, TypeOK
    <3> QED BY <2>1, <2>2, <3>1
  <2>5. /\ inv' \in [Refreshers -> InventoryType]
        /\ writer' \in [Refreshers -> Writers]
    <3>1. "bootstrap" \in Writers
      BY DEF Writers
    <3>2. inv \in [Refreshers -> InventoryType] /\ writer \in [Refreshers -> Writers]
      BY DEF IInv, TypeOK
    <3> QED BY <1>1, <1>2, <3>1, <3>2
  <2>6. /\ pc' \in [Refreshers -> Steps]
        /\ result' \in [Refreshers -> Outcomes \cup {"none"}]
    <3>1. {"store", "clear", "bootstrap", "remember", "failed"} \subseteq Steps \cup Outcomes
      BY DEF Steps, Outcomes
    <3>2. /\ pc \in [Refreshers -> Steps]
          /\ result \in [Refreshers -> Outcomes \cup {"none"}]
      BY DEF IInv, TypeOK
    <3> QED BY <1>2, <3>1, <3>2, GoToType
  <2> QED BY <2>3, <2>4, <2>5, <2>6 DEF IInv, TypeOK, Bootstrap, disk, memory
<1>4. \A q \in Refreshers : Path(q)'
  <2>1. Validate(Published) => Servable(Published)
    BY <1>1, ValidIsServable
  <2>2. pc[r] = "bootstrap"
    BY DEF Bootstrap, At
  <2> QED BY <1>2, <2>1, <2>2, SMT
     DEF IInv, TypeOK, Path, Storing, GoTo, Outcomes
<1> QED BY <1>3, <1>4 DEF IInv, Bootstrap, disk

\* The assignment in rememberTicket keeps the invariant.
LEMMA RememberTicketInv ==
  ASSUME IInv, NEW r \in Refreshers, RememberTicket(r) PROVE IInv'
<1>1. TypeOK'
  <2>1. /\ pendingTicket' \in [Sessions -> Tickets]
        /\ writer' \in [Refreshers -> Writers]
    <3>1. ticket[r] \in Tickets /\ "remember" \in Writers
      BY DEF IInv, TypeOK, Writers
    <3> QED BY <3>1, UpdateType, Zenon DEF IInv, TypeOK, RememberTicket
  <2>2. /\ pc' \in [Refreshers -> Steps]
        /\ result' \in [Refreshers -> Outcomes \cup {"none"}]
    <3>1. "save" \in Steps \cup Outcomes
      BY DEF Steps
    <3> QED BY <3>1, GoToType, Zenon DEF IInv, TypeOK, RememberTicket
  <2> QED BY <2>1, <2>2
     DEF IInv, TypeOK, RememberTicket, controlPlane, disk, history
<1>2. \A q \in Refreshers : Path(q)'
  BY SMT DEF IInv, TypeOK, Path, Storing, RememberTicket, GoTo, At, Outcomes
<1> QED BY <1>1, <1>2 DEF IInv, RememberTicket, disk

\* clearTicket, whatever ticket it reads, keeps the invariant.
LEMMA ClearTicketInv ==
  ASSUME IInv, NEW r \in Refreshers, ClearTicket(r) PROVE IInv'
<1>1. writer[r] \in Storing \ {"sync"} /\ pc[r] = "clear"
  BY DEF IInv, Path, ClearTicket, At
<1>2. GoTo(r, AfterSave(r)) \/ GoTo(r, "save")
  BY Zenon DEF ClearTicket
<1>3. TypeOK'
  <2>1. recorded' \in Tickets /\ pendingTicket' \in [Sessions -> Tickets]
    <3>1. recorded \in Tickets /\ pendingTicket \in [Sessions -> Tickets]
      BY DEF IInv, TypeOK
    <3>2. \/ UNCHANGED <<pendingTicket, recorded>>
          \/ /\ pendingTicket' = [pendingTicket EXCEPT ![SessionOf[r]] = NoTicket]
             /\ recorded' = NoTicket
      BY Zenon DEF ClearTicket
    <3> QED BY <3>1, <3>2, Zeros
  <2>2. /\ pc' \in [Refreshers -> Steps]
        /\ result' \in [Refreshers -> Outcomes \cup {"none"}]
    <3>1. "save" \in Steps \cup Outcomes
      BY DEF Steps
    <3>2. /\ pc \in [Refreshers -> Steps]
          /\ result \in [Refreshers -> Outcomes \cup {"none"}]
      BY DEF IInv, TypeOK
    <3> QED BY <1>2, <3>1, <3>2, GoToType, AfterSaveType
  <2> QED BY <2>1, <2>2
     DEF IInv, TypeOK, ClearTicket, controlPlane, disk, locals
<1>4. \A q \in Refreshers : Path(q)'
  BY <1>1, <1>2, SMT
     DEF IInv, TypeOK, Path, Storing, AfterSave, ClearTicket, GoTo, Outcomes, locals
<1> QED BY <1>3, <1>4 DEF IInv, ClearTicket, disk

\* Client.Authorize, skipped, accepted or failed, keeps the invariant.
LEMMA AuthorizeInv == ASSUME IInv, NEW r \in Refreshers, Authorize(r) PROVE IInv'
<1>1. GoTo(r, "complete") \/ GoTo(r, "needsAuth") \/ GoTo(r, "failed")
  BY Zenon DEF Authorize
<1>2. TypeOK'
  <2>1. faults' \in 0..MaxFaults /\ approved' \in BOOLEAN
    <3>1. faults \in 0..MaxFaults /\ approved \in BOOLEAN
      BY DEF IInv, TypeOK
    <3>2. /\ UNCHANGED faults \/ (faults < MaxFaults /\ faults' = faults + 1)
          /\ UNCHANGED approved \/ approved' = TRUE
      BY Zenon DEF Authorize, Fault
    <3>3. faults' \in 0..MaxFaults
      BY <3>1, <3>2, SessionAssumption
    <3> QED BY <3>1, <3>2, <3>3, Zenon
  <2>2. /\ pc' \in [Refreshers -> Steps]
        /\ result' \in [Refreshers -> Outcomes \cup {"none"}]
    <3>1. {"complete", "needsAuth", "failed"} \subseteq Steps \cup Outcomes
      BY DEF Steps, Outcomes
    <3>2. /\ pc \in [Refreshers -> Steps]
          /\ result \in [Refreshers -> Outcomes \cup {"none"}]
      BY DEF IInv, TypeOK
    <3> QED BY <1>1, <3>1, <3>2, GoToType
  <2> QED BY <2>1, <2>2
     DEF IInv, TypeOK, Authorize, disk, memory, locals
<1>3. \A q \in Refreshers : Path(q)'
  BY <1>1, SMT DEF IInv, TypeOK, Path, Storing, Authorize, GoTo, At, Outcomes, locals
<1> QED BY <1>2, <1>3 DEF IInv, Authorize, disk

-----------------------------------------------------------------------------
(* Writing the two files                                                   *)

\* Truncating identity.json, or failing to open it, keeps the invariant.
LEMMA OpenIdentityInv ==
  ASSUME IInv, NEW r \in Refreshers, OpenIdentity(r) PROVE IInv'
<1>1. writer[r] \in {"remember"} \cup (Storing \ {"sync"}) /\ pc[r] = "save"
  BY DEF IInv, Path, OpenIdentity, At
<1>2. GoTo(r, "saveWrite") \/ GoTo(r, AfterSave(r))
  BY Zenon DEF OpenIdentity
<1>3. TypeOK'
  <2>1. draft' \in [Refreshers -> Tickets]
    <3>1. UNCHANGED draft \/ \E t \in TicketReads(r) : draft' = [draft EXCEPT ![r] = t]
      BY Zenon DEF OpenIdentity
    <3>2. draft \in [Refreshers -> Tickets]
      BY DEF IInv, TypeOK
    <3> QED BY <3>1, <3>2, TicketReadsType
  <2>2. identityFile' \in [state : FileStates, ticket : Tickets]
    <3>1. Identity("empty") \in [state : FileStates, ticket : Tickets]
      BY IdentityType, Zeros, Zenon DEF FileStates
    <3> QED BY <3>1, Zenon DEF IInv, TypeOK, OpenIdentity
  <2>3. faults' \in 0..MaxFaults /\ recorded' \in Tickets
    <3>1. faults \in 0..MaxFaults /\ recorded \in Tickets
      BY DEF IInv, TypeOK
    <3>2. /\ UNCHANGED faults \/ (faults < MaxFaults /\ faults' = faults + 1)
          /\ recorded' \in {recorded, NoTicket}
      BY Zenon DEF OpenIdentity, Fault
    <3> QED BY <3>1, <3>2, Zeros, SessionAssumption
  <2>4. /\ pc' \in [Refreshers -> Steps]
        /\ result' \in [Refreshers -> Outcomes \cup {"none"}]
    <3>1. "saveWrite" \in Steps \cup Outcomes
      BY DEF Steps
    <3>2. /\ pc \in [Refreshers -> Steps]
          /\ result \in [Refreshers -> Outcomes \cup {"none"}]
      BY DEF IInv, TypeOK
    <3> QED BY <1>2, <3>1, <3>2, GoToType, AfterSaveType
  <2> QED BY <2>1, <2>2, <2>3, <2>4
     DEF IInv, TypeOK, OpenIdentity, controlPlane, memory
<1>4. \A q \in Refreshers : Path(q)'
  BY <1>1, <1>2, SMT
     DEF IInv, TypeOK, Path, Storing, AfterSave, OpenIdentity, GoTo, Outcomes
<1> QED BY <1>3, <1>4 DEF IInv, OpenIdentity

\* Writing identity.json, wholly, over another write or half way, keeps the invariant.
LEMMA WriteIdentityInv ==
  ASSUME IInv, NEW r \in Refreshers, WriteIdentity(r) PROVE IInv'
<1>1. writer[r] \in {"remember"} \cup (Storing \ {"sync"}) /\ pc[r] = "saveWrite"
  BY DEF IInv, Path, WriteIdentity, At
<1>2. GoTo(r, AfterSave(r))
  BY DEF WriteIdentity
<1>3. TypeOK'
  <2>1. draft' \in [Refreshers -> Tickets] /\ draft[r] \in Tickets /\ ticket[r] \in Tickets
    <3>1. draft' = [draft EXCEPT ![r] = NoTicket]
      BY DEF WriteIdentity
    <3>2. draft \in [Refreshers -> Tickets] /\ ticket \in [Refreshers -> Tickets]
      BY DEF IInv, TypeOK
    <3> QED BY <3>1, <3>2, Zeros
  <2>2. identityFile' \in [state : FileStates, ticket : Tickets]
    <3>1. /\ Identity("garbage") \in [state : FileStates, ticket : Tickets]
          /\ IdentityOf(draft[r]) \in [state : FileStates, ticket : Tickets]
          /\ identityFile \in [state : FileStates, ticket : Tickets]
      BY <2>1, IdentityType, Zeros, Zenon DEF FileStates, IInv, TypeOK
    <3>2. identityFile' \in {identityFile, IdentityOf(draft[r]), Identity("garbage")}
      BY Zenon DEF WriteIdentity, Written, HalfWritten
    <3> QED BY <3>1, <3>2, Zenon
  <2>3. faults' \in 0..MaxFaults /\ recorded' \in Tickets
    <3>1. faults \in 0..MaxFaults /\ recorded \in Tickets
      BY DEF IInv, TypeOK
    <3>2. /\ UNCHANGED faults \/ (faults < MaxFaults /\ faults' = faults + 1)
          /\ recorded' \in {recorded, NoTicket, ticket[r]}
      BY Zenon DEF WriteIdentity, Fault
    <3> QED BY <2>1, <3>1, <3>2, Zeros, SessionAssumption
  <2>4. /\ pc' \in [Refreshers -> Steps]
        /\ result' \in [Refreshers -> Outcomes \cup {"none"}]
    <3>2. /\ pc \in [Refreshers -> Steps]
          /\ result \in [Refreshers -> Outcomes \cup {"none"}]
      BY DEF IInv, TypeOK
    <3> QED BY <1>2, <3>2, GoToType, AfterSaveType
  <2> QED BY <2>1, <2>2, <2>3, <2>4
     DEF IInv, TypeOK, WriteIdentity, controlPlane, memory
<1>4. \A q \in Refreshers : Path(q)'
  BY <1>1, <1>2, SMT
     DEF IInv, TypeOK, Path, Storing, AfterSave, WriteIdentity, GoTo, Outcomes
<1> QED BY <1>3, <1>4 DEF IInv, WriteIdentity

\* Truncating nodes.json, or failing to open it, keeps the invariant.
LEMMA OpenNodesInv == ASSUME IInv, NEW r \in Refreshers, OpenNodes(r) PROVE IInv'
<1>1. writer[r] \in Storing /\ pc[r] = "store"
  BY DEF IInv, Path, OpenNodes, At
<1>2. GoTo(r, "storeWrite") \/ GoTo(r, AfterStore(r, FALSE))
  BY Zenon DEF OpenNodes
<1>3. Nodes("empty") \in [state : FileStates, inv : InventoryType]
  BY NodesType, NoInventoryType, Zenon DEF FileStates
<1>4. TypeOK'
  <2>1. nodesFile' \in [state : FileStates, inv : InventoryType]
    BY <1>3, Zenon DEF IInv, TypeOK, OpenNodes
  <2>2. faults' \in 0..MaxFaults
    <3>1. UNCHANGED faults \/ (faults < MaxFaults /\ faults' = faults + 1)
      BY Zenon DEF OpenNodes, Fault
    <3> QED BY <3>1, SessionAssumption DEF IInv, TypeOK
  <2>3. /\ pc' \in [Refreshers -> Steps]
        /\ result' \in [Refreshers -> Outcomes \cup {"none"}]
    <3>1. "storeWrite" \in Steps \cup Outcomes /\ AfterStore(r, FALSE) \in Steps \cup Outcomes
      BY <1>1, ContinuationTypes DEF Steps, Storing
    <3>2. /\ pc \in [Refreshers -> Steps]
          /\ result \in [Refreshers -> Outcomes \cup {"none"}]
      BY DEF IInv, TypeOK
    <3> QED BY <1>2, <3>1, <3>2, GoToType
  <2> QED BY <2>1, <2>2, <2>3
     DEF IInv, TypeOK, OpenNodes, controlPlane, memory, locals
<1>5. \A q \in Refreshers : Path(q)'
  BY <1>1, <1>2, SMT
     DEF IInv, TypeOK, Path, Storing, AfterStore, OpenNodes, GoTo, Outcomes, locals
<1>6. nodesFile'.state = "ok" => Servable(nodesFile'.inv)
  <2>1. nodesFile' = nodesFile \/ nodesFile' = Nodes("empty")
    BY Zenon DEF OpenNodes
  <2>2. Nodes("empty").state # "ok"
    BY SMT DEF Nodes
  <2> QED BY <2>1, <2>2, Zenon DEF IInv
<1> QED BY <1>4, <1>5, <1>6 DEF IInv

\* The one step that can put a directory on disk writes one that is servable.
LEMMA WriteNodesInv == ASSUME IInv, NEW r \in Refreshers, WriteNodes(r) PROVE IInv'
<1>1. writer[r] \in Storing /\ pc[r] = "storeWrite" /\ Servable(inv[r])
  BY DEF IInv, Path, WriteNodes, At
<1>2. GoTo(r, AfterStore(r, TRUE)) \/ GoTo(r, AfterStore(r, FALSE))
  BY Zenon DEF WriteNodes
<1>3. nodesFile' \in {nodesFile, NodesOf(inv[r]), Nodes("garbage")}
  BY Zenon DEF WriteNodes, Written, HalfWritten
<1>4. inv[r] \in InventoryType
  BY DEF IInv, TypeOK
<1>5. TypeOK'
  <2>1. nodesFile' \in [state : FileStates, inv : InventoryType]
    <3>1. /\ Nodes("garbage") \in [state : FileStates, inv : InventoryType]
          /\ NodesOf(inv[r]) \in [state : FileStates, inv : InventoryType]
      BY <1>4, NodesType, Zenon DEF FileStates
    <3> QED BY <1>3, <3>1, Zenon DEF IInv, TypeOK
  <2>2. faults' \in 0..MaxFaults
    <3>1. UNCHANGED faults \/ (faults < MaxFaults /\ faults' = faults + 1)
      BY Zenon DEF WriteNodes, Fault
    <3> QED BY <3>1, SessionAssumption DEF IInv, TypeOK
  <2>3. pool' \in Seq(Text)
    <3>1. pool' \in {pool, inv[r].root_domains}
      BY Zenon DEF WriteNodes
    <3>2. inv[r].root_domains \in Seq(Text)
      BY <1>4 DEF InventoryType
    <3> QED BY <3>1, <3>2, Zenon DEF IInv, TypeOK
  <2>4. /\ pc' \in [Refreshers -> Steps]
        /\ result' \in [Refreshers -> Outcomes \cup {"none"}]
    <3>1. /\ AfterStore(r, TRUE) \in Steps \cup Outcomes
          /\ AfterStore(r, FALSE) \in Steps \cup Outcomes
      BY <1>1, ContinuationTypes DEF Storing
    <3>2. /\ pc \in [Refreshers -> Steps]
          /\ result \in [Refreshers -> Outcomes \cup {"none"}]
      BY DEF IInv, TypeOK
    <3> QED BY <1>2, <3>1, <3>2, GoToType
  <2> QED BY <2>1, <2>2, <2>3, <2>4
     DEF IInv, TypeOK, WriteNodes, controlPlane, memory, locals
<1>6. \A q \in Refreshers : Path(q)'
  BY <1>1, <1>2, SMT
     DEF IInv, TypeOK, Path, Storing, AfterStore, WriteNodes, GoTo, Outcomes, locals
<1>7. nodesFile'.state = "ok" => Servable(nodesFile'.inv)
  <2>1. CASE nodesFile' = nodesFile
    BY <2>1, Zenon DEF IInv
  <2>2. CASE nodesFile' = NodesOf(inv[r])
    BY <1>1, <2>2, Zenon DEF NodesOf
  <2>3. CASE nodesFile' = Nodes("garbage")
    BY <2>3, SMT DEF Nodes
  <2> QED BY <1>3, <2>1, <2>2, <2>3
<1> QED BY <1>5, <1>6, <1>7 DEF IInv

-----------------------------------------------------------------------------
(* Runs of the program                                                     *)

\* A session that ends leaves its refreshers idle, with nothing in hand.
LEMMA ForgetInv ==
  ASSUME IInv, NEW s \in Sessions, Forget(s), UNCHANGED <<controlPlane, disk>>,
         faults' \in 0..MaxFaults, UNCHANGED <<pool, recorded>>
  PROVE  IInv'
<1>1. TypeOK'
  <2>1. /\ running' \in [Sessions -> {"down", "creating", "up"}]
        /\ pendingTicket' \in [Sessions -> Tickets]
        /\ appVersion' \in [Sessions -> 0..MaxFloor]
    BY Zeros, SMT DEF IInv, TypeOK, Forget
  <2>2. /\ pc' \in [Refreshers -> Steps]
        /\ result' \in [Refreshers -> Outcomes \cup {"none"}]
        /\ writer' \in [Refreshers -> Writers]
    BY SMT DEF IInv, TypeOK, Forget, Cleared, Steps, Writers
  <2>3. /\ payload' \in [Refreshers -> Reply]
        /\ inv' \in [Refreshers -> InventoryType]
        /\ ticket' \in [Refreshers -> Tickets] /\ draft' \in [Refreshers -> Tickets]
    BY Zeros, NoInventoryType, SMT DEF IInv, TypeOK, Forget, Cleared
  <2> QED BY <2>1, <2>2, <2>3 DEF IInv, TypeOK, controlPlane, disk
<1>2. \A q \in Refreshers : Path(q)'
  BY SMT DEF IInv, TypeOK, Path, Storing, Forget, Cleared
<1> QED BY <1>1, <1>2 DEF IInv, disk

\* Opening, creating, finishing or interrupting a session keeps the invariant.
LEMMA SessionInv ==
  ASSUME IInv, NEW s \in Sessions, SessionStep(s) \/ Interrupt(s) PROVE IInv'
<1>1. CASE OpenSession(s)
  <2>1. TypeOK'
    <3>1. identityFile.ticket \in Tickets
      BY DEF IInv, TypeOK
    <3>2. /\ running' \in [Sessions -> {"down", "creating", "up"}]
          /\ pendingTicket' \in [Sessions -> Tickets]
      BY <1>1, <3>1, SMT DEF IInv, TypeOK, OpenSession
    <3> QED BY <1>1, <3>2
       DEF IInv, TypeOK, OpenSession, controlPlane, disk, locals, control, history
  <2> QED BY <1>1, <2>1 DEF IInv, Path, OpenSession, disk, locals, control
<1>2. CASE NewIdentity(s)
  <2>1. TypeOK'
    <3>1. Identity("empty") \in [state : FileStates, ticket : Tickets]
      BY IdentityType, Zeros, Zenon DEF FileStates
    <3>2. running' \in [Sessions -> {"down", "creating", "up"}]
      BY <1>2, SMT DEF IInv, TypeOK, NewIdentity
    <3> QED BY <1>2, <3>1, <3>2
       DEF IInv, TypeOK, NewIdentity, controlPlane, locals, control, history
  <2> QED BY <1>2, <2>1 DEF IInv, Path, NewIdentity, locals, control
<1>3. CASE SaveNewIdentity(s)
  <2>1. TypeOK'
    <3>1. identityFile' \in {identityFile, IdentityOf(NoTicket), Identity("garbage")}
      BY <1>3, Zenon DEF SaveNewIdentity, Written, HalfWritten
    <3>2. /\ IdentityOf(NoTicket) \in [state : FileStates, ticket : Tickets]
          /\ Identity("garbage") \in [state : FileStates, ticket : Tickets]
      BY IdentityType, Zeros, Zenon DEF FileStates
    <3>3. identityFile' \in [state : FileStates, ticket : Tickets]
      BY <3>1, <3>2, Zenon DEF IInv, TypeOK
    <3>4. running' \in [Sessions -> {"down", "creating", "up"}]
      <4>1. \/ running' = [running EXCEPT ![s] = "up"]
            \/ running' = [running EXCEPT ![s] = "down"]
        BY <1>3, Zenon DEF SaveNewIdentity
      <4>2. running \in [Sessions -> {"down", "creating", "up"}]
        BY DEF IInv, TypeOK
      <4> QED BY <4>1, <4>2
    <3>5. faults' \in 0..MaxFaults
      <4>1. UNCHANGED faults \/ (faults < MaxFaults /\ faults' = faults + 1)
        BY <1>3, Zenon DEF SaveNewIdentity, Fault
      <4> QED BY <4>1, SessionAssumption DEF IInv, TypeOK
    <3> QED BY <1>3, <3>3, <3>4, <3>5
       DEF IInv, TypeOK, SaveNewIdentity, controlPlane, locals, control
  <2> QED BY <1>3, <2>1 DEF IInv, Path, SaveNewIdentity, locals, control
<1>4. CASE Finish(s)
  BY <1>4, ForgetInv DEF Finish, history, IInv, TypeOK
<1>5. CASE Interrupt(s)
  <2>1. faults' \in 0..MaxFaults
    BY <1>5, SessionAssumption DEF Interrupt, Fault, IInv, TypeOK
  <2> QED BY <1>5, <2>1, ForgetInv DEF Interrupt
<1> QED BY <1>1, <1>2, <1>3, <1>4, <1>5 DEF SessionStep

\* Every step of a Refresh keeps the invariant.
LEMMA RefresherInv ==
  ASSUME IInv, NEW r \in Refreshers, RefresherStep(r) PROVE IInv'
BY RefreshInv, CallSyncInv, ParseSyncInv, AdoptFloorInv, ReadTicketInv, RedeemInv,
   BootstrapInv, RememberTicketInv, ClearTicketInv, AuthorizeInv, OpenIdentityInv,
   WriteIdentityInv, OpenNodesInv, WriteNodesInv DEF RefresherStep

\* A step that changes nothing keeps the invariant.
LEMMA StutterInv == ASSUME IInv, UNCHANGED vars PROVE IInv'
  BY DEF IInv, TypeOK, Path, vars, controlPlane, disk, memory, locals, control, history

\* The invariant holds in every state, for any number of processes, refreshers,
\* directories, tickets and faults.
THEOREM Invariance == Spec => []IInv
<1>1. Init => IInv
  BY InitInv
<1>2. IInv /\ [Next]_vars => IInv'
  BY ControlPlaneInv, SessionInv, RefresherInv, StutterInv DEF Next
<1> QED BY <1>1, <1>2, PTL DEF Spec

\* Every variable of a session, its files and its refreshers keeps its type.
THEOREM TypeCorrect == Spec => []TypeOK
<1>1. IInv => TypeOK
  BY DEF IInv
<1> QED BY <1>1, Invariance, PTL

\* However refreshes interleave, fail, are retried or tear each other's files,
\* nodes.json, when it parses, and every inventory a Refresh returned, hold what
\* SelectGroup, SelectRoot and RankTCP index without a check of their own.
THEOREM ServableAlways == Spec => []OnlyServable
<1>1. IInv => OnlyServable
  BY DEF IInv, Path, OnlyServable
<1> QED BY <1>1, Invariance, PTL

-----------------------------------------------------------------------------
(* The root-domain pool, with one refresher at a time.  A sync carries no  *)
(* pool, so the one it stores is the one that was on disk when its reply   *)
(* was merged, and with nobody else writing that is still the newest.      *)

PoolPath(r) ==
  /\ pc[r] \in {"parse", "reparse"} => payload[r].dir.root_domains = << >>
  /\ pc[r] \in {"store", "storeWrite"} /\ writer[r] = "sync" => inv[r].root_domains = pool

PInv == PoolSurvives /\ \A r \in Refreshers : PoolPath(r)

\* The first directory is stored with its own pool.
LEMMA InitPool == ASSUME Init PROVE PInv
<1>1. PoolSurvives
  BY SMT DEF Init, PoolSurvives, Readable, Nodes, NodesOf
<1>2. \A r \in Refreshers : PoolPath(r)
  BY SMT DEF Init, PoolPath
<1> QED BY <1>1, <1>2 DEF PInv

\* A reply of the control plane to sync carries no pool.
LEMMA CallSyncPool ==
  ASSUME IInv, PInv, NEW r \in Refreshers, CallSync(r) PROVE PInv'
<1>1. SyncReply.dir.root_domains = << >> /\ ReleaseReply.dir.root_domains = << >>
  <2>1. Published \in InventoryType
    BY ReplyTypes DEF IInv, TypeOK
  <2>2. [Published EXCEPT !.root_domains = << >>].root_domains = << >>
    BY <2>1, Zenon DEF InventoryType
  <2> QED BY <2>2, Zenon DEF SyncReply, ReleaseReply, NoInventory
<1>2. \/ GoTo(r, "ticket")
      \/ /\ payload' = [payload EXCEPT ![r] = SyncReply]
            \/ payload' = [payload EXCEPT ![r] = ReleaseReply]
         /\ GoTo(r, "parse") \/ GoTo(r, "reparse")
  BY Zenon DEF CallSync
<1>3. UNCHANGED <<nodesFile, pool, inv, writer>>
  BY DEF CallSync, disk
<1>4. \A q \in Refreshers \ {r} : UNCHANGED <<pc[q], payload[q]>>
  BY SMT DEF CallSync, GoTo, IInv, TypeOK
<1>5. PoolPath(r)'
  BY <1>1, <1>2, <1>3, SMT DEF PoolPath, GoTo, IInv, TypeOK, Outcomes
<1>6. \A q \in Refreshers \ {r} : PoolPath(q)'
  BY <1>3, <1>4 DEF PoolPath, PInv
<1> QED BY <1>3, <1>5, <1>6 DEF PInv, PoolSurvives, Readable

\* What parseSync stores has the pool that was on disk: had there been none, the
\* merged inventory would not have validated.
LEMMA ParseSyncPool ==
  ASSUME IInv, PInv, NEW r \in Refreshers, ParseSync(r), \A q \in Refreshers : q = r
  PROVE  PInv'
<1> DEFINE next == Merged(payload[r].dir)
<1>1. payload[r].dir.root_domains = << >>
  BY DEF ParseSync, At, PInv, PoolPath
<1>2. Validate(next) => next.root_domains = pool
  <2>1. CASE Loadable(nodesFile)
    <3>1. next.root_domains = nodesFile.inv.root_domains
      BY <1>1, <2>1, SMT DEF Merged, FillMissingFrom
    <3> QED BY <2>1, <3>1 DEF PInv, PoolSurvives, Loadable, Readable
  <2>2. CASE ~Loadable(nodesFile)
    BY <1>1, <2>2 DEF Merged, Validate
  <2> QED BY <2>1, <2>2
<1>3. \/ /\ Validate(next) /\ inv' = [inv EXCEPT ![r] = next]
         /\ GoTo(r, "store")
      \/ GoTo(r, "adopt") \/ GoTo(r, "ticket")
  <2> HIDE DEF next
  <2> QED BY SMT DEF ParseSync, next
<1> HIDE DEF next
<1>4. UNCHANGED <<nodesFile, pool>>
  BY DEF ParseSync, disk, history
<1>5. PoolPath(r)'
  BY <1>2, <1>3, <1>4, SMT DEF PoolPath, GoTo, IInv, TypeOK, Outcomes
<1> QED BY <1>4, <1>5 DEF PInv, PoolSurvives, Readable

\* The write of nodes.json is where the stored pool and its history meet.
LEMMA WriteNodesPool ==
  ASSUME IInv, PInv, NEW r \in Refreshers, WriteNodes(r), \A q \in Refreshers : q = r
  PROVE  PInv'
<1>1. writer[r] = "sync" => inv[r].root_domains = pool
  BY DEF WriteNodes, At, PInv, PoolPath
<1>2. pc'[r] \notin {"parse", "reparse", "store", "storeWrite"}
  BY SMT DEF WriteNodes, GoTo, AfterStore, IInv, Path, TypeOK, Storing, At, Outcomes
<1>3. PoolSurvives'
  <2>1. CASE /\ nodesFile' \in Written(nodesFile, NodesOf(inv[r]), Nodes("garbage"))
             /\ pool' = IF writer[r] # "sync" /\ Readable(nodesFile')
                          THEN inv[r].root_domains ELSE pool
    <3>1. nodesFile' = NodesOf(inv[r]) \/ nodesFile' = Nodes("garbage")
      BY <2>1, Zenon DEF Written
    <3>2. NodesOf(inv[r]).inv = inv[r] /\ Nodes("garbage").state # "ok"
      BY SMT DEF NodesOf, Nodes
    <3> QED BY <1>1, <2>1, <3>1, <3>2, Zenon DEF PoolSurvives, Readable
  <2>2. CASE /\ nodesFile' \in HalfWritten(nodesFile, Nodes("garbage"))
             /\ UNCHANGED pool
    <3>1. Nodes("garbage").state # "ok"
      BY SMT DEF Nodes
    <3> QED BY <2>2, <3>1, Zenon DEF HalfWritten, PInv, PoolSurvives, Readable
  <2> QED BY <2>1, <2>2, Zenon DEF WriteNodes
<1> QED BY <1>2, <1>3 DEF PInv, PoolPath

\* Truncating nodes.json leaves nothing that could hold an older pool.
LEMMA OpenNodesPool ==
  ASSUME IInv, PInv, NEW r \in Refreshers, OpenNodes(r), \A q \in Refreshers : q = r
  PROVE  PInv'
<1>1. writer[r] \in Storing /\ pc[r] = "store" /\ UNCHANGED <<writer, inv, pool>>
  BY DEF IInv, Path, OpenNodes, At, locals
<1>2. GoTo(r, "storeWrite") \/ GoTo(r, AfterStore(r, FALSE))
  BY Zenon DEF OpenNodes
<1>3. PoolPath(r)'
  <2>1. pc'[r] \notin {"parse", "reparse"}
    BY <1>1, <1>2, SMT DEF IInv, TypeOK, GoTo, AfterStore, Storing, Outcomes
  <2> QED BY <1>1, <2>1 DEF PInv, PoolPath
<1>4. PoolSurvives'
  <2>1. nodesFile' = nodesFile \/ nodesFile' = Nodes("empty")
    BY Zenon DEF OpenNodes
  <2>2. Nodes("empty").state # "ok"
    BY SMT DEF Nodes
  <2> QED BY <1>1, <2>1, <2>2, Zenon DEF PInv, PoolSurvives, Readable
<1> QED BY <1>3, <1>4 DEF PInv

\* No other step writes nodes.json or is on the way to writing a sync to it.
LEMMA OtherPool ==
  ASSUME IInv, PInv, NEW r \in Refreshers, \A q \in Refreshers : q = r,
         \/ Refresh(r) \/ AdoptFloor(r) \/ ReadTicket(r) \/ Redeem(r) \/ Bootstrap(r)
         \/ RememberTicket(r) \/ ClearTicket(r) \/ Authorize(r)
         \/ OpenIdentity(r) \/ WriteIdentity(r)
  PROVE  PInv'
<1>1. UNCHANGED <<nodesFile, pool>>
  BY DEF Refresh, AdoptFloor, ReadTicket, Redeem, Bootstrap, RememberTicket,
     ClearTicket, Authorize, OpenIdentity, WriteIdentity, disk, history
<1>2. /\ pc'[r] \notin {"parse", "reparse", "storeWrite"}
      /\ pc'[r] = "store" => writer'[r] # "sync"
  <2>1. CASE Refresh(r) \/ AdoptFloor(r) \/ RememberTicket(r)
    BY <2>1, SMT DEF IInv, TypeOK, Refresh, AdoptFloor, RememberTicket, GoTo, Outcomes
  <2>2. CASE ReadTicket(r) \/ Authorize(r)
    <3>1. \/ GoTo(r, "bootstrap") \/ GoTo(r, "redeem") \/ GoTo(r, "complete")
          \/ GoTo(r, "needsAuth") \/ GoTo(r, "failed")
      BY <2>2, Zenon DEF ReadTicket, Authorize
    <3> QED BY <3>1, SMT DEF IInv, TypeOK, GoTo, Outcomes
  <2>3. CASE Redeem(r)
    <3>1. \/ writer' = [writer EXCEPT ![r] = pc[r]] /\ GoTo(r, "store")
          \/ GoTo(r, "bootstrap") \/ GoTo(r, "failed")
      BY <2>3, Zenon DEF Redeem
    <3>2. pc[r] # "sync"
      BY <2>3, SMT DEF Redeem, At
    <3> QED BY <3>1, <3>2, SMT DEF IInv, TypeOK, GoTo, Outcomes
  <2>4. CASE Bootstrap(r)
    <3>1. GoTo(r, "clear") \/ GoTo(r, "remember") \/ GoTo(r, "failed")
      BY <2>4, Zenon DEF Bootstrap
    <3> QED BY <3>1, SMT DEF IInv, TypeOK, GoTo, Outcomes
  <2>5. CASE ClearTicket(r) \/ OpenIdentity(r) \/ WriteIdentity(r)
    <3>1. /\ GoTo(r, "save") \/ GoTo(r, "saveWrite") \/ GoTo(r, AfterSave(r))
          /\ UNCHANGED writer
      BY <2>5, Zenon DEF ClearTicket, OpenIdentity, WriteIdentity, locals
    <3>2. writer[r] # "sync"
      BY <2>5, SMT DEF IInv, Path, Storing, ClearTicket, OpenIdentity, WriteIdentity, At
    <3>3. AfterSave(r) \in {"authorize", "store", "ok"}
      BY SMT DEF AfterSave
    <3> QED BY <3>1, <3>2, <3>3, SMT DEF IInv, TypeOK, GoTo, Outcomes
  <2> QED BY <2>1, <2>2, <2>3, <2>4, <2>5
<1> QED BY <1>1, <1>2 DEF PInv, PoolSurvives, Readable, PoolPath

\* Opening, creating, finishing or interrupting a session keeps the pool.
LEMMA RunPool ==
  ASSUME IInv, PInv,
         (\E s \in Sessions : SessionStep(s) \/ Interrupt(s)) \/ ControlPlaneStep
         \/ UNCHANGED vars
  PROVE  PInv'
<1>1. UNCHANGED <<nodesFile, pool>>
  BY DEF SessionStep, OpenSession, NewIdentity, SaveNewIdentity, Finish, Interrupt,
     ControlPlaneStep, ApproveClient, PublishDirectory, RaiseFloor, vars, disk, history
<1>2. \A r \in Refreshers : UNCHANGED <<pc[r], payload[r], writer[r], inv[r]>> \/ pc'[r] = "idle"
  <2>1. ASSUME NEW s \in Sessions, Forget(s), NEW r \in Refreshers
        PROVE  UNCHANGED <<pc[r], payload[r], writer[r], inv[r]>> \/ pc'[r] = "idle"
    BY <2>1, SMT DEF Forget, Cleared
  <2>2. (\E s \in Sessions : Forget(s)) \/ UNCHANGED <<pc, payload, writer, inv>>
    BY DEF SessionStep, OpenSession, NewIdentity, SaveNewIdentity, Finish, Interrupt,
       ControlPlaneStep, ApproveClient, PublishDirectory, RaiseFloor, vars, locals, control
  <2> QED BY <2>1, <2>2
<1>3. \A r \in Refreshers : PoolPath(r)'
  BY <1>1, <1>2, SMT DEF PInv, PoolPath
<1> QED BY <1>1, <1>3 DEF PInv, PoolSurvives, Readable

\* With one refresher the pool survives every refresh, crash and failed write,
\* whatever directories are published and however often the process restarts.
THEOREM PoolSurvivesAlone ==
  ASSUME \A r, q \in Refreshers : r = q
  PROVE  Spec => []PoolSurvives
<1>1. Init => PInv
  BY InitPool
<1>2. IInv /\ PInv /\ [Next]_vars => PInv'
  <2> SUFFICES ASSUME IInv, PInv, [Next]_vars PROVE PInv'
    OBVIOUS
  <2>1. ASSUME NEW r \in Refreshers, RefresherStep(r) PROVE PInv'
    BY <2>1, CallSyncPool, ParseSyncPool, OpenNodesPool, WriteNodesPool, OtherPool
       DEF RefresherStep
  <2> QED BY <2>1, RunPool DEF Next
<1>3. PInv => PoolSurvives
  BY DEF PInv
<1> QED BY <1>1, <1>2, <1>3, Invariance, PTL DEF Spec
=============================================================================
