------------------------------ MODULE Session ------------------------------
(***************************************************************************)
(* The control-plane session (internal/control/session.go, identity.go):   *)
(* how a client obtains the node directory, keeps it fresh and remembers   *)
(* an authorisation across runs.                                           *)
(*                                                                         *)
(* A session is one operating-system process that holds a control.Session: *)
(* either a serving process (main.run), whose console and background       *)
(* updater both call Refresh on it with no lock between them, or one       *)
(* -refresh command (main.refreshInventory), which calls Refresh once.     *)
(* All of them write nodes.json and identity.json with os.WriteFile, which *)
(* truncates the file and then writes it: two steps, and a process that    *)
(* stops between them, or a write that fails, leaves a file that does not  *)
(* parse.  The control plane is external and modelled by what the client   *)
(* relies on.                                                              *)
(***************************************************************************)
EXTENDS Integers, Sequences, FiniteSets, Inventory

CONSTANTS
  Sessions,        \* processes
  Refreshers,      \* goroutines that call Session.Refresh
  SessionOf,       \* the session each refresher uses
  Serving,         \* the sessions that serve; the others are -refresh commands
  AutoApprove,     \* the commands that may be run with -auto-approve
  Directory,       \* the directories the control plane publishes, in order
  DefaultVersion,  \* defaultVersion, the version a new client reports
  MaxFloor,        \* bound: highest version floor the control plane demands
  MaxTickets,      \* bound: distinct tickets the control plane issues
  MaxFaults        \* bound: lost calls, failed writes and interrupted runs

ASSUME SessionAssumption ==
  /\ SessionOf \in [Refreshers -> Sessions]
  /\ Serving \subseteq Sessions
  /\ AutoApprove \subseteq Sessions \ Serving
  /\ Directory \in Seq(InventoryType) /\ Len(Directory) > 0
  /\ DefaultVersion \in Nat /\ MaxFloor \in Nat /\ MaxFaults \in Nat
  /\ DefaultVersion <= MaxFloor
  /\ MaxTickets \in Nat \ {0}

VARIABLES
  approved, generation, floor, issued,         \* control plane
  nodesFile, identityFile,                     \* disk
  running, pendingTicket, appVersion,          \* memory of each session
  pc, payload, ticket, draft, inv, writer,     \* locals of each refresher
  result,                                      \* what its last Refresh returned
  faults, pool, recorded                       \* bound and history

controlPlane == <<approved, generation, floor, issued>>
disk         == <<nodesFile, identityFile>>
memory       == <<running, pendingTicket, appVersion>>
locals       == <<payload, ticket, draft, inv, writer>>
control      == <<pc, result>>
history      == <<faults, pool, recorded>>
vars == <<controlPlane, disk, memory, locals, control, history>>

NoTicket == 0
Garbled  == -1     \* a string read while another goroutine assigns it
Tickets  == Garbled .. MaxTickets

-----------------------------------------------------------------------------
(* Files.  "empty" is a truncated file, "garbage" one that holds part of a *)
(* write or the tail of a longer earlier one; neither parses.              *)

FileStates == {"absent", "empty", "garbage", "ok"}
Nodes(state)     == [state |-> state, inv |-> NoInventory]
NodesOf(i)       == [state |-> "ok", inv |-> i]
Identity(state)  == [state |-> state, ticket |-> NoTicket]
IdentityOf(t)    == [state |-> "ok", ticket |-> t]

\* inventory.Load succeeds; the identity parses (LoadIdentity).
Loadable(f)     == f.state = "ok" /\ Validate(f.inv)
Readable(f)     == f.state = "ok"

\* What a write of new leaves in a file that now holds f.  Each writer has a
\* file offset of its own, so over an earlier writer's bytes a shorter text
\* leaves their tail behind it.
Written(f, new, garbage) ==
  IF f.state = "empty" \/ f = new THEN {new} ELSE {new, garbage}

\* What a write that fails half way leaves.
HalfWritten(f, garbage) == {f, garbage}

-----------------------------------------------------------------------------
(* The control plane (external).  It answers an unapproved identity with a *)
(* ticket, withholds the directory from a client below the version floor   *)
(* and ships the root-domain pool with a full directory only.              *)

Published == Directory[generation]
SyncReply  == [runtime |-> TRUE,
               dir     |-> [Published EXCEPT !.root_domains = << >>],
               floor   |-> floor]
ReleaseReply == [runtime |-> FALSE, dir |-> NoInventory, floor |-> floor]
NoReply      == [runtime |-> FALSE, dir |-> NoInventory, floor |-> 0]

UpToDate(s) == appVersion[s] >= floor

ApproveClient ==
  /\ issued > 0 /\ ~approved
  /\ approved' = TRUE
  /\ UNCHANGED <<generation, floor, issued, disk, memory, locals, control, history>>

PublishDirectory ==
  /\ generation < Len(Directory)
  /\ generation' = generation + 1
  /\ UNCHANGED <<approved, floor, issued, disk, memory, locals, control, history>>

RaiseFloor ==
  /\ floor < MaxFloor
  /\ floor' = floor + 1
  /\ UNCHANGED <<approved, generation, issued, disk, memory, locals, control, history>>

-----------------------------------------------------------------------------
(* How a step of Refresh goes on: to another step, or back to the caller.  *)

Outcomes == {"ok", "needsAuth", "failed"}
Steps == {"idle", "sync", "parse", "adopt", "resync", "reparse", "ticket",
          "redeem", "bootstrap", "remember", "authorize", "complete",
          "clear", "save", "saveWrite", "store", "storeWrite"}

At(r, steps) == pc[r] \in steps

GoTo(r, next) ==
  /\ pc' = [pc EXCEPT ![r] = IF next \in Outcomes THEN "idle" ELSE next]
  /\ result' = [result EXCEPT ![r] = IF next \in Outcomes THEN next ELSE @]

Fault == faults < MaxFaults /\ faults' = faults + 1

\* Where a refresher goes after WriteFile on nodes.json (Refresh, Complete).
AfterStoreIgnoringErrors(r, stored) ==     \* faulty: persist is taken to have worked
  IF writer[r] \in {"sync", "bootstrap"} THEN "ok" ELSE "clear"

AfterStore(r, stored) ==
  CASE writer[r] = "sync"      -> IF stored THEN "ok" ELSE "failed"
    [] writer[r] = "redeem"    -> IF stored THEN "clear" ELSE "bootstrap"
    [] writer[r] = "bootstrap" -> IF stored THEN "ok" ELSE "failed"
    [] writer[r] = "complete"  -> IF stored THEN "clear" ELSE "failed"

\* Where it goes after WriteFile on identity.json, whether or not that worked.
AfterSave(r) ==
  CASE writer[r] = "remember"  -> "authorize"
    [] writer[r] = "bootstrap" -> "store"
    [] OTHER                   -> "ok"

\* Another goroutine of the same session is assigning PendingTicket: a read
\* that is not synchronised with it may see half of the new string.
TicketBeingAssigned(r) ==
  \E q \in Refreshers \ {r} : /\ SessionOf[q] = SessionOf[r]
                              /\ At(q, {"remember", "clear"})

TicketReads(r) ==
  {pendingTicket[SessionOf[r]]} \cup
  (IF TicketBeingAssigned(r) THEN {Garbled} ELSE {})

-----------------------------------------------------------------------------
(* trySync                                                                 *)

\* One call of Refresh: a tick of the updater, a console "refresh", or the
\* single one of a -refresh command.  Its locals start from their zero values.
Refresh(r) ==
  LET s == SessionOf[r] IN
  /\ running[s] = "up" /\ At(r, {"idle"})
  /\ s \notin Serving => result[r] = "none"
  /\ pc' = [pc EXCEPT ![r] = "sync"]
  /\ result' = [result EXCEPT ![r] = "none"]
  /\ payload' = [payload EXCEPT ![r] = NoReply]
  /\ ticket' = [ticket EXCEPT ![r] = NoTicket]
  /\ draft' = [draft EXCEPT ![r] = NoTicket]
  /\ inv' = [inv EXCEPT ![r] = NoInventory]
  /\ writer' = [writer EXCEPT ![r] = "none"]
  /\ UNCHANGED <<controlPlane, disk, memory, history>>

\* Client.Sync, the first time or once more after a floor was adopted.
CallSync(r) ==
  LET s == SessionOf[r] IN
  /\ At(r, {"sync", "resync"})
  /\ \/ /\ Fault \/ (~approved /\ UNCHANGED faults)
        /\ GoTo(r, "ticket")
        /\ UNCHANGED payload
     \/ /\ approved
        /\ payload' = [payload EXCEPT ![r] = IF UpToDate(s) THEN SyncReply
                                                            ELSE ReleaseReply]
        /\ GoTo(r, IF pc[r] = "sync" THEN "parse" ELSE "reparse")
        /\ UNCHANGED faults
  /\ UNCHANGED <<controlPlane, disk, memory, ticket, draft, inv, writer, pool, recorded>>

\* parseSync: merge what is on disk, if it loads, under what was received.
MergedOver(dir) ==      \* faulty: merges what was received under what is on disk
  IF Loadable(nodesFile) THEN FillMissingFrom(nodesFile.inv, dir) ELSE dir

Merged(dir) ==
  IF Loadable(nodesFile) THEN FillMissingFrom(dir, nodesFile.inv) ELSE dir

\* A floor is adopted only when it is above the version reported (versionLess).
AdoptsAnyFloor(r) == appVersion[SessionOf[r]] # payload[r].floor     \* faulty

BelowFloor(r) == appVersion[SessionOf[r]] < payload[r].floor

ParseSync(r) ==
  LET reply == payload[r]
      next  == Merged(reply.dir)
      usable == reply.runtime /\ Validate(next)
  IN
  /\ At(r, {"parse", "reparse"})
  /\ \/ /\ usable
        /\ inv' = [inv EXCEPT ![r] = next]
        /\ writer' = [writer EXCEPT ![r] = "sync"]
        /\ GoTo(r, "store")
     \/ /\ ~usable
        /\ GoTo(r, IF pc[r] = "parse" /\ BelowFloor(r) THEN "adopt" ELSE "ticket")
        /\ UNCHANGED <<inv, writer>>
  /\ payload' = [payload EXCEPT ![r] = [NoReply EXCEPT !.floor = reply.floor]]
  /\ UNCHANGED <<controlPlane, disk, memory, ticket, draft, history>>

AdoptPastFloor(r) ==      \* faulty: reports the version after the one demanded
  /\ At(r, {"adopt"})
  /\ appVersion' = [appVersion EXCEPT ![SessionOf[r]] = payload[r].floor + 1]
  /\ GoTo(r, "resync")
  /\ UNCHANGED <<controlPlane, disk, running, pendingTicket, locals, history>>

AdoptFloor(r) ==
  /\ At(r, {"adopt"})
  /\ appVersion' = [appVersion EXCEPT ![SessionOf[r]] = payload[r].floor]
  /\ GoTo(r, "resync")
  /\ UNCHANGED <<controlPlane, disk, running, pendingTicket, locals, history>>

-----------------------------------------------------------------------------
(* The rest of Refresh                                                     *)

\* The pending ticket, when there is one, is redeemed before bootstrapping.
ReadTicket(r) ==
  /\ At(r, {"ticket"})
  /\ \E t \in TicketReads(r) :
       /\ ticket' = [ticket EXCEPT ![r] = t]
       /\ GoTo(r, IF t = NoTicket THEN "bootstrap" ELSE "redeem")
  /\ UNCHANGED <<controlPlane, disk, memory, payload, draft, inv, writer, history>>

\* Client.Access and ParseInventory in Complete, for a pending ticket or for
\* the one -auto-approve has just had approved.
Redeem(r) ==
  LET obtained == /\ approved /\ ticket[r] \in 1..issued
                  /\ UpToDate(SessionOf[r]) /\ Validate(Published)
  IN
  /\ At(r, {"redeem", "complete"})
  /\ \/ /\ obtained
        /\ inv' = [inv EXCEPT ![r] = Published]
        /\ writer' = [writer EXCEPT ![r] = pc[r]]
        /\ GoTo(r, "store")
        /\ UNCHANGED faults
     \/ /\ (~obtained /\ UNCHANGED faults) \/ Fault
        /\ GoTo(r, IF pc[r] = "redeem" THEN "bootstrap" ELSE "failed")
        /\ UNCHANGED <<inv, writer>>
  /\ UNCHANGED <<controlPlane, disk, memory, payload, ticket, draft, pool, recorded>>

\* Client.Bootstrap: an approved identity gets the whole directory back, or the
\* release block only when the client is below the floor; any other identity
\* gets a ticket.
NoDirectoryFromBootstrap(r) == r \notin Refreshers   \* faulty: only tickets are looked for

DirectoryFromBootstrap(r) ==
  approved /\ UpToDate(SessionOf[r]) /\ Validate(Published)

Bootstrap(r) ==
  LET fresh == IF issued < MaxTickets THEN issued + 1 ELSE issued
      obtained == DirectoryFromBootstrap(r)
  IN
  /\ At(r, {"bootstrap"})
  /\ \/ /\ obtained
        /\ inv' = [inv EXCEPT ![r] = Published]
        /\ writer' = [writer EXCEPT ![r] = "bootstrap"]
        /\ GoTo(r, "clear")
        /\ UNCHANGED <<issued, ticket, faults>>
     \/ /\ ~approved
        /\ issued' = fresh
        /\ ticket' = [ticket EXCEPT ![r] = fresh]
        /\ GoTo(r, "remember")
        /\ UNCHANGED <<inv, writer, faults>>
     \/ /\ (approved /\ ~obtained /\ UNCHANGED faults) \/ Fault
        /\ GoTo(r, "failed")
        /\ UNCHANGED <<issued, ticket, inv, writer>>
  /\ UNCHANGED <<approved, generation, floor, disk, memory, payload, draft, pool, recorded>>

\* rememberTicket and clearTicket: the assignment, before the identity is saved.
SaveWithoutRemembering(r) ==   \* faulty: the assignment is missing
  /\ At(r, {"remember"})
  /\ writer' = [writer EXCEPT ![r] = "remember"]
  /\ GoTo(r, "save")
  /\ UNCHANGED <<controlPlane, disk, memory, payload, ticket, draft, inv, history>>

RememberTicket(r) ==
  /\ At(r, {"remember"})
  /\ pendingTicket' = [pendingTicket EXCEPT ![SessionOf[r]] = ticket[r]]
  /\ writer' = [writer EXCEPT ![r] = "remember"]
  /\ GoTo(r, "save")
  /\ UNCHANGED <<controlPlane, disk, running, appVersion, payload, ticket, draft, inv, history>>

ClearTicket(r) ==
  /\ At(r, {"clear"})
  /\ \E t \in TicketReads(r) :
       \/ /\ t = NoTicket
          /\ GoTo(r, AfterSave(r))
          /\ UNCHANGED <<pendingTicket, recorded>>
       \/ /\ t # NoTicket
          /\ pendingTicket' = [pendingTicket EXCEPT ![SessionOf[r]] = NoTicket]
          /\ recorded' = NoTicket
          /\ GoTo(r, "save")
  /\ UNCHANGED <<controlPlane, disk, running, appVersion, locals, faults, pool>>

\* A refresh without -auto-approve ends here, for the user to approve; one with
\* it goes on to Client.Authorize and the wait the control plane asked for.
Authorize(r) ==
  /\ At(r, {"authorize"})
  /\ \/ /\ GoTo(r, "needsAuth")
        /\ UNCHANGED <<approved, faults>>
     \/ /\ SessionOf[r] \in AutoApprove
        /\ approved' = TRUE
        /\ GoTo(r, "complete")
        /\ UNCHANGED faults
     \/ /\ SessionOf[r] \in AutoApprove /\ Fault
        /\ GoTo(r, "failed")
        /\ UNCHANGED approved
  /\ UNCHANGED <<generation, floor, issued, disk, memory, locals, pool, recorded>>

-----------------------------------------------------------------------------
(* os.WriteFile, on identity.json (Identity.Save) and nodes.json (persist) *)

\* Save marshals the identity and opens the file, which truncates it.
OpenIdentity(r) ==
  /\ At(r, {"save"})
  /\ \/ /\ \E t \in TicketReads(r) : draft' = [draft EXCEPT ![r] = t]
        /\ identityFile' = Identity("empty")
        /\ GoTo(r, "saveWrite")
        /\ UNCHANGED <<faults, recorded>>
     \/ /\ Fault
        /\ GoTo(r, AfterSave(r))
        /\ recorded' = IF writer[r] = "remember" THEN NoTicket ELSE recorded
        /\ UNCHANGED <<draft, identityFile>>
  /\ UNCHANGED <<controlPlane, nodesFile, memory, payload, ticket, inv, writer, pool>>

\* A failure is only logged, and Refresh goes on either way.
WriteIdentity(r) ==
  /\ At(r, {"saveWrite"})
  /\ \/ /\ identityFile' \in Written(identityFile, IdentityOf(draft[r]), Identity("garbage"))
        /\ recorded' = IF writer[r] = "remember" THEN ticket[r] ELSE recorded
        /\ UNCHANGED faults
     \/ /\ Fault
        /\ identityFile' \in HalfWritten(identityFile, Identity("garbage"))
        /\ recorded' = IF writer[r] = "remember" THEN NoTicket ELSE recorded
  /\ draft' = [draft EXCEPT ![r] = NoTicket]
  /\ GoTo(r, AfterSave(r))
  /\ UNCHANGED <<controlPlane, nodesFile, memory, payload, ticket, inv, writer, pool>>

OpenNodes(r) ==
  /\ At(r, {"store"})
  /\ \/ /\ nodesFile' = Nodes("empty")
        /\ GoTo(r, "storeWrite")
        /\ UNCHANGED faults
     \/ /\ Fault
        /\ GoTo(r, AfterStore(r, FALSE))
        /\ UNCHANGED nodesFile
  /\ UNCHANGED <<controlPlane, identityFile, memory, locals, pool, recorded>>

\* pool is the root-domain pool of the newest full directory that was stored.
WriteNodes(r) ==
  /\ At(r, {"storeWrite"})
  /\ \/ /\ nodesFile' \in Written(nodesFile, NodesOf(inv[r]), Nodes("garbage"))
        /\ pool' = IF writer[r] # "sync" /\ Readable(nodesFile')
                     THEN inv[r].root_domains ELSE pool
        /\ GoTo(r, AfterStore(r, TRUE))
        /\ UNCHANGED faults
     \/ /\ Fault
        /\ nodesFile' \in HalfWritten(nodesFile, Nodes("garbage"))
        /\ GoTo(r, AfterStore(r, FALSE))
        /\ UNCHANGED pool
  /\ UNCHANGED <<controlPlane, identityFile, memory, locals, recorded>>

-----------------------------------------------------------------------------
(* Runs of the program                                                     *)

\* Memory and locals of a session that is not running.
Cleared(s, f, zero) ==
  [r \in Refreshers |-> IF SessionOf[r] = s THEN zero ELSE f[r]]

Forget(s) ==
  /\ running' = [running EXCEPT ![s] = "down"]
  /\ pendingTicket' = [pendingTicket EXCEPT ![s] = NoTicket]
  /\ appVersion' = [appVersion EXCEPT ![s] = DefaultVersion]
  /\ pc' = Cleared(s, pc, "idle")
  /\ result' = Cleared(s, result, "none")
  /\ payload' = Cleared(s, payload, NoReply)
  /\ ticket' = Cleared(s, ticket, NoTicket)
  /\ draft' = Cleared(s, draft, NoTicket)
  /\ inv' = Cleared(s, inv, NoInventory)
  /\ writer' = Cleared(s, writer, "none")

\* Open with a stored identity.  A serving process loads nodes.json first and
\* serves without a session when there is no identity; a file that does not
\* parse ends the run, which leaves everything as it was.
OpenSession(s) ==
  /\ running[s] = "down"
  /\ s \in Serving => Loadable(nodesFile)
  /\ Readable(identityFile)
  /\ running' = [running EXCEPT ![s] = "up"]
  /\ pendingTicket' = [pendingTicket EXCEPT ![s] = identityFile.ticket]
  /\ UNCHANGED <<controlPlane, disk, appVersion, locals, control, history>>

\* Open without one: a -refresh command makes an identity and saves it.
NewIdentity(s) ==
  /\ running[s] = "down" /\ s \notin Serving
  /\ identityFile.state = "absent"
  /\ identityFile' = Identity("empty")
  /\ running' = [running EXCEPT ![s] = "creating"]
  /\ UNCHANGED <<controlPlane, nodesFile, pendingTicket, appVersion, locals, control, history>>

SaveNewIdentity(s) ==
  /\ running[s] = "creating"
  /\ \/ /\ identityFile' \in Written(identityFile, IdentityOf(NoTicket), Identity("garbage"))
        /\ running' = [running EXCEPT ![s] = "up"]
        /\ UNCHANGED faults
     \/ /\ Fault
        /\ identityFile' \in HalfWritten(identityFile, Identity("garbage"))
        /\ running' = [running EXCEPT ![s] = "down"]
  /\ UNCHANGED <<controlPlane, nodesFile, pendingTicket, appVersion, locals, control,
                 pool, recorded>>

\* A -refresh command ends when its Refresh has returned.
Finish(s) ==
  /\ running[s] = "up" /\ s \notin Serving
  /\ \A r \in Refreshers : SessionOf[r] = s => At(r, {"idle"}) /\ result[r] # "none"
  /\ Forget(s)
  /\ UNCHANGED <<controlPlane, disk, history>>

\* A crash at any step, or the shutdown of a serving process: main returns
\* without waiting for a Refresh that is under way.
Interrupt(s) ==
  /\ running[s] # "down"
  /\ Fault
  /\ Forget(s)
  /\ UNCHANGED <<controlPlane, disk, pool, recorded>>

-----------------------------------------------------------------------------
\* A first run, or one that finds the first directory, and an identity that is
\* approved or was made anew since.
Init ==
  /\ generation = 1 /\ floor \in 0..DefaultVersion
  /\ \/ /\ approved = FALSE /\ issued = 0
        /\ nodesFile = Nodes("absent") /\ identityFile = Identity("absent")
        /\ pool = << >>
     \/ /\ Validate(Directory[1])
        /\ approved \in BOOLEAN /\ issued = 0
        /\ nodesFile = NodesOf(Directory[1]) /\ identityFile = IdentityOf(NoTicket)
        /\ pool = Directory[1].root_domains
  /\ running = [s \in Sessions |-> "down"]
  /\ pendingTicket = [s \in Sessions |-> NoTicket]
  /\ appVersion = [s \in Sessions |-> DefaultVersion]
  /\ pc = [r \in Refreshers |-> "idle"]
  /\ result = [r \in Refreshers |-> "none"]
  /\ payload = [r \in Refreshers |-> NoReply]
  /\ ticket = [r \in Refreshers |-> NoTicket]
  /\ draft = [r \in Refreshers |-> NoTicket]
  /\ inv = [r \in Refreshers |-> NoInventory]
  /\ writer = [r \in Refreshers |-> "none"]
  /\ faults = 0 /\ recorded = NoTicket

RefresherStep(r) ==
  \/ Refresh(r) \/ CallSync(r) \/ ParseSync(r) \/ AdoptFloor(r)
  \/ ReadTicket(r) \/ Redeem(r) \/ Bootstrap(r)
  \/ RememberTicket(r) \/ ClearTicket(r) \/ Authorize(r)
  \/ OpenIdentity(r) \/ WriteIdentity(r) \/ OpenNodes(r) \/ WriteNodes(r)

SessionStep(s) ==
  OpenSession(s) \/ NewIdentity(s) \/ SaveNewIdentity(s) \/ Finish(s)

ControlPlaneStep == ApproveClient \/ PublishDirectory \/ RaiseFloor

Next ==
  \/ \E r \in Refreshers : RefresherStep(r)
  \/ \E s \in Sessions : SessionStep(s) \/ Interrupt(s)
  \/ ControlPlaneStep

Spec == Init /\ [][Next]_vars

\* Every step of a running Refresh is eventually taken, the user runs -refresh
\* again after a run that ended and approves the page sooner or later.  Nothing
\* is assumed of faults, of new directories or of a rising floor.
Fairness ==
  /\ \A r \in Refreshers : WF_vars(RefresherStep(r))
  /\ \A s \in Sessions : WF_vars(SessionStep(s))
  /\ WF_vars(ApproveClient)

FairSpec == Spec /\ Fairness

-----------------------------------------------------------------------------
(* Properties                                                              *)

\* Every variable has its type.
Reply == [runtime : BOOLEAN, dir : InventoryType, floor : 0..MaxFloor]
Writers == {"none", "sync", "redeem", "complete", "bootstrap", "remember"}

TypeOK ==
  /\ approved \in BOOLEAN /\ generation \in 1..Len(Directory)
  /\ floor \in 0..MaxFloor /\ issued \in 0..MaxTickets
  /\ nodesFile \in [state : FileStates, inv : InventoryType]
  /\ identityFile \in [state : FileStates, ticket : Tickets]
  /\ running \in [Sessions -> {"down", "creating", "up"}]
  /\ pendingTicket \in [Sessions -> Tickets]
  /\ appVersion \in [Sessions -> 0..MaxFloor]
  /\ pc \in [Refreshers -> Steps]
  /\ result \in [Refreshers -> Outcomes \cup {"none"}]
  /\ payload \in [Refreshers -> Reply]
  /\ ticket \in [Refreshers -> Tickets] /\ draft \in [Refreshers -> Tickets]
  /\ inv \in [Refreshers -> InventoryType]
  /\ writer \in [Refreshers -> Writers]
  /\ faults \in 0..MaxFaults /\ pool \in Seq(Text) /\ recorded \in Tickets

\* What the code that serves from an inventory relies on without a check of its
\* own: SelectGroup takes EntryGroups[0], SelectRoot draws from a pool it takes
\* to be non-empty, RankTCP dials IPv4 and the configuration holds a 32-byte key.
Servable(i) ==
  /\ i.root_domains # << >> /\ i.hosts # << >> /\ i.entry_groups # << >>
  /\ \A h \in DOMAIN i.hosts : i.hosts[h].key.len = KeyLength
  /\ \A g \in DOMAIN i.entry_groups : i.entry_groups[g].ipv4 # << >>

\* Whatever is merged, redeemed, torn, retried or written by two refreshers at
\* once, nodes.json when it parses, and every inventory a Refresh hands to its
\* caller, is one the client can serve from.
OnlyServable ==
  /\ nodesFile.state = "ok" => Servable(nodesFile.inv)
  /\ \A r \in Refreshers : result[r] = "ok" => Servable(inv[r])

\* "The pool has to survive across refreshes" (inventory.go:50-53): a sync never
\* brings back a root-domain pool older than the newest one stored, although it
\* carries none itself and merges whatever it finds on disk.
PoolSurvives ==
  Readable(nodesFile) => nodesFile.inv.root_domains = pool

\* A refresh that reports success has left on disk exactly what it returned, so
\* that the next run serves what this one announced.
StoredIsReturned ==
  \A r \in Refreshers :
    At(r, {"idle"}) /\ result[r] = "ok" => nodesFile = NodesOf(inv[r])

\* "The ticket has to outlive the process that obtained it" (identity.go:22-25):
\* the ticket last recorded without a warning, and not redeemed since, is the one
\* the next run finds.
TicketOutlivesRun ==
  recorded # NoTicket /\ Readable(identityFile) => identityFile.ticket = recorded

\* Within one run the version a client reports never falls back (session.go:188-196).
VersionNeverFalls ==
  [][\A s \in Sessions : running'[s] = "up" => appVersion'[s] >= appVersion[s]]_vars

\* However refreshes failed and whatever they left in nodes.json, an inventory
\* is obtained again, for good or after each new write, unless identity.json
\* itself was left torn or what is published cannot be used.
Recovers ==
  \/ []<>Loadable(nodesFile)
  \/ <>[](identityFile.state \in {"empty", "garbage"})
  \/ <>[]~Validate(Published)

\* What a refresher has been given and has not lost since: an answer counts from the
\* call that brought it, before it is parsed.
InHand(r) ==
  LET next == Merged(payload[r].dir) IN
  IF At(r, {"parse", "reparse"}) /\ payload[r].runtime /\ Validate(next) THEN next
  ELSE IF \/ At(r, {"store", "storeWrite", "clear"})
          \/ At(r, {"save", "saveWrite"}) /\ writer[r] # "remember"
          \/ At(r, {"idle"}) /\ result[r] = "ok"
  THEN inv[r] ELSE NoInventory

OnDisk == IF Loadable(nodesFile) THEN nodesFile.inv ELSE NoInventory

StatusOf(r) ==
  IF ~At(r, {"idle"}) THEN "busy" ELSE IF result[r] = "none" THEN "idle" ELSE result[r]

\* With one refresher a Refresh is as good as atomic (Store): whichever way it asked
\* and however often, what it returns was published at one instant since its call,
\* completed with what was then on disk, and is stored.
Promised == INSTANCE Store WITH
  Callers  <- Refreshers,
  stored   <- OnDisk,
  status   <- [r \in Refreshers |-> StatusOf(r)],
  obtained <- [r \in Refreshers |-> InHand(r)]

ImplementsStore == Promised!Spec
=============================================================================
