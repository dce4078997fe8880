------------------------------- MODULE Panel -------------------------------
(***************************************************************************)
(* A serving process (main.run) from its start to its end: the main        *)
(* goroutine, which starts the proxy and then runs the console             *)
(* (internal/console) or waits to be interrupted, and the background       *)
(* updater (internal/updater), which shares the console's inventory.       *)
(*                                                                         *)
(* The engine is what Proxy promises, its calls atomic.  Session.Refresh   *)
(* is taken step by step as far as the inventory goes: a sync brings the   *)
(* directory published when it was answered without its root pool, which   *)
(* is merged from nodes.json; a client that cannot sync or has nothing to  *)
(* merge bootstraps and gets the whole directory; and what was obtained is *)
(* stored.  The two callers' refreshes overlap freely.  Tickets, version   *)
(* floors and identity.json are left to Session.                           *)
(***************************************************************************)
EXTENDS Integers, Sequences, Selection

CONSTANTS
  Directory,     \* the directories published, in order; all of them valid
  Interactive,   \* may -console be given? may it not?
  Watching,      \* may -refresh-interval be set? may it not?
  Inputs,        \* the lines typed at the console
  Pinned,        \* -root
  FirstOptions,  \* the selection on the command line
  NoTunnel,
  MaxFaults      \* bound: failed probes, saves, starts and refreshes

ASSUME PanelAssumption ==
  /\ Directory \in Seq(InventoryType) /\ Len(Directory) > 0
  /\ \A g \in DOMAIN Directory : Validate(Directory[g])
  /\ Interactive \subseteq BOOLEAN /\ Watching \subseteq BOOLEAN
  /\ MaxFaults \in Nat

Refreshers == {"console", "updater"}

VARIABLES
  interactive, watching,    \* the options
  generation,               \* the newest directory published
  pc, snap, choice, line, want,   \* main goroutine: step, inventory in hand, plan, command
  session,                  \* "unopened", "none" or "open"
  inv, opts,                \* Console
  tunnel,                   \* what the engine serves
  cached,                   \* the root domain in state.json
  upd, current,             \* updater: step, last inventory
  nodesFile,                \* nodes.json
  call,                     \* the Refresh of each caller: its step, what it has obtained
  cancelled,                \* the process has been interrupted
  faults

console == <<inv, opts>>
locals  == <<snap, choice, line, want>>
watcher == <<upd, current>>
refreshes == <<nodesFile, call>>
options == <<interactive, watching>>
outside == <<options, generation, cancelled, faults>>
vars == <<options, generation, cancelled, faults, pc, locals, session, console, tunnel, cached,
          watcher, refreshes>>

Newest == Len(Directory)

\* An inventory: the directory its client id, exits and ingresses come from, and
\* the one its root pool comes from.
Inventories(n) == [dir : 1..n, pool : 1..n]
Whole(g) == [dir |-> g, pool |-> g]
Held(i)  == [Directory[i.dir] EXCEPT !.root_domains = Directory[i.pool].root_domains]

\* Nothing obtained, or nodes.json truncated; and nodes.json with part of a write.
Nothing == [dir |-> 0, pool |-> 0]
Torn    == [dir |-> -1, pool |-> -1]
Loadable == nodesFile \notin {Nothing, Torn}

Fault   == faults < MaxFaults /\ faults' = faults + 1
NoLine  == [name |-> "none", number |-> 0, text |-> ""]

Ended == pc \in {"ended", "panicked"}

Publish ==
  /\ generation < Newest /\ ~Ended
  /\ generation' = generation + 1
  /\ UNCHANGED <<options, cancelled, faults, pc, locals, session, console, tunnel, cached, watcher,
                 refreshes>>

Interrupt ==
  /\ ~cancelled /\ ~Ended
  /\ cancelled' = TRUE
  /\ UNCHANGED <<options, generation, faults, pc, locals, session, console, tunnel, cached, watcher,
                 refreshes>>

-----------------------------------------------------------------------------
(* Session.Refresh, called by r.  An interrupt makes its calls of the      *)
(* control plane fail, and the process takes it along when it ends.        *)

At(r, step) == call[r].step = step /\ ~Ended

Returned(r, how) == call[r].step = how

Begin(r) == call' = [call EXCEPT ![r] = [step |-> "sync", inv |-> Nothing]]
Free(r)  == call' = [call EXCEPT ![r] = [step |-> "idle", inv |-> Nothing]]
Obtain(r, i, step) == call' = [call EXCEPT ![r] = [step |-> step, inv |-> i]]
Move(r, step)      == Obtain(r, call[r].inv, step)

\* A call of the control plane that is lost.
Lost == (cancelled /\ UNCHANGED faults) \/ Fault

elsewhere == <<options, generation, cancelled, pc, locals, session, console, tunnel, cached, watcher>>

\* Client.Sync: a directory, and its pool still missing.
Sync(r) ==
  /\ At(r, "sync")
  /\ \/ /\ Obtain(r, [dir |-> generation, pool |-> 0], "merge")
        /\ UNCHANGED faults
     \/ Lost /\ Obtain(r, Nothing, "bootstrap")
  /\ UNCHANGED <<elsewhere, nodesFile>>

\* parseSync: the pool is the one nodes.json holds by now; without one the
\* directory is not usable.
Merge(r) ==
  /\ At(r, "merge")
  /\ IF Loadable THEN Obtain(r, [call[r].inv EXCEPT !.pool = nodesFile.pool], "store")
                 ELSE Obtain(r, Nothing, "bootstrap")
  /\ UNCHANGED <<elsewhere, faults, nodesFile>>

\* Client.Bootstrap of an approved client: the whole directory.
Bootstrap(r) ==
  /\ At(r, "bootstrap")
  /\ \/ /\ Obtain(r, Whole(generation), "store")
        /\ UNCHANGED faults
     \/ Lost /\ Obtain(r, Nothing, "failed")
  /\ UNCHANGED <<elsewhere, nodesFile>>

\* persist: os.WriteFile truncates the file and then writes it.
OpenNodes(r) ==
  /\ At(r, "store")
  /\ \/ /\ nodesFile' = Nothing /\ Move(r, "write")
        /\ UNCHANGED faults
     \/ Fault /\ Obtain(r, Nothing, "failed") /\ UNCHANGED nodesFile
  /\ UNCHANGED elsewhere

\* Over what the other caller has written since, a shorter text leaves a tail.
WriteNodes(r) ==
  /\ At(r, "write")
  /\ \/ /\ nodesFile' \in IF nodesFile \in {Nothing, call[r].inv} THEN {call[r].inv}
                           ELSE {call[r].inv, Torn}
        /\ Move(r, "done")
        /\ UNCHANGED faults
     \/ Fault /\ nodesFile' \in {nodesFile, Torn} /\ Obtain(r, Nothing, "failed")
  /\ UNCHANGED elsewhere

Refreshing(r) ==
  Sync(r) \/ Merge(r) \/ Bootstrap(r) \/ OpenNodes(r) \/ WriteNodes(r)

-----------------------------------------------------------------------------
(* How the main goroutine goes on.  run stops the engine when it returns,  *)
(* by a return or by a panic, and the updater goes with the process.       *)

Leave(how) ==
  /\ pc' = how /\ tunnel' = NoTunnel /\ upd' = "ended"

GoTo(step) ==
  /\ pc' = step /\ UNCHANGED <<tunnel, upd>>

\* A start that fails ends a process that is starting; the console reports it.
GiveUp ==
  /\ snap' = Nothing
  /\ IF session = "unopened" THEN Leave("ended") ELSE GoTo("loop")

-----------------------------------------------------------------------------
(* supervisor.Start                                                        *)

Choices(i, o) ==
  {[host |-> h, group |-> g, root |-> r] :
     h \in SelectHost(i, o.host), g \in SelectGroup(i, o.entry),
     r \in SelectRoot(i, Pinned, cached)}

\* The selections of Resolve.  A root that cannot be saved is only warned about,
\* and the write that failed may have truncated state.json.
Resolve ==
  /\ pc = "resolve"
  /\ \/ /\ Choices(Held(snap), opts) = {}
        /\ GiveUp
        /\ UNCHANGED <<choice, cached, faults>>
     \/ \E c \in Choices(Held(snap), opts) :
          /\ choice' = c
          /\ \/ cached' = c.root /\ UNCHANGED faults
             \/ c.root # cached /\ Fault /\ cached' \in {cached, ""}
          /\ GoTo("probe")
          /\ UNCHANGED snap
  /\ UNCHANGED <<options, generation, cancelled, line, want, session, console, current, refreshes>>

\* rankEntries dials for seconds; an interrupt makes the dials fail.  Then the
\* front proxy, when one is wanted, has to be there.
Probe ==
  /\ pc = "probe"
  /\ LET usable == opts.direct \/ choice.group.front_proxy # "" IN
     \/ /\ usable /\ GoTo("apply")
        /\ UNCHANGED <<snap, faults>>
     \/ /\ \/ ~usable /\ UNCHANGED faults
           \/ cancelled /\ UNCHANGED faults
           \/ Fault
        /\ GiveUp
  /\ UNCHANGED <<options, generation, cancelled, choice, line, want, session, console, cached, current, refreshes>>

\* The plan and the configuration made from it, engine.Plan and xcfg.Build.
PlanOfCurrent(c) ==      \* faulty: reads the inventory again when it builds
  [host |-> c.host, group |-> c.group, root |-> c.root, direct |-> opts.direct,
   client_id |-> Held(inv).client_id]

PlanOf(c) ==
  [host |-> c.host, group |-> c.group, root |-> c.root, direct |-> opts.direct,
   client_id |-> Held(snap).client_id]

Apply ==
  /\ pc = "apply"
  /\ \/ /\ tunnel' = PlanOf(choice)
        /\ pc' = IF session = "unopened" THEN "open" ELSE "loop"
        /\ UNCHANGED <<upd, faults>>
     \/ /\ Fault
        /\ \/ /\ session = "unopened" /\ Leave("ended")
           \/ /\ session # "unopened"
              /\ tunnel' = NoTunnel /\ pc' = "loop" /\ UNCHANGED upd
  /\ choice' = NoTunnel /\ snap' = Nothing
  /\ UNCHANGED <<options, generation, cancelled, line, want, session, console, cached, current, refreshes>>

\* openExistingSession and startWatching.  Without -console a session that does
\* not open is ignored.
OpenSession ==
  /\ pc = "open"
  /\ \/ /\ session' = "open"
        /\ upd' = IF watching THEN "waiting" ELSE upd
        /\ pc' = IF interactive THEN "loop" ELSE "waiting"
        /\ UNCHANGED <<tunnel, faults>>
     \/ /\ UNCHANGED faults \/ (~interactive /\ Fault)
        /\ session' = "none"
        /\ GoTo(IF interactive THEN "loop" ELSE "waiting")
     \/ /\ interactive
        /\ (cancelled /\ UNCHANGED faults) \/ Fault
        /\ Leave("ended")
        /\ UNCHANGED session
  /\ UNCHANGED <<options, generation, cancelled, locals, console, cached, current, refreshes>>

\* Without -console.
WaitForWatcher ==      \* faulty: waits for the watcher too, which may never have started
  /\ pc = "waiting" /\ cancelled /\ upd = "stopped"
  /\ Leave("ended")
  /\ UNCHANGED <<outside, locals, session, console, cached, current, refreshes>>

Wait ==
  /\ pc = "waiting" /\ cancelled
  /\ Leave("ended")
  /\ UNCHANGED <<outside, locals, session, console, cached, current, refreshes>>

-----------------------------------------------------------------------------
(* Console.Run: the context is looked at before each line is read, and     *)
(* never while the read blocks.                                            *)

Loop ==
  /\ pc = "loop"
  /\ IF cancelled THEN Leave("ended") ELSE GoTo("scan")
  /\ UNCHANGED <<outside, locals, session, console, cached, current, refreshes>>

Typed(names) == {l \in Inputs : l.name \in names}

\* quit, or the end of the input.
Quit ==
  /\ pc = "scan"
  /\ Leave("ended")
  /\ UNCHANGED <<outside, locals, session, console, cached, current, refreshes>>

\* How many exits or ingresses there are, and what the nth is called.
Count(g, l) == IF l.name = "exit" THEN Len(Held(g).hosts) ELSE Len(Held(g).entry_groups)
Nth(g, l)   == IF l.name = "exit" THEN Held(g).hosts[l.number].slug
                                  ELSE Held(g).entry_groups[l.number].name

\* cmdSetExit, cmdSetEntry: a number is looked up, in three readings of the
\* inventory, and the slug or name it stands for selected.
InRangeOrOneMore(l) == 1 <= l.number /\ l.number <= Count(inv, l) + 1      \* faulty

InRange(l) == 1 <= l.number /\ l.number <= Count(inv, l)

SetByNumber ==
  /\ pc = "scan"
  /\ \E l \in Typed({"exit", "entry"}) :
       /\ l.text = ""
       /\ line' = IF InRange(l) THEN l ELSE NoLine
       /\ GoTo(IF InRange(l) THEN "index" ELSE "loop")
  /\ UNCHANGED <<outside, snap, choice, want, session, console, cached, current, refreshes>>

Index ==
  /\ pc = "index"
  /\ IF line.number <= Count(inv, line)
       THEN want' = Nth(inv, line) /\ GoTo("select")
       ELSE UNCHANGED want /\ Leave("panicked")
  /\ UNCHANGED <<outside, snap, choice, line, session, console, cached, current, refreshes>>

SetByName ==
  /\ pc = "scan"
  /\ \E l \in Typed({"exit", "entry"}) :
       l.text # "" /\ line' = l /\ want' = l.text
  /\ GoTo("select")
  /\ UNCHANGED <<outside, snap, choice, session, console, cached, current, refreshes>>

Select ==
  /\ pc = "select"
  /\ \/ /\ line.name = "exit"
        /\ \/ /\ SelectHost(Held(inv), want) = {} /\ UNCHANGED opts
           \/ \E h \in SelectHost(Held(inv), want) : opts' = [opts EXCEPT !.host = h.slug]
     \/ /\ line.name = "entry"
        /\ \/ /\ SelectGroup(Held(inv), want) = {} /\ UNCHANGED opts
           \/ \E g \in SelectGroup(Held(inv), want) : opts' = [opts EXCEPT !.entry = g.name]
  /\ line' = NoLine /\ want' = ""
  /\ GoTo("loop")
  /\ UNCHANGED <<outside, snap, choice, session, inv, cached, current, refreshes>>

\* cmdDirect; udp and route are switched alike and read by nothing here.
Direct ==
  /\ pc = "scan" /\ Typed({"direct"}) # {}
  /\ opts' = [opts EXCEPT !.direct = ~@]
  /\ GoTo("loop")
  /\ UNCHANGED <<outside, locals, session, inv, cached, current, refreshes>>

\* cmdStart: the inventory is read once and kept for the whole of Start.
Start ==
  /\ pc = "scan" /\ Typed({"start"}) # {}
  /\ snap' = inv
  /\ GoTo("resolve")
  /\ UNCHANGED <<outside, choice, line, want, session, console, cached, current, refreshes>>

Stop ==
  /\ pc = "scan" /\ Typed({"stop"}) # {}
  /\ tunnel' = NoTunnel /\ pc' = "loop"
  /\ UNCHANGED <<outside, locals, session, console, cached, watcher, refreshes>>

\* cmdRefresh: the call, and what is done with its answer.  SetInventory leaves
\* the running tunnel alone.
Refresh ==
  /\ pc = "scan" /\ Typed({"refresh"}) # {}
  /\ IF session = "open" THEN Begin("console") /\ GoTo("refreshing")
                        ELSE GoTo("loop") /\ UNCHANGED call
  /\ UNCHANGED <<outside, locals, session, console, cached, current, nodesFile>>

Refreshed ==
  /\ pc = "refreshing"
  /\ \/ Returned("console", "done") /\ inv' = call["console"].inv
     \/ Returned("console", "failed") /\ UNCHANGED inv
  /\ Free("console")
  /\ GoTo("loop")
  /\ UNCHANGED <<outside, locals, session, opts, cached, current, nodesFile>>

-----------------------------------------------------------------------------
(* updater.Run                                                             *)

mainside == <<outside, pc, locals, session, tunnel, cached>>

\* A tick and an interrupt may be ready together; either is taken.
Tick ==
  /\ upd = "waiting"
  /\ upd' = "polling" /\ Begin("updater")
  /\ UNCHANGED <<mainside, console, current, nodesFile>>

Unwatch ==
  /\ upd = "waiting" /\ cancelled
  /\ upd' = "stopped"
  /\ UNCHANGED <<mainside, console, current, refreshes>>

PollFailed ==
  /\ upd = "polling" /\ Returned("updater", "failed")
  /\ upd' = IF cancelled THEN "stopped" ELSE "waiting"
  /\ Free("updater")
  /\ UNCHANGED <<mainside, console, current, nodesFile>>

\* Compare; OnUpdate follows when something changed and somebody listens.
Report(next) ==
  upd' = IF interactive /\ ~Empty(Compare(Held(current), Held(next)))
           THEN "installing" ELSE "waiting"

CompareKeepingFirst ==      \* faulty: every poll is compared with the first inventory
  /\ upd = "polling" /\ Returned("updater", "done")
  /\ Report(call["updater"].inv)
  /\ UNCHANGED <<mainside, console, current, refreshes>>

CompareWithLast ==
  /\ upd = "polling" /\ Returned("updater", "done")
  /\ current' = call["updater"].inv
  /\ Report(call["updater"].inv)
  /\ UNCHANGED <<mainside, console, refreshes>>

\* OnUpdate, which is the console's SetInventory.
OnUpdate ==
  /\ upd = "installing"
  /\ inv' = call["updater"].inv
  /\ upd' = "waiting"
  /\ UNCHANGED <<mainside, opts, current, refreshes>>

-----------------------------------------------------------------------------
Init ==
  /\ interactive \in Interactive /\ watching \in Watching
  /\ generation = 1 /\ cancelled = FALSE /\ faults = 0
  /\ pc = "resolve" /\ session = "unopened"
  /\ inv = Whole(1) /\ snap = Whole(1) /\ current = Whole(1) /\ nodesFile = Whole(1)
  /\ call = [r \in Refreshers |-> [step |-> "idle", inv |-> Nothing]]
  /\ choice = NoTunnel /\ line = NoLine /\ want = ""
  /\ opts = FirstOptions /\ tunnel = NoTunnel
  /\ cached \in {""} \cup Elements(Directory[1].root_domains)
  /\ upd = "never"

Typing == Quit \/ SetByNumber \/ SetByName \/ Direct \/ Start \/ Stop \/ Refresh

Main ==
  \/ Resolve \/ Probe \/ Apply \/ OpenSession \/ Wait \/ Loop
  \/ Index \/ Select \/ Refreshed \/ Refreshing("console")

Watch ==
  Tick \/ Unwatch \/ PollFailed \/ CompareWithLast \/ OnUpdate \/ Refreshing("updater")

Next == Publish \/ Interrupt \/ Main \/ Typing \/ Watch

Spec == Init /\ [][Next]_vars

\* Both goroutines run and the ticker ticks.  Nobody has to type anything, and
\* the process need not be interrupted.
FairSpec == Spec /\ WF_vars(Main) /\ WF_vars(Watch)

-----------------------------------------------------------------------------
(* Properties                                                              *)

\* Whatever the updater installs while the entry pool is probed, a running tunnel
\* is made of one inventory: its client id, exit and key and ingress belong to one
\* directory that was published, and its root to the one pool merged with it, which
\* may be an older one (console.go:298, supervisor.go:49-124, session.go:205-217).
OneInventory ==
  tunnel # NoTunnel =>
    \E i \in Inventories(generation) :
      /\ tunnel.client_id = Held(i).client_id
      /\ tunnel.host \in Elements(Held(i).hosts)
      /\ tunnel.group \in Elements(Held(i).entry_groups)
      /\ tunnel.root \in Elements(Held(i).root_domains)

\* "It must be safe to call concurrently with whatever else holds the inventory"
\* (updater.go:23-25): no command of the console indexes past the end of it.
ConsoleSurvives == pc # "panicked"

\* Without an updater, a number found in range is in range when it is used,
\* whatever the console's own refreshes bring (console.go:214-250).
ConsoleSurvivesAlone == ~watching => ConsoleSurvives

\* Of the set the console holds, Compare finds no exit and no ingress out of date
\* and, once nodes.json is written, no root that a sync would not bring back.  The
\* published roots it may lack: only a full directory has them (session.go:174-217).
CaughtUp ==
  LET changes == Compare(Held(inv), Held(Whole(generation))) IN
  /\ \A kind \in DOMAIN changes \ {"RootsAdded", "RootsRemoved"} : changes[kind] = {}
  /\ Loadable => Elements(Held(inv).root_domains) = Elements(Held(nodesFile).root_domains)

\* Once directories and faults have ceased, the console of a process that watches
\* and keeps running ends up with such a set, as long as nobody types refresh: an
\* answer to that, installed after the updater's newer one, stays, because the
\* updater compares with its own last inventory (updater.go:56-68).
ConsoleCatchesUp ==
  <>[](~interactive \/ Ended \/ cancelled \/ upd = "never" \/ CaughtUp)

\* An interrupt ends a process without a console, whatever main.run is doing when
\* it arrives and whether or not a watcher was started (main.go:332-338).
InterruptEndsServer == cancelled /\ ~interactive ~> Ended
=============================================================================
