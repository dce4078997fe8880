---------------------------- MODULE PanelProofs ----------------------------
(***************************************************************************)
(* Proofs about Panel, for any directories, options and commands.  The     *)
(* argument for OneInventory: every inventory a goroutine holds, or finds  *)
(* in nodes.json, is made of directories that have been published (Known), *)
(* and between the selections of a start and its Apply the main goroutine  *)
(* keeps both the inventory it selected from and what it selected          *)
(* (Chosen), whatever the updater does to the console's inventory or to    *)
(* nodes.json meanwhile.  The argument for                                 *)
(* ConsoleSurvives, without an updater: a number in range stays in range   *)
(* until it is used (Unwatched).                                           *)
(***************************************************************************)
EXTENDS Panel, TLAPS

\* Before it is merged the answer to a sync has a directory and no pool.
Answer(step) ==
  CASE step = "merge" -> [dir : 1..generation, pool : {0}]
    [] step \in {"store", "write", "done"} -> Inventories(generation)
    [] OTHER -> {Nothing}

CallSteps == {"idle", "sync", "merge", "bootstrap", "store", "write", "done", "failed"}

Known ==
  /\ generation \in 1..Newest
  /\ inv \in Inventories(generation)
  /\ pc \in {"resolve", "probe", "apply"} => snap \in Inventories(generation)
  /\ nodesFile \in Inventories(generation) \cup {Nothing, Torn}
  /\ call \in [Refreshers -> [step : CallSteps, inv : [dir : Nat, pool : Nat]]]
  /\ \A r \in Refreshers : call[r].inv \in Answer(call[r].step)
  /\ upd = "installing" => call["updater"].step = "done"

Chosen ==
  pc \in {"probe", "apply"} =>
    /\ choice.host \in Elements(Held(snap).hosts)
    /\ choice.group \in Elements(Held(snap).entry_groups)
    /\ choice.root \in Elements(Held(snap).root_domains)

IInv == Known /\ Chosen /\ OneInventory

-----------------------------------------------------------------------------
\* What is selected from an inventory is in it.
LEMMA SelectedIsThere ==
  ASSUME NEW i, NEW o, NEW c \in Choices(i, o)
  PROVE  /\ c.host \in Elements(i.hosts)
         /\ c.group \in Elements(i.entry_groups)
         /\ c.root \in Elements(i.root_domains)
<1>1. PICK h \in SelectHost(i, o.host), g \in SelectGroup(i, o.entry),
           r \in SelectRoot(i, Pinned, cached) : c = [host |-> h, group |-> g, root |-> r]
  BY DEF Choices
<1>2. h \in Elements(i.hosts)
  BY Zenon DEF SelectHost, Earliest, Elements
<1>3. g \in Elements(i.entry_groups)
  BY Zenon DEF SelectGroup, Earliest, Elements
<1>4. r \in Elements(i.root_domains)
  BY Zenon DEF SelectRoot
<1> QED BY <1>1, <1>2, <1>3, <1>4, Zenon

\* A process that starts holds the first directory and serves nothing.
LEMMA InitInv == ASSUME Init PROVE IInv
<1>1. Newest \in Nat /\ Newest > 0
  BY PanelAssumption DEF Newest
<1>2. /\ generation = 1 /\ inv = Whole(1) /\ snap = Whole(1) /\ nodesFile = Whole(1)
      /\ call = [r \in Refreshers |-> [step |-> "idle", inv |-> Nothing]]
      /\ upd = "never"
  BY Zenon DEF Init
<1>3. Known
  BY <1>1, <1>2 DEF Known, Answer, CallSteps, Whole, Inventories, Nothing
<1>4. Chosen /\ OneInventory
  BY DEF Init, Chosen, OneInventory
<1> QED BY <1>3, <1>4 DEF IInv

\* A step that neither starts a tunnel nor selects for one, and holds no number
\* that was not known, keeps the invariant.
LEMMA QuietStep ==
  ASSUME IInv, Known',
         tunnel' \in {tunnel, NoTunnel}, generation' >= generation,
         pc' \in {"probe", "apply"} =>
           pc \in {"probe", "apply"} /\ UNCHANGED <<choice, snap>>
  PROVE  IInv'
<1>1. Chosen'
  BY DEF IInv, Chosen, Held
<1>2. OneInventory'
  <2>1. CASE tunnel' = NoTunnel
    BY <2>1 DEF OneInventory
  <2>2. CASE tunnel' = tunnel /\ tunnel # NoTunnel
    <3>1. PICK i \in Inventories(generation) :
            /\ tunnel.client_id = Held(i).client_id
            /\ tunnel.host \in Elements(Held(i).hosts)
            /\ tunnel.group \in Elements(Held(i).entry_groups)
            /\ tunnel.root \in Elements(Held(i).root_domains)
      BY <2>2, Zenon DEF IInv, OneInventory
    <3>2. i \in Inventories(generation)'
      BY DEF IInv, Known, Inventories
    <3> QED BY <2>2, <3>1, <3>2, Zenon DEF OneInventory, Held
  <2> QED BY <2>1, <2>2
<1> QED BY <1>1, <1>2 DEF IInv

\* More directories published leave what is known known.
LEMMA KnownStays ==
  ASSUME Known, generation' = generation, UNCHANGED <<inv, nodesFile, call>>,
         pc' \in {"resolve", "probe", "apply"} =>
           pc \in {"resolve", "probe", "apply"} /\ UNCHANGED snap,
         upd' = "installing" => upd = "installing"
  PROVE  Known'
<1>1. \A r \in Refreshers : (call[r].inv \in Answer(call[r].step))'
  BY DEF Known, Answer
<1> QED BY <1>1 DEF Known, Inventories

\* Resolve selects from the inventory in hand.
LEMMA ResolveInv == ASSUME IInv, Resolve PROVE IInv'
<1>1. CASE Choices(Held(snap), opts) = {} /\ GiveUp
           /\ UNCHANGED <<choice, cached, faults>>
  <2>1. /\ pc = "resolve" /\ pc' \in {"ended", "loop"} /\ tunnel' \in {tunnel, NoTunnel}
        /\ upd' \in {upd, "ended"}
        /\ UNCHANGED <<generation, inv, nodesFile, call>>
    BY <1>1 DEF Resolve, GiveUp, Leave, GoTo, console, refreshes
  <2>2. Known' /\ generation' >= generation
    BY <2>1, KnownStays DEF IInv, Known
  <2> QED BY <2>1, <2>2, QuietStep
<1>2. ASSUME NEW c \in Choices(Held(snap), opts), choice' = c, GoTo("probe")
      PROVE  IInv'
  <2>0. /\ pc = "resolve" /\ pc' = "probe"
        /\ UNCHANGED <<tunnel, generation, snap, inv, nodesFile, call, upd>>
    BY <1>2 DEF Resolve, GoTo, GiveUp, console, refreshes
  <2>1. Known' /\ UNCHANGED <<tunnel, generation, snap>>
    BY <2>0, KnownStays DEF IInv
  <2>2. Chosen'
    BY <1>2, <2>1, SelectedIsThere, Zenon DEF Chosen, Held
  <2>3. OneInventory'
    BY <2>1, Zenon DEF IInv, OneInventory, Held
  <2> QED BY <2>1, <2>2, <2>3 DEF IInv
<1> QED BY <1>1, <1>2, Zenon DEF Resolve

\* Apply builds the tunnel from the inventory Resolve selected from.
LEMMA ApplyInv == ASSUME IInv, Apply PROVE IInv'
<1>. /\ pc = "apply" /\ pc' \in {"open", "loop", "ended"}
     /\ upd' \in {upd, "ended"}
     /\ UNCHANGED <<generation, inv, nodesFile, call>>
     /\ tunnel' = PlanOf(choice) \/ tunnel' = NoTunnel
  BY DEF Apply, Leave, console, refreshes
<1>0. Known'
  BY KnownStays DEF IInv
<1>1. Chosen'
  BY <1>0 DEF Chosen
<1>2. CASE tunnel' = PlanOf(choice)
  <2>1. /\ choice.host \in Elements(Held(snap).hosts)
        /\ choice.group \in Elements(Held(snap).entry_groups)
        /\ choice.root \in Elements(Held(snap).root_domains)
    BY <1>0 DEF IInv, Chosen
  <2>2. snap \in Inventories(generation)'
    BY DEF IInv, Known, Inventories
  <2>3. /\ tunnel'.client_id = Held(snap).client_id
        /\ tunnel'.host = choice.host /\ tunnel'.group = choice.group
        /\ tunnel'.root = choice.root
    BY <1>2 DEF PlanOf
  <2>4. OneInventory'
    BY <2>1, <2>2, <2>3, Zenon DEF OneInventory, Held
  <2> QED BY <1>0, <1>1, <2>4 DEF IInv
<1>3. CASE tunnel' = NoTunnel
  BY <1>0, <1>1, <1>3 DEF IInv, OneInventory
<1> QED BY <1>0, <1>2, <1>3

\* A directory published leaves what is known known.
LEMMA PublishKnown == ASSUME Known, Publish PROVE Known' /\ generation' >= generation
<1>1. /\ generation' = generation + 1 /\ generation' \in 1..Newest
      /\ UNCHANGED <<pc, inv, snap, upd, nodesFile, call>>
  BY PanelAssumption DEF Known, Newest, Publish, locals, console, watcher, refreshes
<1>2. generation \in Nat
  BY DEF Known, Newest
<1>3. ASSUME NEW i \in Inventories(generation) PROVE i \in Inventories(generation')
  BY <1>1, <1>2 DEF Inventories
<1>4. ASSUME NEW r \in Refreshers PROVE (call[r].inv \in Answer(call[r].step))'
  <2>1. call[r].inv \in Answer(call[r].step)
    BY DEF Known
  <2>2. CASE call[r].step = "merge"
    BY <1>1, <1>2, <2>1, <2>2 DEF Answer
  <2>3. CASE call[r].step \in {"store", "write", "done"}
    BY <1>1, <1>3, <2>1, <2>3 DEF Answer
  <2>4. CASE call[r].step \notin {"merge", "store", "write", "done"}
    BY <1>1, <2>1, <2>4 DEF Answer
  <2> QED BY <2>2, <2>3, <2>4
<1> QED BY <1>1, <1>2, <1>3, <1>4 DEF Known

\* A call that begins or is done with has obtained nothing.
LEMMA CallKnown ==
  ASSUME Known, NEW q \in Refreshers, NEW step \in {"sync", "idle", "bootstrap", "failed"},
         call' = [call EXCEPT ![q] = [step |-> step, inv |-> Nothing]],
         UNCHANGED generation, inv' \in Inventories(generation),
         nodesFile' \in Inventories(generation) \cup {Nothing, Torn},
         pc' \in {"resolve", "probe", "apply"} =>
           pc \in {"resolve", "probe", "apply"} /\ UNCHANGED snap,
         upd' = "installing" => upd = "installing" /\ q # "updater"
  PROVE  Known'
<1>1. Nothing \in [dir : Nat, pool : Nat] /\ step \in CallSteps
  BY DEF Nothing, CallSteps
<1>2. call' \in [Refreshers -> [step : CallSteps, inv : [dir : Nat, pool : Nat]]]
  BY <1>1 DEF Known
<1>3. ASSUME NEW r \in Refreshers PROVE (call[r].inv \in Answer(call[r].step))'
  <2>1. CASE r = q
    BY <2>1 DEF Known, Answer
  <2>2. CASE r # q
    BY <2>2 DEF Known, Answer, Inventories
  <2> QED BY <2>1, <2>2
<1>4. upd' = "installing" => call'["updater"].step = "done"
  BY DEF Known, Refreshers
<1> QED BY <1>2, <1>3, <1>4 DEF Known, Inventories

\* A call that has obtained an inventory, or part of one, has it from a directory
\* published and a pool stored.
LEMMA ObtainKnown ==
  ASSUME Known, NEW q \in Refreshers, NEW step \in CallSteps, NEW i,
         call' = [call EXCEPT ![q] = [step |-> step, inv |-> i]], i \in Answer(step),
         UNCHANGED <<generation, inv, pc, snap, upd>>,
         nodesFile' \in Inventories(generation) \cup {Nothing, Torn},
         call[q].step # "done"
  PROVE  Known'
<1>1. i \in [dir : Nat, pool : Nat]
  BY DEF Known, Newest, Answer, Inventories, Nothing
<1>2. call' \in [Refreshers -> [step : CallSteps, inv : [dir : Nat, pool : Nat]]]
  BY <1>1 DEF Known
<1>3. ASSUME NEW r \in Refreshers PROVE (call[r].inv \in Answer(call[r].step))'
  <2>1. CASE r = q
    BY <2>1 DEF Known, Answer, Inventories
  <2>2. CASE r # q
    BY <2>2 DEF Known, Answer, Inventories
  <2> QED BY <2>1, <2>2
<1>4. upd' = "installing" => call'["updater"].step = "done"
  BY DEF Known, Refreshers
<1> QED BY <1>2, <1>3, <1>4 DEF Known, Inventories

\* A Refresh brings together what was published and what was stored.
LEMMA RefreshingKnown ==
  ASSUME Known, NEW r \in Refreshers, Refreshing(r)
  PROVE  Known' /\ generation' >= generation
<1>0. /\ UNCHANGED <<generation, inv, pc, snap, upd>>
      /\ generation \in 1..Newest /\ generation \in Nat
  BY DEF Known, Newest, Refreshing, Sync, Merge, Bootstrap, OpenNodes, WriteNodes, elsewhere,
         console, locals, watcher
<1>1. /\ call[r] \in [step : CallSteps, inv : [dir : Nat, pool : Nat]]
      /\ call[r].inv \in Answer(call[r].step)
      /\ nodesFile \in Inventories(generation) \cup {Nothing, Torn}
  BY DEF Known
<1>2. Nothing \in Answer("bootstrap") /\ Nothing \in Answer("failed")
  BY DEF Answer
<1>9. CallSteps = {"idle", "sync", "merge", "bootstrap", "store", "write", "done", "failed"}
  BY DEF CallSteps
<1>10. generation' >= generation
  BY <1>0
<1>3. Whole(generation) \in Answer("store")
  BY <1>0 DEF Answer, Whole, Inventories
<1>4. CASE Sync(r)
  <2>1. [dir |-> generation, pool |-> 0] \in Answer("merge")
    BY <1>0 DEF Answer
  <2> QED BY <1>0, <1>1, <1>2, <1>4, <2>1, ObtainKnown DEF Sync, At, Obtain, CallSteps
<1>5. CASE Merge(r)
  <2>1. ASSUME Loadable PROVE [call[r].inv EXCEPT !.pool = nodesFile.pool] \in Answer("store")
    BY <1>1, <1>5, <2>1 DEF Merge, At, Loadable, Answer, Inventories
  <2> QED BY <1>0, <1>1, <1>2, <1>5, <2>1, ObtainKnown DEF Merge, At, Obtain, CallSteps
<1>6. CASE Bootstrap(r)
  BY <1>0, <1>1, <1>2, <1>3, <1>6, ObtainKnown DEF Bootstrap, At, Obtain, CallSteps
<1>7. CASE OpenNodes(r)
  <2>1. CASE Move(r, "write") /\ nodesFile' = Nothing
    <3>1. call' = [call EXCEPT ![r] = [step |-> "write", inv |-> call[r].inv]]
      BY <2>1 DEF Move, Obtain
    <3>2. call[r].inv \in Answer("write") /\ call[r].step # "done"
      BY <1>1, <1>7 DEF OpenNodes, At, Answer
    <3>3. nodesFile' \in Inventories(generation) \cup {Nothing, Torn} /\ "write" \in CallSteps
      BY <1>9, <2>1
    <3>4. Known'
      BY <1>0, <3>1, <3>2, <3>3, ObtainKnown, Zenon
    <3> QED BY <1>10, <3>4
  <2>2. CASE Obtain(r, Nothing, "failed") /\ UNCHANGED nodesFile
    <3>1. call[r].step # "done" /\ "failed" \in CallSteps
      BY <1>7, <1>9 DEF OpenNodes, At
    <3>2. nodesFile' \in Inventories(generation) \cup {Nothing, Torn}
      BY <1>1, <2>2
    <3>3. Known'
      BY <1>0, <1>2, <2>2, <3>1, <3>2, ObtainKnown, Zenon DEF Obtain
    <3> QED BY <1>10, <3>3
  <2> QED BY <1>7, <2>1, <2>2 DEF OpenNodes
<1>8. CASE WriteNodes(r)
  <2>0. call[r].step = "write" /\ call[r].inv \in Inventories(generation)
    BY <1>1, <1>8 DEF WriteNodes, At, Answer
  <2>1. CASE Move(r, "done") /\ nodesFile' \in {call[r].inv, Torn}
    <3>1. call' = [call EXCEPT ![r] = [step |-> "done", inv |-> call[r].inv]]
      BY <2>1 DEF Move, Obtain
    <3>2. call[r].inv \in Answer("done")
      BY <2>0 DEF Answer
    <3>3. /\ nodesFile' \in Inventories(generation) \cup {Nothing, Torn}
          /\ "done" \in CallSteps /\ call[r].step # "done"
      BY <1>9, <2>0, <2>1
    <3>4. Known'
      BY <1>0, <3>1, <3>2, <3>3, ObtainKnown, Zenon
    <3> QED BY <1>10, <3>4
  <2>2. CASE Obtain(r, Nothing, "failed") /\ nodesFile' \in {nodesFile, Torn}
    <3>1. /\ nodesFile' \in Inventories(generation) \cup {Nothing, Torn}
          /\ "failed" \in CallSteps /\ call[r].step # "done"
      BY <1>1, <1>9, <2>0, <2>2
    <3>2. Known'
      BY <1>0, <1>2, <2>2, <3>1, ObtainKnown, Zenon DEF Obtain
    <3> QED BY <1>10, <3>2
  <2> QED BY <1>8, <2>1, <2>2 DEF WriteNodes
<1> QED BY <1>0, <1>4, <1>5, <1>6, <1>7, <1>8 DEF Refreshing

\* Every other step is a quiet one.
LEMMA OtherInv ==
  ASSUME IInv,
         \/ Publish \/ Interrupt \/ Typing \/ Watch
         \/ Probe \/ OpenSession \/ Wait \/ Loop \/ Index \/ Select \/ Refreshed
         \/ Refreshing("console")
  PROVE  IInv'
<1>1. Known' /\ generation' >= generation
  <2>0. generation \in Nat /\ Known
    BY DEF IInv, Known, Newest
  <2>1. CASE Publish
    BY <2>1, PublishKnown DEF IInv
  <2>2. CASE Interrupt \/ Tick \/ Unwatch \/ PollFailed \/ CompareWithLast \/ OnUpdate
    <3>1. CASE Interrupt \/ Unwatch
      <4>1. /\ UNCHANGED <<generation, inv, pc, snap, nodesFile, call>>
            /\ upd' = "installing" => upd = "installing"
        BY <3>1 DEF Interrupt, Unwatch, locals, console, watcher, refreshes, mainside, outside
      <4> QED BY <2>0, <4>1, KnownStays
    <3>2. CASE Tick \/ PollFailed
      <4>1. PICK step \in {"sync", "idle"} :
              call' = [call EXCEPT !["updater"] = [step |-> step, inv |-> Nothing]]
        BY <3>2 DEF Tick, PollFailed, Begin, Free
      <4>2. /\ upd' # "installing"
            /\ UNCHANGED <<generation, inv, pc, snap, nodesFile>>
        BY <3>2 DEF Tick, PollFailed, mainside, outside, locals, console
      <4>3. "updater" \in Refreshers /\ step \in {"sync", "idle", "bootstrap", "failed"}
        BY DEF Refreshers
      <4>4. /\ inv' \in Inventories(generation)
            /\ nodesFile' \in Inventories(generation) \cup {Nothing, Torn}
        BY <2>0, <4>2 DEF Known
      <4>5. Known'
        BY <2>0, <4>1, <4>2, <4>3, <4>4, CallKnown, Zenon
      <4> QED BY <2>0, <4>2, <4>5
    <3>3. CASE CompareWithLast \/ OnUpdate
      <4>1. /\ call["updater"].step = "done"
            /\ inv' \in {inv, call["updater"].inv}
            /\ UNCHANGED <<generation, pc, snap, nodesFile, call>>
        BY <3>3, <2>0 DEF CompareWithLast, OnUpdate, Report, Returned, mainside, outside, locals, console,
                    refreshes, Known
      <4>2. inv' \in Inventories(generation)
        BY <2>0, <4>1 DEF Known, Answer, Refreshers
      <4>3. \A r \in Refreshers : (call[r].inv \in Answer(call[r].step))'
        BY <2>0, <4>1 DEF Known, Answer, Inventories
      <4> QED BY <2>0, <4>1, <4>2, <4>3 DEF Known, Inventories
    <3> QED BY <2>2, <3>1, <3>2, <3>3
  <2>3. CASE Typing
    <3>1. CASE Refresh
      <4>1. CASE UNCHANGED call
        BY <3>1, <2>0, <4>1, KnownStays DEF Refresh, GoTo, outside, locals, console
      <4>2. CASE Begin("console")
        <5>1. call' = [call EXCEPT !["console"] = [step |-> "sync", inv |-> Nothing]]
          BY <4>2 DEF Begin
        <5>2. /\ pc' \in {"refreshing", "loop"} /\ upd' = upd
              /\ UNCHANGED <<generation, inv, nodesFile>>
          BY <3>1 DEF Refresh, GoTo, outside, console
        <5>3. /\ inv' \in Inventories(generation)
              /\ nodesFile' \in Inventories(generation) \cup {Nothing, Torn}
              /\ pc' \notin {"resolve", "probe", "apply"}
          BY <2>0, <5>2 DEF Known
        <5>4. "console" \in Refreshers /\ "console" # "updater"
              /\ "sync" \in {"sync", "idle", "bootstrap", "failed"}
          BY DEF Refreshers
        <5>5. Known'
          BY <2>0, <5>1, <5>2, <5>3, <5>4, CallKnown, Zenon
        <5> QED BY <2>0, <5>2, <5>5
      <4> QED BY <3>1, <4>1, <4>2 DEF Refresh
    <3>2. CASE Start
      <4>1. \A r \in Refreshers : (call[r].inv \in Answer(call[r].step))'
        BY <2>0, <3>2 DEF Start, outside, console, refreshes, Known, Answer, Inventories
      <4> QED BY <2>0, <3>2, <4>1 DEF Start, GoTo, outside, console, refreshes, Known, Inventories
    <3>3. CASE Quit \/ SetByNumber \/ SetByName \/ Direct \/ Stop
      <4>1. /\ pc' \notin {"resolve", "probe", "apply"} /\ upd' \in {upd, "ended"}
            /\ UNCHANGED <<generation, inv, nodesFile, call>>
        BY <3>3 DEF Quit, SetByNumber, SetByName, Direct, Stop, GoTo, Leave, outside, console,
                    watcher, refreshes
      <4> QED BY <2>0, <4>1, KnownStays
    <3> QED BY <2>3, <3>1, <3>2, <3>3 DEF Typing
  <2>4. CASE Probe \/ OpenSession \/ Wait \/ Loop \/ Index \/ Select
    <3>1. /\ pc' \in {"resolve", "probe", "apply"} =>
               pc \in {"resolve", "probe", "apply"} /\ UNCHANGED snap
          /\ upd' \in {upd, "ended", "waiting"}
          /\ UNCHANGED <<generation, inv, nodesFile, call>>
      BY <2>4 DEF Probe, OpenSession, Wait, Loop, Index, Select, GiveUp, GoTo, Leave, outside,
                  console, refreshes
    <3> QED BY <2>0, <3>1, KnownStays
  <2>5. CASE Refreshed
    <3>1. /\ call' = [call EXCEPT !["console"] = [step |-> "idle", inv |-> Nothing]]
          /\ pc' = "loop"
          /\ inv' = inv \/ (call["console"].step = "done" /\ inv' = call["console"].inv)
          /\ UNCHANGED <<generation, upd, nodesFile>>
      BY <2>5 DEF Refreshed, Returned, Free, GoTo, outside
    <3>2. inv' \in Inventories(generation)
      BY <2>0, <3>1 DEF Known, Answer, Refreshers
    <3>3. /\ nodesFile' \in Inventories(generation) \cup {Nothing, Torn}
          /\ pc' \notin {"resolve", "probe", "apply"}
          /\ "console" \in Refreshers /\ "console" # "updater"
          /\ "idle" \in {"sync", "idle", "bootstrap", "failed"}
      BY <2>0, <3>1 DEF Known, Refreshers
    <3>4. Known'
      BY <2>0, <3>1, <3>2, <3>3, CallKnown, Zenon
    <3> QED BY <2>0, <3>1, <3>4
  <2>6. ASSUME NEW r \in Refreshers, Refreshing(r)
        PROVE  Known' /\ generation' >= generation
    BY <2>0, <2>6, RefreshingKnown
  <2> QED BY <2>1, <2>2, <2>3, <2>4, <2>5, <2>6 DEF Watch, Refreshers
<1>2. /\ tunnel' \in {tunnel, NoTunnel}
      /\ pc' \in {"probe", "apply"} =>
           pc \in {"probe", "apply"} /\ UNCHANGED <<choice, snap>>
  <2>1. CASE Publish \/ Interrupt \/ Watch
    BY <2>1 DEF Publish, Interrupt, Watch, Tick, Unwatch, PollFailed, CompareWithLast, OnUpdate,
                mainside, elsewhere, Refreshing, Sync, Merge, Bootstrap, OpenNodes, WriteNodes, locals
  <2>2. CASE Typing
    BY <2>2 DEF Typing, Quit, SetByNumber, SetByName, Direct, Start, Stop, Refresh, GoTo, Leave
  <2>3. CASE Probe \/ OpenSession \/ Wait \/ Loop \/ Index \/ Select \/ Refreshed
             \/ Refreshing("console")
    BY <2>3 DEF Probe, OpenSession, Wait, Loop, Index, Select, Refreshed, GiveUp, GoTo, Leave,
                locals, elsewhere, Refreshing, Sync, Merge, Bootstrap, OpenNodes, WriteNodes
  <2> QED BY <2>1, <2>2, <2>3
<1> QED BY <1>1, <1>2, QuietStep

\* Every step of the process keeps the invariant.
LEMMA NextInv == ASSUME IInv, [Next]_vars PROVE IInv'
<1>1. CASE UNCHANGED vars
  <2>1. UNCHANGED <<generation, tunnel, pc, choice, snap, inv, upd, nodesFile, call>>
    BY <1>1 DEF vars, locals, console, watcher, refreshes
  <2>2. Known' /\ generation' >= generation
    BY <2>1, KnownStays DEF IInv, Known, Newest
  <2> QED BY <2>1, <2>2, QuietStep
<1> QED BY <1>1, ResolveInv, ApplyInv, OtherInv DEF Next, Main

\* A running tunnel is made of one inventory, whatever is published and installed
\* while the entry pool is probed.
THEOREM TunnelFromOneInventory == Spec => []OneInventory
<1>1. IInv => OneInventory
  BY DEF IInv
<1> QED BY <1>1, InitInv, NextInv, PTL DEF Spec

-----------------------------------------------------------------------------
(* Without an updater nothing comes between the console's readings of its  *)
(* inventory, so a number found in range is in range when it is used.      *)

Unwatched ==
  /\ ~watching
  /\ upd \in {"never", "ended"} /\ call["updater"].step = "idle"
  /\ pc = "index" => line.number <= Count(inv, line)
  /\ ConsoleSurvives

\* Nothing changes the options.
LEMMA OptionsStay == ASSUME [Next]_vars PROVE UNCHANGED options
<1>1. CASE UNCHANGED vars
  BY <1>1 DEF vars
<1>2. CASE Publish \/ Interrupt \/ Watch
  BY <1>2 DEF Publish, Interrupt, Watch, Tick, Unwatch, PollFailed, CompareWithLast, OnUpdate, mainside,
              outside, elsewhere, Refreshing, Sync, Merge, Bootstrap, OpenNodes, WriteNodes
<1>3. CASE Typing
  BY <1>3 DEF Typing, Quit, SetByNumber, SetByName, Direct, Start, Stop, Refresh, outside
<1>4. CASE Main
  BY <1>4 DEF Main, Resolve, Probe, Apply, OpenSession, Wait, Loop, Index, Select, Refreshed,
              outside, elsewhere, Refreshing, Sync, Merge, Bootstrap, OpenNodes, WriteNodes
<1> QED BY <1>1, <1>2, <1>3, <1>4 DEF Next

\* The updater does not start by itself, and Index follows SetByNumber at once.
LEMMA UnwatchedStep ==
  ASSUME Known, Unwatched, [Next]_vars
  PROVE  Unwatched'
<1>0. ~watching'
  BY OptionsStay DEF Unwatched, options
<1>1. CASE UNCHANGED vars
  BY <1>0, <1>1 DEF vars, locals, console, watcher, refreshes, Unwatched, ConsoleSurvives, Count, Held
<1>2. CASE Publish \/ Interrupt
  BY <1>0, <1>2
  DEF Publish, Interrupt, locals, console, watcher, refreshes, Unwatched, ConsoleSurvives, Count, Held
<1>3. CASE Main
  <2>1. CASE Index
    BY <1>0, <2>1 DEF Index, GoTo, Leave, refreshes, Unwatched, ConsoleSurvives
  <2>2. CASE OpenSession
    BY <1>0, <2>2 DEF OpenSession, GoTo, Leave, refreshes, Unwatched, ConsoleSurvives
  <2>3. CASE Resolve \/ Probe \/ Apply \/ Wait \/ Loop \/ Select \/ Refreshed
    <3>1. pc' \in {"probe", "apply", "loop", "open", "scan", "ended"}
      BY <2>3 DEF Resolve, Probe, Apply, Wait, Loop, Select, Refreshed, GiveUp, GoTo, Leave
    <3>2. upd' \in {upd, "ended"}
      BY <2>3 DEF Resolve, Probe, Apply, Wait, Loop, Select, Refreshed, GiveUp, GoTo, Leave
    <3>3. call'["updater"] = call["updater"]
      BY <2>3 DEF Resolve, Probe, Apply, Wait, Loop, Select, Refreshed, Free, Known, Refreshers,
                  refreshes
    <3> QED BY <1>0, <3>1, <3>2, <3>3 DEF Unwatched, ConsoleSurvives
  <2>4. CASE Refreshing("console")
    <3>1. UNCHANGED <<pc, upd, line, inv>>
      BY <2>4 DEF Refreshing, Sync, Merge, Bootstrap, OpenNodes, WriteNodes, elsewhere, locals,
                  console, watcher
    <3>2. call'["updater"] = call["updater"]
      BY <2>4 DEF Refreshing, Sync, Merge, Bootstrap, OpenNodes, WriteNodes, Obtain, Move, Known,
                  Refreshers
    <3> QED BY <1>0, <3>1, <3>2 DEF Unwatched, ConsoleSurvives, Count, Held
  <2> QED BY <1>3, <2>1, <2>2, <2>3, <2>4 DEF Main
<1>4. CASE Typing
  <2>1. CASE SetByNumber
    <3>1. PICK l \in Typed({"exit", "entry"}) :
            /\ line' = IF InRange(l) THEN l ELSE NoLine
            /\ GoTo(IF InRange(l) THEN "index" ELSE "loop")
      BY <2>1, Zenon DEF SetByNumber
    <3>2. UNCHANGED <<console, call>>
      BY <2>1 DEF SetByNumber, refreshes
    <3>3. Count(inv, l)' = Count(inv, l)
      BY <3>2 DEF console, Count, Held
    <3> QED BY <1>0, <3>1, <3>2, <3>3 DEF InRange, GoTo, console, Unwatched, ConsoleSurvives, Count, Held
  <2>2. CASE Quit \/ SetByName \/ Direct \/ Start \/ Stop \/ Refresh
    <3>1. /\ pc' \notin {"index", "panicked"} /\ upd' \in {upd, "ended"}
          /\ call'["updater"] = call["updater"]
      BY <2>2 DEF Quit, SetByName, Direct, Start, Stop, Refresh, Begin, GoTo, Leave, watcher,
                  refreshes, Known, Refreshers
    <3> QED BY <1>0, <3>1 DEF Unwatched, ConsoleSurvives
  <2> QED BY <1>4, <2>1, <2>2 DEF Typing
<1>5. CASE Watch
  BY <1>0, <1>5
  DEF Watch, Tick, Unwatch, PollFailed, CompareWithLast, OnUpdate, Refreshing, Sync, Merge, Bootstrap,
      OpenNodes, WriteNodes, At, Returned, Unwatched
<1> QED BY <1>1, <1>2, <1>3, <1>4, <1>5 DEF Next

\* The console of a process that has no updater never indexes past the end of its
\* inventory, whatever is typed and whatever its own refreshes bring.
THEOREM ConsoleAloneSurvives == Spec => []ConsoleSurvivesAlone
<1>1. Init => watching \/ Unwatched
  <2>1. ASSUME Init PROVE upd = "never" /\ pc = "resolve" /\ call["updater"].step = "idle"
    BY <2>1 DEF Init, Refreshers
  <2> QED BY <2>1 DEF Init, Unwatched, ConsoleSurvives
<1>2. watching /\ [Next]_vars => watching'
  BY OptionsStay DEF options
<1>3. IInv /\ Unwatched /\ [Next]_vars => Unwatched'
  BY UnwatchedStep DEF IInv
<1>4. watching \/ Unwatched => ConsoleSurvivesAlone
  BY DEF Unwatched, ConsoleSurvivesAlone
<1> QED BY <1>1, <1>2, <1>3, <1>4, InitInv, NextInv, PTL DEF Spec
=============================================================================
