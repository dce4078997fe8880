---------------------------- MODULE LaunchProofs ----------------------------
(***************************************************************************)
(* What Launch promises of a working setup, for any places, directories,   *)
(* accounts and number of commands.                                        *)
(***************************************************************************)
EXTENDS Launch, TLAPS

\* The paths a command fixed when it started are those it would find now: what it
\* has written since has moved none of them.
PathsStand ==
  cmd.step # "done" /\ cmd.dir = "home" =>
    \A f \in Files : cmd.paths[f] = IF f \in cmd.given THEN In("given", f) ELSE Adopt(cmd.at, f)

\* What exchanges, stores and saves an identity does so as some account.
SignedSteps == {"exchange", "store", "clear", "watching"}
SignedIn == cmd.step \in SignedSteps => cmd.account \in Accounts

IInv == TypeOK /\ PathsStand /\ SignedIn

\* A file written where a place finds it is found there still, and so are the
\* others (withLegacy).
LEMMA WritingMovesNothing ==
  ASSUME NEW w \in Places, NEW f \in Files, NEW content, content # "none",
         disk \in [Paths -> Contents],
         disk' = [disk EXCEPT ![Adopt(w, f)] = content],
         NEW g \in Files
  PROVE  Adopt(w, g)' = Adopt(w, g)
<1>1. In(Home, g) \in Paths /\ Legacy(w, g) \in Paths /\ In(Home, f) \in Paths /\ Legacy(w, f) \in Paths
  BY DEF In, Legacy, Paths, Files
<1>2. Adopt(w, f) \in {In(Home, f), Legacy(w, f)} /\ Adopt(w, g) \in {In(Home, g), Legacy(w, g)}
  BY DEF Adopt
<1>3. CASE f = g
  BY <1>1, <1>2, <1>3 DEF Adopt, Exists
<1>4. CASE f # g
  <2>1. Adopt(w, f) # In(Home, g) /\ Adopt(w, f) # Legacy(w, g)
    BY <1>2, <1>4 DEF In, Legacy
  <2>2. disk'[In(Home, g)] = disk[In(Home, g)] /\ disk'[Legacy(w, g)] = disk[Legacy(w, g)]
    BY <1>1, <2>1
  <2> QED
    BY <2>2 DEF Adopt, Exists
<1> QED
  BY <1>3, <1>4

\* A file written elsewhere, by a flag of its own, moves nothing either.
LEMMA WritingElsewhere ==
  ASSUME NEW w \in Places, NEW f \in Files, NEW content,
         disk \in [Paths -> Contents],
         disk' = [disk EXCEPT ![In("given", f)] = content],
         NEW g \in Files
  PROVE  Adopt(w, g)' = Adopt(w, g)
<1>1. In(Home, g) \in Paths /\ Legacy(w, g) \in Paths
  BY DEF In, Legacy, Paths, Files
<1>2. In("given", f) # In(Home, g) /\ In("given", f) # Legacy(w, g)
  BY LaunchAssumption DEF In, Legacy
<1>3. disk'[In(Home, g)] = disk[In(Home, g)] /\ disk'[Legacy(w, g)] = disk[Legacy(w, g)]
  BY <1>1, <1>2
<1> QED
  BY <1>3 DEF Adopt, Exists

-----------------------------------------------------------------------------
(* What a step of a running command does to the disk and to the command.   *)

Starts ==
  \E at \in Places, dir \in Defaults \cup Explicit, given \in GivenFiles, job \in Jobs :
    Start(at, dir, given, job)

\* A session is opened as the account in the identity file, or as one made because
\* there was no such file.
Goes ==
  \/ cmd' = NoCommand
  \/ \E s \in Steps, p \in BOOLEAN, a \in Accounts \cup {"none"} :
       /\ cmd' = [cmd EXCEPT !.step = s, !.pinning = p, !.account = a]
       /\ s \in SignedSteps => a \in Accounts
       /\ a = cmd.account \/ a = Holds("identity") \/ Holds("identity") = "none"

Writes(f, content) ==
  /\ disk' = [disk EXCEPT ![cmd.paths[f]] = content]
  /\ content \in Contents \ {"none"}
  /\ f = "identity" => content \in {"torn", cmd.account} \/ Holds(f) = "none"
  /\ f = "nodes" => content \in {"torn", cmd.account, Holds("nodes")}

LEMMA ATypeFact ==
  ASSUME TypeOK, NEW f \in Files
  PROVE  cmd.paths[f] \in Paths /\ Holds(f) \in Contents
BY DEF TypeOK, Holds

LEMMA GoToGoes ==
  ASSUME TypeOK, NEW s \in Steps, GoTo(s), s \in SignedSteps => cmd.account \in Accounts
  PROVE  Goes
<1>1. CASE s = "done"
  BY <1>1 DEF GoTo, Goes
<1>2. CASE s # "done"
  <2>1. cmd' = [cmd EXCEPT !.step = s, !.pinning = cmd.pinning, !.account = cmd.account]
    BY <1>2 DEF GoTo, TypeOK
  <2> QED
    BY <2>1 DEF Goes, TypeOK
<1> QED
  BY <1>1, <1>2

LEMMA SignInGoes ==
  ASSUME TypeOK, NEW s \in Steps, NEW a \in Accounts, SignIn(a, s),
         a = Holds("identity") \/ Holds("identity") = "none"
  PROVE  Goes
<1>1. cmd' = [cmd EXCEPT !.step = s, !.pinning = cmd.pinning, !.account = a]
  BY DEF SignIn, TypeOK
<1> QED
  BY <1>1 DEF Goes, TypeOK

LEMMA StepShape ==
  ASSUME TypeOK, SignedIn, Next, ~Starts
  PROVE  /\ cmd.step # "done" /\ Goes /\ UNCHANGED commands
         /\ disk' = disk \/ \E f \in Files, content \in Contents : Writes(f, content)
<1> USE DEF Steps
<1>a. "torn" \in Contents /\ "whole" \in Contents /\ Accounts \subseteq Contents
  BY DEF Contents
<1>b. \A f \in Files : Holds(f) \in Contents
  BY ATypeFact
<1>c. "none" \notin Accounts
  BY LaunchAssumption
<1>d. After \in Steps
  BY DEF After
<1>e. cmd.step \in {"exchange", "store", "clear", "watching"} => cmd.account \in Accounts
  BY DEF SignedIn, SignedSteps
<1>f. \A s \in Steps : GoTo(s) /\ s \notin {"exchange", "store", "clear", "watching"} => Goes
  BY GoToGoes DEF SignedSteps
<1>g. \A s \in Steps : GoTo(s) /\ cmd.account \in Accounts => Goes
  BY GoToGoes
<1>1. CASE FetchRules
  <2>1. Goes
    BY <1>1, <1>f DEF FetchRules
  <2>2. PICK after \in {"whole", Holds("assets")} \cup IF Holds("assets") = "none" THEN {"torn"} ELSE {} :
          disk' = [disk EXCEPT ![cmd.paths["assets"]] = after]
    BY <1>1 DEF FetchRules
  <2>3. CASE after = Holds("assets")
    BY <1>1, <2>1, <2>2, <2>3 DEF FetchRules, Holds, TypeOK
  <2>4. CASE after # Holds("assets")
    <3>1. after \in {"whole", "torn"}
      BY <2>2, <2>4
    <3>2. Writes("assets", after)
      BY <1>a, <2>2, <3>1 DEF Writes
    <3> QED
      BY <1>1, <1>a, <2>1, <3>1, <3>2 DEF FetchRules, Files
  <2> QED
    BY <2>3, <2>4
<1>2. CASE ApplyRouting
  BY <1>2, <1>f DEF ApplyRouting
<1>3. CASE BuildHardening
  <2>1. cmd' = NoCommand \/ \E s \in {"open", "load"}, p \in BOOLEAN :
          cmd' = [cmd EXCEPT !.step = s, !.pinning = p]
    BY <1>3 DEF BuildHardening
  <2>2. ASSUME NEW s \in {"open", "load"}, NEW p \in BOOLEAN,
               cmd' = [cmd EXCEPT !.step = s, !.pinning = p]
        PROVE  Goes
    <3>1. cmd' = [cmd EXCEPT !.step = s, !.pinning = p, !.account = cmd.account]
      BY <2>2 DEF TypeOK
    <3> QED
      BY <3>1 DEF Goes, SignedSteps, TypeOK
  <2>3. Goes
    BY <2>1, <2>2 DEF Goes
  <2> QED
    BY <1>3, <2>3 DEF BuildHardening
<1>4. CASE OpenSession
  <2>1. CASE Holds("identity") = "none" /\ \E a \in Accounts : Put("identity", a) /\ SignIn(a, "exchange")
    <3>1. PICK a \in Accounts : Put("identity", a) /\ SignIn(a, "exchange")
      BY <2>1
    <3>2. Goes
      BY <2>1, <3>1, SignInGoes
    <3>3. Writes("identity", a)
      BY <1>a, <1>c, <2>1, <3>1 DEF Put, Writes
    <3> QED
      BY <1>4, <1>a, <3>2, <3>3 DEF OpenSession, Files
  <2>2. CASE Put("identity", "torn") /\ GoTo("done")
    <3>1. Writes("identity", "torn")
      BY <1>a, <2>2 DEF Put, Writes
    <3> QED
      BY <1>4, <1>a, <1>f, <2>2, <3>1 DEF OpenSession, Files
  <2>3. CASE Holds("identity") \in Accounts /\ UNCHANGED disk /\ SignIn(Holds("identity"), "exchange")
    BY <1>4, <2>3, SignInGoes DEF OpenSession
  <2>4. CASE UNCHANGED disk /\ GoTo("done")
    BY <1>4, <1>f, <2>4 DEF OpenSession
  <2> QED
    BY <1>4, <2>1, <2>2, <2>3, <2>4 DEF OpenSession
<1>5. CASE Exchange
  <2>0. cmd.account \in Accounts
    BY <1>5, <1>e DEF Exchange
  <2>1. CASE Write("pins", "whole", "store", "exchange")
    <3>1. Goes
      BY <1>g, <2>0, <2>1 DEF Write
    <3>2. Writes("pins", "whole") \/ Writes("pins", "torn")
      BY <1>a, <2>1 DEF Write, Put, Writes
    <3> QED
      BY <1>5, <1>a, <3>1, <3>2 DEF Exchange, Files
  <2>2. CASE UNCHANGED disk /\ (GoTo("store") \/ GoTo(After))
    BY <1>5, <1>d, <1>g, <2>0, <2>2 DEF Exchange
  <2> QED
    BY <1>5, <2>1, <2>2 DEF Exchange
<1>12. CASE SaveTicket
  <2>0. cmd.account \in Accounts
    BY <1>12, <1>e DEF SaveTicket
  <2>1. Goes
    BY <1>12, <1>d, <1>g, <2>0 DEF SaveTicket
  <2>2. disk' = disk \/ \E c \in {cmd.account, "torn"} : Writes("identity", c)
    BY <1>12, <1>a, <1>c, <2>0 DEF SaveTicket, Put, Writes
  <2> QED
    BY <1>12, <1>a, <2>0, <2>1, <2>2 DEF SaveTicket, Files
<1>6. CASE Store
  <2>0. cmd.account \in Accounts
    BY <1>6, <1>e DEF Store
  <2>1. PICK next \in {After, "clear"}, failed \in {After, "exchange"} :
          \/ Write("nodes", cmd.account, next, failed)
          \/ Holds("nodes") \in Accounts /\ Write("nodes", Holds("nodes"), next, failed)
          \/ UNCHANGED disk /\ GoTo(failed)
    BY <1>6 DEF Store
  <2>2. Goes
    BY <1>d, <1>g, <2>0, <2>1 DEF Write
  <2>3. disk' = disk \/ \E c \in {cmd.account, Holds("nodes"), "torn"} : Writes("nodes", c)
    BY <1>a, <1>c, <2>0, <2>1 DEF Write, Put, Writes
  <2> QED
    BY <1>6, <1>a, <1>b, <2>0, <2>2, <2>3 DEF Store, Files
<1>7. CASE LoadInventory
  BY <1>7, <1>f DEF LoadInventory
<1>8. CASE Plan
  <2>1. Goes
    BY <1>8, <1>f DEF Plan
  <2>2. CASE disk' = disk
    BY <1>8, <2>1, <2>2 DEF Plan
  <2>3. CASE \E c \in {"whole", "torn"} : disk' = [disk EXCEPT ![cmd.paths["state"]] = c]
    <3>1. PICK c \in {"whole", "torn"} : disk' = [disk EXCEPT ![cmd.paths["state"]] = c]
      BY <2>3
    <3>2. Writes("state", c)
      BY <1>a, <3>1 DEF Writes
    <3> QED
      BY <1>8, <1>a, <2>1, <3>1, <3>2 DEF Plan, Files
  <2> QED
    BY <1>8, <2>2, <2>3 DEF Plan
<1>9. CASE OpenExistingSession
  <2>1. CASE Holds("identity") \in Accounts /\ SignIn(Holds("identity"), "watching")
    BY <1>9, <2>1, SignInGoes DEF OpenExistingSession
  <2>2. CASE GoTo("serving") \/ GoTo("done")
    BY <1>9, <1>f, <2>2 DEF OpenExistingSession
  <2> QED
    BY <1>9, <2>1, <2>2 DEF OpenExistingSession
<1>10. CASE RefreshWhileServing
  BY <1>10, <1>e, <1>g DEF RefreshWhileServing
<1>11. CASE End
  BY <1>11, <1>f DEF End
<1> QED
  BY <1>1, <1>2, <1>3, <1>4, <1>5, <1>6, <1>7, <1>8, <1>9, <1>10, <1>11, <1>12 DEF Next, Starts

-----------------------------------------------------------------------------
(* The invariant                                                           *)

LEMMA PathsTyped ==
  ASSUME NEW at \in Places, NEW dir \in Defaults \cup Explicit, NEW given
  PROVE  ApplyPaths(at, dir, given) \in [Files -> Paths]
BY DEF ApplyPaths, Resolve, Adopt, Legacy, In, Paths, Defaults, Files

Commands == [step : Steps, job : Jobs, at : Places, dir : Defaults \cup Explicit,
             given : SUBSET Files, pinning : BOOLEAN, account : Accounts \cup {"none"},
             paths : [Files -> Paths]]

LEMMA NoCommandTyped == NoCommand \in Commands /\ NoCommand.step = "done"
<1>1. {} \in SUBSET Files /\ "done" \in Steps /\ "dump" \in Jobs /\ FALSE \in BOOLEAN
      /\ "home" \in Defaults \cup Explicit
  BY DEF Steps, Jobs, Defaults
<1>2. [f \in Files |-> In(Home, f)] \in [Files -> Paths]
  BY DEF In, Paths
<1>3. (CHOOSE w \in Places : TRUE) \in Places
  BY LaunchAssumption
<1> QED
  BY <1>1, <1>2, <1>3 DEF NoCommand, Commands

LEMMA GoesTyped ==
  ASSUME cmd \in Commands, Goes
  PROVE  cmd' \in Commands
<1>1. CASE cmd' = NoCommand
  BY <1>1, NoCommandTyped
<1>2. CASE \E s \in Steps, p \in BOOLEAN, a \in Accounts \cup {"none"} :
             cmd' = [cmd EXCEPT !.step = s, !.pinning = p, !.account = a]
  BY <1>2 DEF Commands
<1> QED
  BY <1>1, <1>2 DEF Goes

LEMMA InitHolds == Init => IInv
<1> SUFFICES ASSUME Init PROVE IInv
  OBVIOUS
<1>1. disk \in [Paths -> Contents]
  BY DEF Init, Contents
<1>2. commands \in 0..MaxCommands
  BY LaunchAssumption DEF Init
<1>3. PathsStand /\ SignedIn
  BY NoCommandTyped DEF Init, PathsStand, SignedIn, SignedSteps
<1> QED
  BY <1>1, <1>2, <1>3, NoCommandTyped DEF IInv, TypeOK, Commands, Init

\* What a running default command writes moves nothing in the place it runs from.
LEMMA WritesMoveNothing ==
  ASSUME IInv, cmd.step # "done", cmd.dir = "home", NEW w \in Places, cmd.at = w,
         disk' = disk \/ \E f \in Files, content \in Contents : Writes(f, content),
         NEW g \in Files
  PROVE  Adopt(w, g)' = Adopt(w, g)
<1>1. disk \in [Paths -> Contents]
  BY DEF IInv, TypeOK
<1>2. CASE disk' = disk
  BY <1>2 DEF Adopt, Exists
<1>3. CASE \E f \in Files, content \in Contents : Writes(f, content)
  <2>1. PICK f \in Files, content \in Contents : Writes(f, content)
    BY <1>3
  <2>2. disk' = [disk EXCEPT ![cmd.paths[f]] = content] /\ content # "none"
    BY <2>1 DEF Writes
  <2>3. cmd.paths[f] = In("given", f) \/ cmd.paths[f] = Adopt(w, f)
    BY DEF IInv, PathsStand
  <2>4. CASE cmd.paths[f] = In("given", f)
    BY <1>1, <2>2, <2>4, WritingElsewhere
  <2>5. CASE cmd.paths[f] = Adopt(w, f)
    BY <1>1, <2>2, <2>5, WritingMovesNothing
  <2> QED
    BY <2>3, <2>4, <2>5
<1> QED
  BY <1>2, <1>3

LEMMA StepHolds == IInv /\ [Next]_vars => IInv'
<1> SUFFICES ASSUME IInv, [Next]_vars PROVE IInv'
  OBVIOUS
<1> USE DEF IInv
<1>1. CASE UNCHANGED vars
  <2>1. TypeOK'
    BY <1>1 DEF vars, TypeOK
  <2>2. PathsStand'
    BY <1>1 DEF vars, PathsStand, Adopt, Exists
  <2>3. SignedIn'
    BY <1>1 DEF vars, SignedIn
  <2> QED
    BY <2>1, <2>2, <2>3
<1>2. CASE Starts
  <2>1. PICK at \in Places, dir \in Defaults \cup Explicit, given \in GivenFiles, job \in Jobs :
          Start(at, dir, given, job)
    BY <1>2 DEF Starts
  <2>2. disk' = disk /\ commands' \in 0..MaxCommands
    BY <2>1, LaunchAssumption DEF Start, EnsureDir, TypeOK
  <2>3. cmd' = [step |-> IF job = "fetch" THEN "fetch" ELSE "route", job |-> job, at |-> at,
                dir |-> dir, given |-> given, pinning |-> FALSE, account |-> "none",
                paths |-> ApplyPaths(at, dir, given)]
    BY <2>1 DEF Start
  <2>4. cmd' \in Commands
    <3>1. given \in SUBSET Files
      BY LaunchAssumption DEF Files
    <3>2. (IF job = "fetch" THEN "fetch" ELSE "route") \in Steps
      BY DEF Steps
    <3>3. ApplyPaths(at, dir, given) \in [Files -> Paths]
      BY PathsTyped
    <3> QED
      BY <2>3, <3>1, <3>2, <3>3 DEF Commands
  <2>5. PathsStand'
    <3>1. ASSUME dir = "home", NEW f \in Files
          PROVE  ApplyPaths(at, dir, given)[f] = IF f \in given THEN In("given", f) ELSE Adopt(at, f)
      BY <3>1 DEF ApplyPaths, Resolve
    <3>2. \A f \in Files : Adopt(at, f)' = Adopt(at, f)
      BY <2>2 DEF Adopt, Exists
    <3> QED
      BY <2>3, <3>1, <3>2 DEF PathsStand
  <2>6. SignedIn'
    BY <2>3 DEF SignedIn, SignedSteps
  <2> QED
    BY <2>2, <2>4, <2>5, <2>6 DEF TypeOK, Commands
<1>3. CASE Next /\ ~Starts
  <2>1. /\ cmd.step # "done" /\ Goes /\ UNCHANGED commands
        /\ disk' = disk \/ \E f \in Files, content \in Contents : Writes(f, content)
    BY <1>3, StepShape
  <2>2. disk' \in [Paths -> Contents]
    BY <2>1, ATypeFact DEF Writes, TypeOK
  <2>3. cmd' \in Commands
    BY <2>1, GoesTyped DEF TypeOK, Commands
  <2>4. PathsStand'
    <3>1. CASE cmd' = NoCommand
      BY <3>1, NoCommandTyped DEF PathsStand
    <3>2. CASE \E s \in Steps, p \in BOOLEAN, a \in Accounts \cup {"none"} :
                 cmd' = [cmd EXCEPT !.step = s, !.pinning = p, !.account = a]
      <4>1. /\ cmd'.at = cmd.at /\ cmd'.dir = cmd.dir /\ cmd'.given = cmd.given
            /\ cmd'.paths = cmd.paths
        BY <3>2 DEF TypeOK
      <4>2. PICK w \in Places : w = cmd.at
        BY DEF TypeOK
      <4>3. cmd.dir = "home" => \A f \in Files : Adopt(w, f)' = Adopt(w, f)
        BY <2>1, <4>2, WritesMoveNothing
      <4> QED
        BY <2>1, <4>1, <4>2, <4>3 DEF PathsStand
    <3> QED
      BY <2>1, <3>1, <3>2 DEF Goes
  <2>5. SignedIn'
    BY <2>1, NoCommandTyped DEF Goes, SignedIn, SignedSteps, TypeOK
  <2> QED
    BY <2>1, <2>2, <2>3, <2>4, <2>5 DEF TypeOK, Commands
<1> QED
  BY <1>1, <1>2, <1>3

\* TypeOK holds of every behaviour, and with it that the paths fixed at the start of
\* a command are the ones to be found there at its end.
THEOREM Invariance == Spec => []IInv
<1> QED
  BY InitHolds, StepHolds, PTL DEF Spec

-----------------------------------------------------------------------------
(* The properties                                                          *)

\* A default command leaves a place that works as one account working as that one.
LEMMA StepKeepsPaired ==
  ASSUME IInv, cmd.step # "done", cmd.dir = "home", cmd.given = {},
         NEW w \in Places, cmd.at = w, Goes,
         disk' = disk \/ \E f \in Files, content \in Contents : Writes(f, content),
         Paired(w)
  PROVE  Paired(w)'
<1> DEFINE I == Adopt(w, "identity")
           N == Adopt(w, "nodes")
<1>1. I' = I /\ N' = N
  BY WritesMoveNothing DEF Files
<1>2. I # N /\ I \in Paths /\ N \in Paths
  BY DEF Adopt, In, Legacy, Paths, Files
<1>3. disk \in [Paths -> Contents]
  BY DEF IInv, TypeOK
<1>4. \A f \in Files : cmd.paths[f] = Adopt(w, f)
  BY DEF IInv, PathsStand
<1> HIDE DEF I, N
<1>5. PICK a \in Accounts : disk[I] \in {a, "torn"} /\ disk[N] \in {a, "torn"} /\ cmd.account \in {a, "none"}
  BY DEF Paired, I, N
<1>6. /\ Holds("identity") = disk[I] /\ Holds("nodes") = disk[N]
      /\ a # "none" /\ disk[I] # "none" /\ "torn" \notin Accounts
  BY <1>4, <1>5, LaunchAssumption DEF Holds, I, N, Files
<1>7. cmd'.account \in {a, "none"}
  <2>1. CASE cmd' = NoCommand
    BY <2>1 DEF NoCommand
  <2>2. CASE cmd' # NoCommand
    <3>1. PICK s \in Steps, p \in BOOLEAN, b \in Accounts \cup {"none"} :
            /\ cmd' = [cmd EXCEPT !.step = s, !.pinning = p, !.account = b]
            /\ b = cmd.account \/ b = Holds("identity") \/ Holds("identity") = "none"
      BY <2>2 DEF Goes
    <3>2. cmd'.account = b
      BY <3>1 DEF IInv, TypeOK
    <3>3. b \in {a, "none"}
      BY <1>5, <1>6, <3>1, LaunchAssumption
    <3> QED
      BY <3>2, <3>3
  <2> QED
    BY <2>1, <2>2
<1>8. disk'[I] \in {a, "torn"} /\ disk'[N] \in {a, "torn"}
  <2>1. CASE disk' = disk
    BY <1>5, <2>1
  <2>2. CASE \E f \in Files, content \in Contents : Writes(f, content)
    <3>1. PICK f \in Files, content \in Contents : Writes(f, content)
      BY <2>2
    <3>2. /\ disk' = [disk EXCEPT ![Adopt(w, f)] = content]
          /\ content # "none"
          /\ f = "identity" => content \in {"torn", cmd.account}
          /\ f = "nodes" => content \in {"torn", cmd.account, disk[N]}
      BY <3>1, <1>4, <1>6 DEF Writes
    <3>3. CASE f = "identity"
      <4>1. content \in {a, "torn"} /\ Adopt(w, f) = I
        BY <1>5, <3>2, <3>3 DEF I
      <4> QED
        BY <1>2, <1>3, <1>5, <3>2, <4>1
    <3>4. CASE f = "nodes"
      <4>1. content \in {a, "torn"} /\ Adopt(w, f) = N
        BY <1>5, <3>2, <3>4 DEF N
      <4> QED
        BY <1>2, <1>3, <1>5, <3>2, <4>1
    <3>5. CASE f \notin {"identity", "nodes"}
      <4>1. Adopt(w, f) # I /\ Adopt(w, f) # N
        BY <3>5 DEF Adopt, In, Legacy, I, N, Files
      <4> QED
        BY <1>2, <1>3, <1>5, <3>2, <4>1
    <3> QED
      BY <3>3, <3>4, <3>5
  <2> QED
    BY <2>1, <2>2
<1>9. disk'[I'] \in {a, "torn"} /\ disk'[N'] \in {a, "torn"} /\ cmd'.account \in {a, "none"}
  BY <1>1, <1>7, <1>8
<1> QED
  BY <1>9 DEF Paired, I, N

\* No command run from a place with the default settings moves the files the place
\* works with, or pairs its identity with another account's inventory, whatever
\* came before it, however often it writes both and wherever a write is cut off
\* (OwnCommandsKeepTheSetup).
THEOREM SetupKept == Spec => OwnCommandsKeepTheSetup
<1> DEFINE Kept(w) == /\ \A f \in Files : Adopt(w, f)' = Adopt(w, f)
                      /\ Paired(w) => Paired(w)'
<1>1. ASSUME IInv, Next, NEW w \in Places,
             Running.at = w, Running.dir = "home", Running.given = {}
      PROVE  Kept(w)
  <2>1. CASE Starts
    <3>1. disk' = disk /\ cmd'.account = "none"
      BY <2>1 DEF Starts, Start, EnsureDir
    <3> QED
      BY <3>1 DEF Adopt, Exists, Paired
  <2>2. CASE ~Starts
    <3>1. /\ cmd.step # "done" /\ Goes
          /\ disk' = disk \/ \E f \in Files, content \in Contents : Writes(f, content)
      BY <1>1, <2>2, StepShape DEF IInv
    <3>2. cmd.at = w /\ cmd.dir = "home" /\ cmd.given = {}
      BY <1>1, <3>1 DEF Running
    <3>3. \A f \in Files : Adopt(w, f)' = Adopt(w, f)
      BY <1>1, <3>1, <3>2, WritesMoveNothing
    <3>4. Paired(w) => Paired(w)'
      BY <1>1, <3>1, <3>2, StepKeepsPaired
    <3> QED
      BY <3>3, <3>4
  <2> QED
    BY <2>1, <2>2
<1>2. IInv /\ [Next]_vars =>
        [\A w \in Places : Running.at = w /\ Running.dir = "home" /\ Running.given = {} => Kept(w)]_vars
  BY <1>1
<1> QED
  BY <1>2, Invariance, PTL DEF Spec, OwnCommandsKeepTheSetup

\* A default command makes a new account only where there is none to be found
\* (AuthorisationIsKept).
THEOREM AuthorisationKept == Spec => AuthorisationIsKept
<1> DEFINE Default == cmd.dir = "home" /\ "identity" \notin cmd.given
           Made(p) == disk[p] = "none" /\ disk'[p] # "none"
<1>1. ASSUME IInv, Next, Default, NEW p \in IdentityFiles, Made(p)
      PROVE  ~Exists(In(Home, "identity")) /\ ~Exists(Legacy(cmd.at, "identity"))
  <2>0. p \in Paths /\ p[3] = "identity"
    BY DEF IdentityFiles
  <2>1. ~Starts
    BY <1>1 DEF Starts, Start, EnsureDir
  <2>2. cmd.step # "done" /\ \E f \in Files, content \in Contents : Writes(f, content)
    BY <1>1, <2>1, StepShape DEF IInv
  <2>3. PICK f \in Files, content \in Contents : Writes(f, content)
    BY <2>2
  <2>4. cmd.paths[f] = p
    BY <1>1, <2>0, <2>3 DEF Writes, IInv, TypeOK
  <2>5. cmd.paths[f] = IF f \in cmd.given THEN In("given", f) ELSE Adopt(cmd.at, f)
    BY <1>1, <2>2 DEF IInv, PathsStand
  <2>6. f = "identity"
    BY <1>1, <2>0, <2>4, <2>5 DEF Adopt, In, Legacy
  <2>7. p = Adopt(cmd.at, "identity")
    BY <1>1, <2>4, <2>5, <2>6
  <2> QED
    BY <1>1, <2>7 DEF Adopt, Exists
<1>2. IInv /\ [Next]_vars =>
        [Default => \A p \in IdentityFiles : Made(p) =>
           ~Exists(In(Home, "identity")) /\ ~Exists(Legacy(cmd.at, "identity"))]_vars
  BY <1>1
<1> QED
  BY <1>2, Invariance, PTL DEF Spec, AuthorisationIsKept
=============================================================================
