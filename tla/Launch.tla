------------------------------- MODULE Launch -------------------------------
(***************************************************************************)
(* One command after another on one machine (execute in main.go), each run *)
(* from some working directory: where its files are (internal/paths), what *)
(* it checks before it touches the network, and what it leaves on disk for *)
(* the next.                                                               *)
(*                                                                         *)
(* What happens inside a step is the subject of other modules: an exchange *)
(* of Session and Handshake, a fetch of RuleSets, a served tunnel of Panel.*)
(* Commands that run at the same time are theirs too.                      *)
(***************************************************************************)
EXTENDS Naturals, FiniteSets

CONSTANTS
  Home,          \* tunnet-lite in the per-user configuration directory
  Places,        \* working directories
  Explicit,      \* what -dir and $TUNNET_LITE_HOME are set to
  Accounts,
  GivenFiles,    \* the sets of files whose own flags (-nodes, ...) are used
  MaxCommands    \* bound: commands run

ASSUME LaunchAssumption ==
  /\ Places # {}
  /\ "given" \notin Places \cup Explicit \cup {Home}
  /\ {"none", "torn", "whole"} \cap Accounts = {}
  /\ Explicit \cap {"home", "none"} = {}
  /\ \A given \in GivenFiles : given \subseteq {"identity", "nodes", "pins", "state", "assets"}
  /\ MaxCommands \in Nat

VARIABLES
  disk,      \* what every path holds
  cmd,       \* the command that runs
  commands   \* how many have been started

vars == <<disk, cmd, commands>>

Files  == {"identity", "nodes", "pins", "state", "assets"}
Paths  == (Places \cup Explicit \cup {Home, "given"}) \X {"plain", "prefixed"} \X Files
\* A file that is there holds an account, or nothing to tell apart; "torn" is a
\* file cut short, and an assets directory that lacks a rule set.
Contents == {"none", "torn", "whole"} \cup Accounts
Defaults == {"home", "none"}      \* os.UserConfigDir works, or fails
Jobs     == {"fetch", "refresh", "dump", "serve"}
Steps    == {"fetch", "route", "harden", "open", "exchange", "store", "clear", "load", "plan",
             "attach", "serving", "watching", "done"}

-----------------------------------------------------------------------------
(* Paths                                                                   *)

In(dir, f) == <<dir, "plain", f>>
\* What earlier versions wrote: nodes.json and assets have the same name still.
Legacy(at, f) == <<at, IF f \in {"nodes", "assets"} THEN "plain" ELSE "prefixed", f>>

Exists(path) == disk[path] # "none"

AdoptNothing(at, f) == In(Home, f)      \* faulty: a file of an earlier version is ignored

\* withLegacy: each file by itself.
Adopt(at, f) ==
  IF Exists(Legacy(at, f)) /\ ~Exists(In(Home, f)) THEN Legacy(at, f) ELSE In(Home, f)

\* Resolve: an explicit directory wins; without a configuration directory it is
\* the working directory and the old names.
Resolve(at, dir) ==
  [f \in Files |-> CASE dir = "home" -> Adopt(at, f)
                     [] dir = "none" -> Legacy(at, f)
                     [] OTHER        -> In(dir, f)]

\* applyPaths: a flag of the file's own wins.
ApplyPaths(at, dir, given) ==
  [f \in Files |-> IF f \in given THEN In("given", f) ELSE Resolve(at, dir)[f]]

\* EnsureDir makes the base directory, and no file in it.
EnsureDirWithAssets(dir) ==      \* faulty: makes the directory of the rule sets as well
  IF dir = "home" /\ ~Exists(In(Home, "assets"))
  THEN [disk EXCEPT ![In(Home, "assets")] = "torn"] ELSE disk

EnsureDir(dir) == disk

-----------------------------------------------------------------------------
NoCommand == [step |-> "done", job |-> "dump", at |-> CHOOSE w \in Places : TRUE, dir |-> "home",
              given |-> {}, pinning |-> FALSE, account |-> "none",
              paths |-> [f \in Files |-> In(Home, f)]]

Holds(f) == disk[cmd.paths[f]]
GoTo(next) == cmd' = IF next = "done" THEN NoCommand ELSE [cmd EXCEPT !.step = next]

\* The session works as the account a, whatever becomes of its file.
SignIn(a, next) == cmd' = [cmd EXCEPT !.step = next, !.account = a]

\* os.WriteFile truncates before it writes: what fails or is killed in between
\* leaves a torn file.  A kill is the End that may follow any step.
Put(f, content) == disk' = [disk EXCEPT ![cmd.paths[f]] = content]
Write(f, content, next, failed) ==
  \/ Put(f, content) /\ GoTo(next)
  \/ Put(f, "torn") /\ GoTo(failed)

\* A machine on which an earlier version ran in one place, or none did.
Init ==
  /\ \E w \in Places, old \in SUBSET Files, a \in Accounts :
       disk = [p \in Paths |->
                 IF \E f \in old : p = Legacy(w, f)
                 THEN IF p[3] \in {"identity", "nodes"} THEN a ELSE "whole"
                 ELSE "none"]
  /\ cmd = NoCommand /\ commands = 0

\* parseCLI, applyPaths, and which branch execute takes first.
Start(at, dir, given, job) ==
  /\ cmd.step = "done" /\ commands < MaxCommands
  /\ commands' = commands + 1
  /\ cmd' = [step |-> IF job = "fetch" THEN "fetch" ELSE "route", job |-> job, at |-> at,
             dir |-> dir, given |-> given, pinning |-> FALSE, account |-> "none",
             paths |-> ApplyPaths(at, dir, given)]
  /\ disk' = EnsureDir(dir)

\* fetchRules: both rule sets, or the directory with what there was.
FetchRules ==
  /\ cmd.step = "fetch" /\ GoTo("done")
  /\ \E after \in {"whole", Holds("assets")} \cup IF Holds("assets") = "none" THEN {"torn"} ELSE {} :
       disk' = [disk EXCEPT ![cmd.paths["assets"]] = after]
  /\ UNCHANGED commands

\* applyRouting: a known mode, and smart mode needs both rule sets.
ApplyRouting ==
  /\ cmd.step = "route"
  /\ \E mode \in {"global", "smart", "other"} :
       GoTo(IF mode = "global" \/ (mode = "smart" /\ Holds("assets") = "whole") THEN "harden"
            ELSE "done")
  /\ UNCHANGED <<disk, commands>>

\* buildHardening: ECH without DoH is refused, and a torn pin store is fatal
\* unless pinning is off.
BuildHardening ==
  /\ cmd.step = "harden"
  /\ \E doh \in {"off", "named", "literal"}, ech \in BOOLEAN, mode \in {"off", "tofu", "strict", "bad"} :
       LET refused == \/ doh = "off" /\ ech
                      \/ doh = "named"
                      \/ mode = "bad"
                      \/ mode # "off" /\ Holds("pins") = "torn"
           next == IF cmd.job = "refresh" THEN "open" ELSE "load"
       IN  cmd' = IF refused THEN NoCommand
                  ELSE [cmd EXCEPT !.step = next, !.pinning = mode = "tofu"]
  /\ UNCHANGED <<disk, commands>>

\* openSession: an identity is made when there is no file; then the client, which
\* fails when it must have an ECH configuration and gets none.
OpenSession ==
  /\ cmd.step = "open"
  /\ \/ /\ Holds("identity") = "none"
        /\ \/ \E a \in Accounts \ {disk[p] : p \in Paths} : Put("identity", a) /\ SignIn(a, "exchange")
           \/ Put("identity", "torn") /\ GoTo("done")
     \/ Holds("identity") \in Accounts /\ UNCHANGED disk /\ SignIn(Holds("identity"), "exchange")
     \/ UNCHANGED disk /\ GoTo("done")
  /\ UNCHANGED commands

After == IF cmd.job = "serve" THEN "watching" ELSE "done"

\* The first exchange under tofu records the pins; when that fails so does the call,
\* and the next one tries again.  A call that fails, or asks for approval, ends a
\* refresh but not a process that serves.
Exchange ==
  /\ cmd.step = "exchange"
  /\ \/ cmd.pinning /\ Holds("pins") # "whole" /\ Write("pins", "whole", "store", "exchange")
     \/ UNCHANGED disk /\ (GoTo("store") \/ GoTo(After))
  /\ UNCHANGED commands

\* rememberTicket and clearTicket save the identity with or without its ticket: for
\* approval, before a directory from bootstrap is stored, or after one that was
\* redeemed.  That it fails is only logged, and the file may be left torn.
SaveTicket ==
  /\ cmd.step \in {"exchange", "clear"}
  /\ UNCHANGED disk \/ \E c \in {cmd.account, "torn"} : Put("identity", c)
  /\ GoTo(After) \/ (cmd.step = "exchange" /\ GoTo("store"))
  /\ UNCHANGED commands

\* Session.persist: what the reply leaves out comes from the inventory on disk, the
\* client id too, and what is incomplete then is not written.  When what a ticket
\* brought cannot be stored, bootstrap asks once more.
Store ==
  /\ cmd.step = "store"
  /\ \E next \in {After, "clear"}, failed \in {After, "exchange"} :
       \/ Write("nodes", cmd.account, next, failed)
       \/ Holds("nodes") \in Accounts /\ Write("nodes", Holds("nodes"), next, failed)
       \/ UNCHANGED disk /\ GoTo(failed)
  /\ UNCHANGED commands

\* inventory.Load.
LoadInventory ==
  /\ cmd.step = "load"
  /\ GoTo(IF Holds("nodes") \in Accounts THEN "plan" ELSE "done")
  /\ UNCHANGED <<disk, commands>>

\* supervisor.Resolve: the root is saved when it changes, which may fail or be
\* killed, before the addresses are probed, which ends the command when none is
\* reachable.
Plan ==
  /\ cmd.step = "plan"
  /\ disk' \in {disk} \cup {[disk EXCEPT ![cmd.paths["state"]] = c] : c \in {"whole", "torn"}}
  /\ \/ cmd.job = "serve" /\ GoTo("attach")
     \/ GoTo("done")
  /\ UNCHANGED commands

\* openExistingSession makes no identity: without one, or when there is no console
\* and it cannot be opened, the proxy serves what is on disk for good.
OpenExistingSession ==
  /\ cmd.step = "attach"
  /\ \/ Holds("identity") \in Accounts /\ SignIn(Holds("identity"), "watching")
     \/ GoTo("serving")
     \/ Holds("identity") # "none" /\ GoTo("done")
  /\ UNCHANGED <<disk, commands>>

\* The console and the updater refresh while the proxy serves.
RefreshWhileServing ==
  /\ cmd.step = "watching"
  /\ GoTo("exchange")
  /\ UNCHANGED <<disk, commands>>

\* An interrupt, a crash, or the end of what the command was for.
End ==
  /\ cmd.step # "done" /\ GoTo("done")
  /\ UNCHANGED <<disk, commands>>

Next ==
  \/ \E at \in Places, dir \in Defaults \cup Explicit, given \in GivenFiles, job \in Jobs :
       Start(at, dir, given, job)
  \/ FetchRules \/ ApplyRouting \/ BuildHardening \/ OpenSession \/ Exchange \/ SaveTicket \/ Store
  \/ LoadInventory \/ Plan \/ OpenExistingSession \/ RefreshWhileServing \/ End

Spec == Init /\ [][Next]_vars

-----------------------------------------------------------------------------
TypeOK ==
  /\ disk \in [Paths -> Contents]
  /\ cmd \in [step : Steps, job : Jobs, at : Places, dir : Defaults \cup Explicit,
              given : SUBSET Files, pinning : BOOLEAN, account : Accounts \cup {"none"},
              paths : [Files -> Paths]]
  /\ commands \in 0..MaxCommands

\* The place works as one account: its identity and its inventory are that account's,
\* as far as they are not torn, and so is what the running session holds in memory.
Paired(at) ==
  \E a \in Accounts :
    /\ disk[Adopt(at, "identity")] \in {a, "torn"} /\ disk[Adopt(at, "nodes")] \in {a, "torn"}
    /\ cmd.account \in {a, "none"}

\* "A file already present in the working directory keeps being used" (paths.go:
\* 44-46): no command run from a place with the default settings changes which
\* files later ones find there, not even one that fails or is killed; nor does it
\* pair the place's identity with another account's inventory, although a refresh
\* writes both files more than once and any of its writes may be cut off
\* (session.go:69-137, 145-160).
Running == IF cmd.step = "done" THEN cmd' ELSE cmd
OwnCommandsKeepTheSetup ==
  [][\A w \in Places :
       Running.at = w /\ Running.dir = "home" /\ Running.given = {} =>
         /\ \A f \in Files : Adopt(w, f)' = Adopt(w, f)
         /\ Paired(w) => Paired(w)']_vars

\* An existing setup is not abandoned "along with its authorisation" (paths.go:
\* 45-46): a new account, which has to be approved, is made by a default command
\* only when neither place it looks in has an identity, even a torn one.
IdentityFiles == {p \in Paths : p[3] = "identity"}
AuthorisationIsKept ==
  [][cmd.dir = "home" /\ "identity" \notin cmd.given =>
       \A p \in IdentityFiles :
         disk[p] = "none" /\ disk'[p] # "none" =>
           ~Exists(In(Home, "identity")) /\ ~Exists(Legacy(cmd.at, "identity"))]_vars

\* $TUNNET_LITE_HOME "is useful for keeping separate identities side by side"
\* (paths.go:14-15, README.md:60-61): a command that does not name the directory
\* does not work with the inventory fetched for the identity in it.
SeparateIdentities ==
  cmd.step = "plan" /\ cmd.dir = "home" /\ cmd.given = {} =>
    \A d \in Explicit : Holds("nodes") # disk[In(d, "identity")]
=============================================================================
