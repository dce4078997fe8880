------------------------------ MODULE RuleSets ------------------------------
(***************************************************************************)
(* Fetching the rule sets smart routing needs (internal/rules/fetch.go):   *)
(* each file is streamed into a .part beside its place while its digest is *)
(* computed, and renamed into place when that digest is the published one. *)
(*                                                                         *)
(* A file is what it holds: the whole of a release, by number, or anything *)
(* else (Broken).  Two commands may fetch into one directory; they share   *)
(* the .part, so each is known by where the file it writes has got to.     *)
(* The publisher may bring out a release between a digest and the file.    *)
(***************************************************************************)
EXTENDS Integers, Sequences

CONSTANTS
  Fetchers,      \* -fetch-rules commands that may run at once
  Attempts,      \* Fetcher.Attempts
  MaxReleases,   \* bound: releases published
  MaxFaults      \* bound: failed calls and truncated transfers

ASSUME RuleSetsAssumption ==
  Attempts \in Nat \ {0} /\ MaxReleases \in Nat \ {0} /\ MaxFaults \in Nat

VARIABLES
  published,   \* the latest release
  disk,        \* each rule set: the file in place and the one being received
  fetch,       \* the commands
  overlapped,  \* whether two of them ever ran at once
  faults

vars == <<published, disk, fetch, overlapped, faults>>

Files == <<"geoip.dat", "geosite.dat">>
Names == {Files[i] : i \in DOMAIN Files}

Absent == -1
Broken == 0
Contents == {Absent, Broken} \cup 1..MaxReleases

Stages == {"idle", "digest", "compare", "create", "copy", "check", "rename", "done", "failed", "gaveUp"}
Ended  == {"idle", "done", "failed", "gaveUp"}
Places == {"none", "part", "target"}

Fetch(stage, i, alone) ==
  [pc |-> stage, i |-> i, want |-> Broken, attempt |-> 0, source |-> Broken, got |-> Broken,
   out |-> "none", alone |-> alone]

TypeOK ==
  /\ published \in 1..MaxReleases
  /\ disk \in [Names -> [part : Contents, target : Contents]]
  /\ fetch \in [Fetchers ->
       [pc : Stages, i : DOMAIN Files, want : Contents, attempt : 0..Attempts, source : Contents,
        got : Contents, out : Places, alone : BOOLEAN]]
  /\ overlapped \in BOOLEAN
  /\ faults \in Nat

Init ==
  /\ published = 1
  /\ disk = [f \in Names |-> [part |-> Absent, target |-> Absent]]
  /\ fetch = [p \in Fetchers |-> Fetch("idle", 1, TRUE)]
  /\ overlapped = FALSE /\ faults = 0

-----------------------------------------------------------------------------
At(p, stage) == fetch[p].pc = stage
Running(p)   == fetch[p].pc \notin Ended
File(p)      == Files[fetch[p].i]
Fault        == faults < MaxFaults /\ faults' = faults + 1

Publish ==
  /\ published < MaxReleases /\ published' = published + 1
  /\ UNCHANGED <<disk, fetch, overlapped, faults>>

\* Fetch, from a command: MkdirAll, then the files in order.
Begin(p) ==
  LET others == {q \in Fetchers : q # p /\ Running(q)} IN
  /\ fetch[p].pc \in Ended
  /\ fetch' = [q \in Fetchers |->
                 IF q = p THEN Fetch("digest", 1, others = {})
                 ELSE IF q \in others THEN [fetch[q] EXCEPT !.alone = FALSE] ELSE fetch[q]]
  /\ overlapped' = (overlapped \/ others # {})
  /\ UNCHANGED <<published, disk, faults>>

\* The command is interrupted or killed; what it wrote stays.
Crash(p) ==
  /\ Running(p)
  /\ fetch' = [fetch EXCEPT ![p] = Fetch("idle", 1, TRUE)]
  /\ UNCHANGED <<published, disk, overlapped, faults>>

Goes(p, stage) == fetch' = [fetch EXCEPT ![p] = Fetch(stage, fetch[p].i, fetch[p].alone)]
Ends(p, stage) == fetch' = [fetch EXCEPT ![p] = Fetch(stage, 1, fetch[p].alone)]

\* The file is in place: the next one, or Fetch is done.
NextFile(p, others) ==
  fetch' = [others EXCEPT ![p] =
              IF fetch[p].i = Len(Files) THEN Fetch("done", 1, fetch[p].alone)
              ELSE Fetch("digest", fetch[p].i + 1, fetch[p].alone)]

OneFewer(n)  == n + 1 < Attempts     \* faulty: the last attempt is never made
TriesLeft(n) == n < Attempts

\* faulty: the attempts are not counted
RetryForever(p, others) ==
  fetch' = [others EXCEPT ![p] = [Fetch("create", fetch[p].i, fetch[p].alone) EXCEPT
                                    !.want = fetch[p].want, !.attempt = fetch[p].attempt]]

\* The loop of fetchOne: another attempt while there is one.
Retry(p, others) ==
  fetch' = [others EXCEPT ![p] =
    IF TriesLeft(fetch[p].attempt)
    THEN [Fetch("create", fetch[p].i, fetch[p].alone) EXCEPT
            !.want = fetch[p].want, !.attempt = fetch[p].attempt + 1]
    ELSE [Fetch("gaveUp", 1, fetch[p].alone) EXCEPT !.want = fetch[p].want]]

\* Those that had the file at one place open find it at another.
Moved(f, from, to) ==
  [q \in Fetchers |-> IF Running(q) /\ File(q) = f /\ fetch[q].out = from
                      THEN [fetch[q] EXCEPT !.out = to] ELSE fetch[q]]

\* digest: the published checksum.
Digest(p) ==
  /\ At(p, "digest")
  /\ \/ /\ fetch' = [fetch EXCEPT ![p].want = published, ![p].pc = "compare"]
        /\ UNCHANGED faults
     \/ Ends(p, "failed") /\ Fault
  /\ UNCHANGED <<published, disk, overlapped>>

IsThere(held, want)   == held # Absent   \* faulty: what is there is taken for current
IsCurrent(held, want) == held = want

\* fileDigest of what is in place.
CompareTarget(p) ==
  /\ At(p, "compare")
  /\ IF IsCurrent(disk[File(p)].target, fetch[p].want)
     THEN NextFile(p, fetch)
     ELSE fetch' = [fetch EXCEPT ![p].attempt = 1, ![p].pc = "create"]
  /\ UNCHANGED <<published, disk, overlapped, faults>>

\* download: the request, and os.Create, which empties a .part that is there.
Create(p) ==
  /\ At(p, "create")
  /\ \/ /\ fetch' = [fetch EXCEPT ![p].pc = "copy", ![p].source = published, ![p].out = "part"]
        /\ disk' = [disk EXCEPT ![File(p)].part = Broken]
        /\ UNCHANGED faults
     \/ Retry(p, fetch) /\ Fault /\ UNCHANGED disk
  /\ UNCHANGED <<published, overlapped>>

\* io.Copy to the file and the digest.  A transfer cut short may go unnoticed.
\* Two commands that write one file leave a whole one only by chance.
Copy(p) ==
  LET f      == File(p)
      place  == fetch[p].out
      shared == \E q \in Fetchers \ {p} :
                  At(q, "copy") /\ File(q) = f /\ fetch[q].out = place
      Holds(c) == disk' = IF place = "none" THEN disk ELSE [disk EXCEPT ![f][place] = c]
  IN
  /\ At(p, "copy")
  /\ \/ /\ \E c \in {fetch[p].source} \cup (IF shared THEN {Broken} ELSE {}) : Holds(c)
        /\ fetch' = [fetch EXCEPT ![p].pc = "check", ![p].got = fetch[p].source,
                                  ![p].source = Broken, ![p].out = "none"]
        /\ UNCHANGED faults
     \/ /\ Holds(Broken)
        /\ fetch' = [fetch EXCEPT ![p].pc = "check", ![p].source = Broken, ![p].out = "none"]
        /\ Fault
     \/ Holds(Broken) /\ Retry(p, fetch) /\ Fault
  /\ UNCHANGED <<published, overlapped>>

Anything(got, want) == TRUE      \* faulty: the digests are not compared
Matches(got, want)  == got = want

\* faulty: a mismatch removes the file in place
CheckRemovingTarget(p) ==
  /\ At(p, "check")
  /\ IF Matches(fetch[p].got, fetch[p].want)
     THEN Goes(p, "rename") /\ UNCHANGED disk
     ELSE /\ disk' = [disk EXCEPT ![File(p)].target = Absent]
          /\ Retry(p, Moved(File(p), "target", "none"))
  /\ UNCHANGED <<published, overlapped, faults>>

\* A mismatch removes the .part, whoever has it open.
Check(p) ==
  /\ At(p, "check")
  /\ IF Matches(fetch[p].got, fetch[p].want)
     THEN Goes(p, "rename") /\ UNCHANGED disk
     ELSE /\ disk' = [disk EXCEPT ![File(p)].part = Absent]
          /\ Retry(p, Moved(File(p), "part", "none"))
  /\ UNCHANGED <<published, overlapped, faults>>

\* Rename; another command that has the .part open goes on writing to it.
Rename(p) ==
  LET f == File(p) IN
  /\ At(p, "rename")
  /\ \/ /\ disk[f].part # Absent
        /\ disk' = [disk EXCEPT ![f] = [part |-> Absent, target |-> disk[f].part]]
        /\ NextFile(p, [q \in Fetchers |->
             IF fetch[q].out = "part" THEN Moved(f, "part", "target")[q]
                                      ELSE Moved(f, "target", "none")[q]])
        /\ UNCHANGED faults
     \/ disk[f].part = Absent /\ Ends(p, "failed") /\ UNCHANGED <<disk, faults>>
     \/ Fault /\ Ends(p, "failed") /\ UNCHANGED disk
  /\ UNCHANGED <<published, overlapped>>

Working(p) == Digest(p) \/ CompareTarget(p) \/ Create(p) \/ Copy(p) \/ Check(p) \/ Rename(p)

Next == Publish \/ \E p \in Fetchers : Begin(p) \/ Crash(p) \/ Working(p)

Spec == Init /\ [][Next]_vars

\* A command goes on: every request has a time limit (fetch.go:41).
FairSpec == Spec /\ \A p \in Fetchers : WF_vars(Working(p))

-----------------------------------------------------------------------------
(* Properties                                                              *)

\* "only moved into place once it matches" (fetch.go:8): unless two commands ever
\* fetched at once, a file in place is the whole of a published one, whatever was
\* interrupted, cut short or left behind.
InPlaceIsWhole == ~overlapped => \A f \in Names : disk[f].target # Broken

\* A fetch that reports success, and had the directory to itself, leaves every rule
\* set in place and whole then, whatever others left behind before.
DoneIsWhole ==
  [][\A p \in Fetchers : fetch[p].alone /\ ~At(p, "done") /\ At(p, "done")' =>
       \A f \in Names : disk'[f].target \notin {Absent, Broken}]_vars

\* "A mismatch is usually a truncated transfer, which a retry fixes"
\* (fetch.go:33-34): a fetch uses up its attempts only when as many calls failed, or
\* when the publisher has moved on since the digest was read.
GivesUpForAReason ==
  \A p \in Fetchers : At(p, "gaveUp") => faults >= Attempts \/ fetch[p].want # published

\* A rule set in place is replaced, never missing: a smart start between any two
\* steps finds what the last one found (routing.go ResolveAssets).
StaysInPlace ==
  [][\A f \in Names : disk[f].target # Absent => disk'[f].target # Absent]_vars

\* Every fetch comes to an end, one that shares its .part included.
FetchReturns == \A p \in Fetchers : Running(p) ~> ~Running(p)
=============================================================================
