--------------------------- MODULE RuleSetsProofs ---------------------------
(***************************************************************************)
(* For any number of commands, attempts, releases and faults: a rule set   *)
(* in place stays there, and is whole as long as no two commands fetch at  *)
(* once; a fetch by itself that succeeds leaves all of them whole; and one *)
(* gives up for a reason.                                                  *)
(***************************************************************************)
EXTENDS RuleSets, TLAPS

Releases == 1..MaxReleases

FetchStates ==
  [pc : Stages, i : DOMAIN Files, want : Contents, attempt : 0..Attempts, source : Contents,
   got : Contents, out : Places, alone : BOOLEAN]

-----------------------------------------------------------------------------
(* Types                                                                   *)

LEMMA FilesFact == DOMAIN Files = 1..2 /\ Len(Files) = 2
BY DEF Files

LEMMA FileTyped ==
  ASSUME TypeOK, NEW p \in Fetchers
  PROVE  File(p) \in Names
BY DEF TypeOK, File, Names

LEMMA ContentsFact ==
  Releases \subseteq Contents /\ Absent \in Contents /\ Broken \in Contents /\ Broken \notin Releases
    /\ Absent \notin Releases /\ Absent # Broken
BY RuleSetsAssumption DEF Contents, Releases, Absent, Broken

LEMMA FetchTyped ==
  ASSUME NEW stage \in Stages, NEW i \in 1..2, NEW alone \in BOOLEAN
  PROVE  Fetch(stage, i, alone) \in FetchStates
BY FilesFact, ContentsFact, RuleSetsAssumption DEF Fetch, FetchStates, Places

LEMMA MovedTyped ==
  ASSUME TypeOK, NEW f, NEW from, NEW to \in Places
  PROVE  Moved(f, from, to) \in [Fetchers -> FetchStates]
<1>1. \A q \in Fetchers : fetch[q] \in FetchStates
  BY DEF TypeOK, FetchStates
<1>2. \A q \in Fetchers : [fetch[q] EXCEPT !.out = to] \in FetchStates
  BY <1>1 DEF FetchStates
<1> QED
  BY <1>1, <1>2 DEF Moved

LEMMA RetryTyped ==
  ASSUME TypeOK, NEW p \in Fetchers, NEW others \in [Fetchers -> FetchStates], Retry(p, others)
  PROVE  fetch' \in [Fetchers -> FetchStates]
<1>1. fetch[p] \in FetchStates /\ fetch[p].i \in 1..2 /\ fetch[p].alone \in BOOLEAN
      /\ fetch[p].want \in Contents /\ fetch[p].attempt \in 0..Attempts
  BY FilesFact DEF TypeOK, FetchStates
<1>2. TriesLeft(fetch[p].attempt) => fetch[p].attempt + 1 \in 0..Attempts
  BY <1>1, RuleSetsAssumption DEF TriesLeft
<1>3. Fetch("create", fetch[p].i, fetch[p].alone) \in FetchStates
      /\ Fetch("gaveUp", 1, fetch[p].alone) \in FetchStates
  BY <1>1, FetchTyped DEF Stages
<1>4. CASE TriesLeft(fetch[p].attempt)
  <2>1. [Fetch("create", fetch[p].i, fetch[p].alone) EXCEPT
           !.want = fetch[p].want, !.attempt = fetch[p].attempt + 1] \in FetchStates
    BY <1>1, <1>2, <1>3, <1>4 DEF FetchStates
  <2> QED
    BY <1>4, <2>1 DEF Retry
<1>5. CASE ~TriesLeft(fetch[p].attempt)
  <2>1. [Fetch("gaveUp", 1, fetch[p].alone) EXCEPT !.want = fetch[p].want] \in FetchStates
    BY <1>1, <1>3 DEF FetchStates
  <2> QED
    BY <1>5, <2>1 DEF Retry
<1> QED
  BY <1>4, <1>5

LEMMA NextFileTyped ==
  ASSUME TypeOK, NEW p \in Fetchers, NEW others \in [Fetchers -> FetchStates], NextFile(p, others)
  PROVE  fetch' \in [Fetchers -> FetchStates]
<1>1. fetch[p].i \in 1..2 /\ fetch[p].alone \in BOOLEAN
  BY FilesFact DEF TypeOK
<1>2. fetch[p].i # Len(Files) => fetch[p].i + 1 \in 1..2
  BY <1>1, FilesFact
<1>3. Fetch("done", 1, fetch[p].alone) \in FetchStates
  BY <1>1, FetchTyped DEF Stages
<1>4. fetch[p].i # Len(Files) => Fetch("digest", fetch[p].i + 1, fetch[p].alone) \in FetchStates
  BY <1>1, <1>2, FetchTyped DEF Stages
<1> QED
  BY <1>3, <1>4 DEF NextFile

LEMMA EndsTyped ==
  ASSUME TypeOK, NEW p \in Fetchers, NEW stage \in Stages, Ends(p, stage) \/ Goes(p, stage)
  PROVE  fetch' \in [Fetchers -> FetchStates]
<1>1. fetch[p].i \in 1..2 /\ fetch[p].alone \in BOOLEAN /\ fetch \in [Fetchers -> FetchStates]
  BY FilesFact DEF TypeOK, FetchStates
<1>2. Fetch(stage, 1, fetch[p].alone) \in FetchStates /\ Fetch(stage, fetch[p].i, fetch[p].alone) \in FetchStates
  BY <1>1, FetchTyped
<1> QED
  BY <1>1, <1>2 DEF Ends, Goes

Disks == [Names -> [part : Contents, target : Contents]]

LEMMA TypeInvariant == TypeOK /\ [Next]_vars => TypeOK'
<1> SUFFICES ASSUME TypeOK, [Next]_vars PROVE TypeOK'
  OBVIOUS
<1>a. fetch \in [Fetchers -> FetchStates] /\ disk \in Disks /\ published \in Releases
      /\ faults \in Nat /\ overlapped \in BOOLEAN
  BY DEF TypeOK, FetchStates, Disks, Releases
<1>b. \A q \in Fetchers : fetch[q] \in FetchStates
  BY <1>a
<1>c. /\ published' \in Releases => published' \in 1..MaxReleases
      /\ Fault => faults' \in Nat
      /\ UNCHANGED faults => faults' \in Nat
  BY <1>a DEF Fault, Releases
<1> SUFFICES published' \in Releases /\ disk' \in Disks /\ fetch' \in [Fetchers -> FetchStates]
             /\ overlapped' \in BOOLEAN /\ faults' \in Nat
  BY DEF TypeOK, FetchStates, Disks, Releases
<1>1. CASE UNCHANGED vars
  BY <1>1, <1>a DEF vars
<1>2. CASE Publish
  BY <1>2, <1>a, RuleSetsAssumption DEF Publish, Releases
<1>3. ASSUME NEW p \in Fetchers, Begin(p)
      PROVE  fetch' \in [Fetchers -> FetchStates] /\ disk' \in Disks /\ overlapped' \in BOOLEAN
             /\ published' \in Releases /\ faults' \in Nat
  <2> DEFINE others == {q \in Fetchers : q # p /\ Running(q)}
  <2>1. Fetch("digest", 1, others = {}) \in FetchStates
    <3>1. 1 \in 1..2 /\ (others = {}) \in BOOLEAN /\ "digest" \in Stages
      BY DEF Stages
    <3> HIDE DEF others
    <3> QED
      BY <3>1, FetchTyped
  <2>2. \A q \in Fetchers : [fetch[q] EXCEPT !.alone = FALSE] \in FetchStates
    BY <1>b DEF FetchStates
  <2>3. fetch' = [q \in Fetchers |->
                 IF q = p THEN Fetch("digest", 1, others = {})
                 ELSE IF q \in others THEN [fetch[q] EXCEPT !.alone = FALSE] ELSE fetch[q]]
    BY <1>3 DEF Begin
  <2>4. fetch' \in [Fetchers -> FetchStates]
    BY <1>b, <2>1, <2>2, <2>3
  <2> QED
    BY <1>3, <1>a, <2>4 DEF Begin
<1>4. ASSUME NEW p \in Fetchers, Crash(p)
      PROVE  fetch' \in [Fetchers -> FetchStates] /\ disk' \in Disks /\ overlapped' \in BOOLEAN
             /\ published' \in Releases /\ faults' \in Nat
  <2>1. Fetch("idle", 1, TRUE) \in FetchStates
    <3>1. 1 \in 1..2 /\ TRUE \in BOOLEAN /\ "idle" \in Stages
      BY DEF Stages
    <3> QED
      BY <3>1, FetchTyped
  <2> QED
    BY <1>4, <1>a, <2>1 DEF Crash
<1>5. ASSUME NEW p \in Fetchers, Digest(p)
      PROVE  fetch' \in [Fetchers -> FetchStates] /\ disk' \in Disks /\ overlapped' \in BOOLEAN
             /\ published' \in Releases /\ faults' \in Nat
  <2>1. CASE fetch' = [fetch EXCEPT ![p].want = published, ![p].pc = "compare"]
    BY <1>5, <1>a, <1>b, <1>c, <2>1, ContentsFact DEF Digest, FetchStates, Stages
  <2>2. CASE Ends(p, "failed")
    BY <1>5, <1>a, <1>c, <2>2, EndsTyped DEF Digest, Stages
  <2> QED
    BY <1>5, <2>1, <2>2 DEF Digest
<1>6. ASSUME NEW p \in Fetchers, CompareTarget(p)
      PROVE  fetch' \in [Fetchers -> FetchStates] /\ disk' \in Disks /\ overlapped' \in BOOLEAN
             /\ published' \in Releases /\ faults' \in Nat
  <2>1. CASE NextFile(p, fetch)
    BY <1>6, <1>a, <2>1, NextFileTyped DEF CompareTarget
  <2>2. CASE fetch' = [fetch EXCEPT ![p].attempt = 1, ![p].pc = "create"]
    <3> DEFINE x == [fetch[p] EXCEPT !.attempt = 1, !.pc = "create"]
    <3>1. x \in FetchStates
      <4>1. 1 \in 0..Attempts /\ "create" \in Stages
        BY RuleSetsAssumption DEF Stages
      <4> QED
        BY <1>b, <4>1 DEF FetchStates
    <3>2. fetch' = [fetch EXCEPT ![p] = x]
      BY <1>a, <2>2
    <3> HIDE DEF x
    <3> QED
      BY <1>6, <1>a, <3>1, <3>2 DEF CompareTarget
  <2> QED
    BY <1>6, <2>1, <2>2 DEF CompareTarget
<1>7. ASSUME NEW p \in Fetchers, Create(p)
      PROVE  fetch' \in [Fetchers -> FetchStates] /\ disk' \in Disks /\ overlapped' \in BOOLEAN
             /\ published' \in Releases /\ faults' \in Nat
  <2>1. CASE /\ fetch' = [fetch EXCEPT ![p].pc = "copy", ![p].source = published, ![p].out = "part"]
             /\ disk' = [disk EXCEPT ![File(p)].part = Broken]
    <3>1. fetch' \in [Fetchers -> FetchStates]
      <4> DEFINE x == [fetch[p] EXCEPT !.pc = "copy", !.source = published, !.out = "part"]
      <4>1. x \in FetchStates
        BY <1>a, <1>b, ContentsFact DEF FetchStates, Stages, Places
      <4>2. fetch' = [fetch EXCEPT ![p] = x]
        BY <1>a, <2>1
      <4> HIDE DEF x
      <4> QED
        BY <1>a, <4>1, <4>2
    <3>2. disk' \in Disks
      BY <1>a, <2>1, ContentsFact, FileTyped DEF Disks
    <3> QED
      BY <1>7, <1>a, <1>c, <3>1, <3>2 DEF Create
  <2>2. CASE Retry(p, fetch) /\ UNCHANGED disk
    BY <1>7, <1>a, <1>c, <2>2, RetryTyped DEF Create
  <2> QED
    BY <1>7, <2>1, <2>2 DEF Create
<1>8. ASSUME NEW p \in Fetchers, Copy(p)
      PROVE  fetch' \in [Fetchers -> FetchStates] /\ disk' \in Disks /\ overlapped' \in BOOLEAN
             /\ published' \in Releases /\ faults' \in Nat
  <2> DEFINE place == fetch[p].out
             Holds(c) == disk' = IF place = "none" THEN disk ELSE [disk EXCEPT ![File(p)][place] = c]
  <2>1. fetch[p].source \in Contents /\ place \in Places
    BY <1>b DEF FetchStates
  <2>2. ASSUME NEW c \in Contents, Holds(c) PROVE disk' \in Disks
    <3>1. CASE place = "none"
      BY <1>a, <2>2, <3>1
    <3>2. CASE place = "part"
      BY <1>a, <2>2, <3>2, FileTyped DEF Disks
    <3>3. CASE place = "target"
      BY <1>a, <2>2, <3>3, FileTyped DEF Disks
    <3> QED
      BY <2>1, <3>1, <3>2, <3>3 DEF Places
  <2>3. disk' \in Disks
    BY <1>8, <2>1, <2>2, ContentsFact DEF Copy
  <2>4. fetch' \in [Fetchers -> FetchStates]
    <3>1. CASE Retry(p, fetch)
      BY <1>a, <3>1, RetryTyped
    <3>2. CASE fetch' = [fetch EXCEPT ![p].pc = "check", ![p].got = fetch[p].source,
                                  ![p].source = Broken, ![p].out = "none"]
      <4> DEFINE x == [fetch[p] EXCEPT !.pc = "check", !.got = fetch[p].source,
                                       !.source = Broken, !.out = "none"]
      <4>1. x \in FetchStates
        BY <1>b, <2>1, ContentsFact DEF FetchStates, Stages, Places
      <4>2. fetch' = [fetch EXCEPT ![p] = x]
        BY <1>a, <3>2
      <4> HIDE DEF x
      <4> QED
        BY <1>a, <4>1, <4>2
    <3>3. CASE fetch' = [fetch EXCEPT ![p].pc = "check", ![p].source = Broken, ![p].out = "none"]
      <4> DEFINE x == [fetch[p] EXCEPT !.pc = "check", !.source = Broken, !.out = "none"]
      <4>1. x \in FetchStates
        BY <1>b, ContentsFact DEF FetchStates, Stages, Places
      <4>2. fetch' = [fetch EXCEPT ![p] = x]
        BY <1>a, <3>3
      <4> HIDE DEF x
      <4> QED
        BY <1>a, <4>1, <4>2
    <3> QED
      BY <1>8, <3>1, <3>2, <3>3 DEF Copy
  <2> QED
    BY <1>8, <1>a, <1>c, <2>3, <2>4 DEF Copy
<1>9. ASSUME NEW p \in Fetchers, Check(p)
      PROVE  fetch' \in [Fetchers -> FetchStates] /\ disk' \in Disks /\ overlapped' \in BOOLEAN
             /\ published' \in Releases /\ faults' \in Nat
  <2>1. CASE Goes(p, "rename") /\ UNCHANGED disk
    BY <1>9, <1>a, <2>1, EndsTyped DEF Check, Stages
  <2>2. CASE /\ disk' = [disk EXCEPT ![File(p)].part = Absent]
             /\ Retry(p, Moved(File(p), "part", "none"))
    <3>1. disk' \in Disks
      BY <1>a, <2>2, ContentsFact, FileTyped DEF Disks
    <3>2. fetch' \in [Fetchers -> FetchStates]
      BY <2>2, MovedTyped, RetryTyped DEF Places
    <3> QED
      BY <1>9, <1>a, <3>1, <3>2 DEF Check
  <2> QED
    BY <1>9, <2>1, <2>2 DEF Check
<1>10. ASSUME NEW p \in Fetchers, Rename(p)
      PROVE  fetch' \in [Fetchers -> FetchStates] /\ disk' \in Disks /\ overlapped' \in BOOLEAN
             /\ published' \in Releases /\ faults' \in Nat
  <2> DEFINE moved == [q \in Fetchers |->
             IF fetch[q].out = "part" THEN Moved(File(p), "part", "target")[q]
                                      ELSE Moved(File(p), "target", "none")[q]]
  <2>1. CASE /\ disk' = [disk EXCEPT ![File(p)] = [part |-> Absent, target |-> disk[File(p)].part]]
             /\ NextFile(p, moved)
    <3>1. disk' \in Disks
      BY <1>a, <2>1, ContentsFact, FileTyped DEF Disks
    <3>2. moved \in [Fetchers -> FetchStates]
      BY MovedTyped DEF Places
    <3>3. fetch' \in [Fetchers -> FetchStates]
      BY <2>1, <3>2, NextFileTyped
    <3> QED
      BY <1>10, <1>a, <1>c, <3>1, <3>3 DEF Rename
  <2>2. CASE Ends(p, "failed") /\ UNCHANGED disk
    BY <1>10, <1>a, <1>c, <2>2, EndsTyped DEF Rename, Stages
  <2> QED
    BY <1>10, <2>1, <2>2 DEF Rename
<1> QED
  BY <1>1, <1>2, <1>3, <1>4, <1>5, <1>6, <1>7, <1>8, <1>9, <1>10 DEF Next, Working

-----------------------------------------------------------------------------
(* A fetch by itself                                                       *)

Wanting == {"compare", "create", "copy", "check"}
Fresh   == {"digest", "compare", "create", "copy"}

\* A command by itself wants a release, writes only to the .part, has a digest only of
\* what is in it, and renames only what matched.
Steady(p) ==
  /\ fetch[p].pc \in Wanting => fetch[p].want \in Releases
  /\ fetch[p].pc \in Fresh   => fetch[p].got = Broken
  /\ At(p, "copy")   => fetch[p].out = "part" /\ fetch[p].source \in Releases
  /\ At(p, "check")  => disk[File(p)].part = fetch[p].got
  /\ At(p, "rename") => disk[File(p)].part \in Releases

\* The files before the one it is at are in place and whole.
Behind(p) == \A j \in 1..2 : j < fetch[p].i => disk[Files[j]].target \in Releases

\* A command that says it runs alone does, and knows this.
Lone ==
  \A p \in Fetchers : Running(p) /\ fetch[p].alone =>
    (\A q \in Fetchers : q # p => ~Running(q)) /\ Steady(p) /\ Behind(p)

\* As long as no two commands fetched at once, each runs alone and nothing broken is
\* in place.
Solo ==
  ~overlapped =>
    /\ \A p \in Fetchers : Running(p) => fetch[p].alone
    /\ \A f \in Names : disk[f].target # Broken

IInv == TypeOK /\ Lone /\ Solo

\* Where a command stands after a step: it ends, stays with its file, or leaves the
\* file behind in place and whole.
Onward(p) ==
  \/ fetch'[p].pc # "done" /\ fetch'[p].i \in {1, fetch[p].i}
  \/ /\ disk'[File(p)].target \in Releases
     /\ \/ fetch[p].i = 2 /\ fetch'[p].pc = "done" /\ fetch'[p].i = 1
        \/ fetch[p].i = 1 /\ fetch'[p].pc = "digest" /\ fetch'[p].i = 2

\* What is left of the command once it retries, goes on to a file, or ends.
LEMMA RetrySteady ==
  ASSUME NEW p \in Fetchers, fetch[p].want \in Releases,
         NEW others \in [Fetchers -> FetchStates], Retry(p, others)
  PROVE  /\ Steady(p)'
         /\ fetch'[p].pc # "done" /\ fetch'[p].i \in {1, fetch[p].i}
<1>1. /\ fetch'[p].pc \in {"create", "gaveUp"}
      /\ fetch'[p].want = fetch[p].want /\ fetch'[p].got = Broken
      /\ fetch'[p].i \in {1, fetch[p].i}
  BY DEF Retry, Fetch
<1> QED
  BY <1>1 DEF Steady, At, Wanting, Fresh

LEMMA NextFileSteady ==
  ASSUME NEW p \in Fetchers, NEW others \in [Fetchers -> FetchStates], NextFile(p, others),
         fetch[p].i \in 1..2
  PROVE  /\ Steady(p)'
         /\ \/ fetch[p].i = 2 /\ fetch'[p].pc = "done" /\ fetch'[p].i = 1
            \/ fetch[p].i = 1 /\ fetch'[p].pc = "digest" /\ fetch'[p].i = 2
<1>1. CASE fetch[p].i = 2
  <2>1. fetch'[p] = Fetch("done", 1, fetch[p].alone)
    BY <1>1, FilesFact DEF NextFile
  <2> QED
    BY <1>1, <2>1 DEF Fetch, Steady, At, Wanting, Fresh
<1>2. CASE fetch[p].i = 1
  <2>1. fetch'[p] = Fetch("digest", 2, fetch[p].alone)
    BY <1>2, FilesFact DEF NextFile
  <2> QED
    BY <1>2, <2>1 DEF Fetch, Steady, At, Wanting, Fresh
<1> QED
  BY <1>1, <1>2

LEMMA EndsSteady ==
  ASSUME TypeOK, NEW p \in Fetchers, Ends(p, "failed")
  PROVE  /\ Steady(p)'
         /\ fetch'[p].pc # "done" /\ fetch'[p].i = 1
         /\ \A q \in Fetchers : q # p => fetch'[q] = fetch[q]
<1>1. fetch'[p] = Fetch("failed", 1, fetch[p].alone)
  BY DEF TypeOK, Ends
<1>2. \A q \in Fetchers : q # p => fetch'[q] = fetch[q]
  BY DEF TypeOK, Ends
<1> QED
  BY <1>1, <1>2 DEF Fetch, Steady, At, Wanting, Fresh

LEMMA MovedOnlyRunning ==
  ASSUME NEW q \in Fetchers, ~Running(q), NEW f, NEW from, NEW to
  PROVE  Moved(f, from, to)[q] = fetch[q]
BY DEF Moved

\* Every step of a command that runs alone.
LEMMA AloneStep ==
  ASSUME TypeOK, TypeOK', NEW p \in Fetchers, Steady(p), Crash(p) \/ Working(p),
         \A q \in Fetchers : q # p => ~Running(q)
  PROVE  /\ Steady(p)' /\ Onward(p)
         /\ \A q \in Fetchers : q # p => fetch'[q] = fetch[q]
         /\ \A f \in Names : disk'[f].target = disk[f].target \/ disk'[f].target \in Releases
<1>t. /\ fetch \in [Fetchers -> FetchStates] /\ fetch' \in [Fetchers -> FetchStates]
      /\ disk \in Disks /\ published \in Releases
  BY DEF TypeOK, FetchStates, Disks, Releases
<1>u. fetch[p] \in FetchStates /\ File(p) \in Names /\ fetch[p].i \in 1..2
  BY <1>t, FileTyped, FilesFact DEF FetchStates
<1>5. CASE Crash(p)
  <2>1. fetch'[p] = Fetch("idle", 1, TRUE)
    BY <1>t, <1>5 DEF Crash
  <2>2. Steady(p)' /\ Onward(p)
    BY <2>1 DEF Fetch, Steady, Onward, At, Wanting, Fresh
  <2> QED
    BY <1>t, <1>5, <2>2 DEF Crash
<1>6. CASE Digest(p)
  <2>1. CASE fetch' = [fetch EXCEPT ![p].want = published, ![p].pc = "compare"]
    <3>1. /\ fetch'[p].pc = "compare" /\ fetch'[p].want = published
          /\ fetch'[p].got = fetch[p].got
          /\ fetch'[p].i = fetch[p].i
      BY <1>t, <1>u, <2>1 DEF FetchStates
    <3>2. fetch[p].got = Broken
      BY <1>6 DEF Digest, Steady, At, Fresh
    <3>3. Steady(p)' /\ Onward(p)
      BY <1>t, <3>1, <3>2 DEF Steady, Onward, At, Wanting, Fresh
    <3> QED
      BY <1>t, <1>6, <2>1, <3>3 DEF Digest
  <2>2. CASE Ends(p, "failed")
    BY <1>6, <2>2, EndsSteady DEF Digest, Onward
  <2> QED
    BY <1>6, <2>1, <2>2 DEF Digest
<1>7. CASE CompareTarget(p)
  <2>1. CASE IsCurrent(disk[File(p)].target, fetch[p].want) /\ NextFile(p, fetch)
    <3>1. disk'[File(p)].target \in Releases
      BY <1>7, <2>1 DEF CompareTarget, IsCurrent, Steady, At, Wanting
    <3>2. Steady(p)' /\ Onward(p)
      BY <1>t, <1>u, <2>1, <3>1, NextFileSteady DEF Onward
    <3> QED
      BY <1>t, <1>7, <2>1, <3>2 DEF CompareTarget, NextFile
  <2>2. CASE fetch' = [fetch EXCEPT ![p].attempt = 1, ![p].pc = "create"]
    <3>1. /\ fetch'[p].pc = "create" /\ fetch'[p].want = fetch[p].want
          /\ fetch'[p].got = fetch[p].got
          /\ fetch'[p].i = fetch[p].i
      BY <1>t, <1>u, <2>2 DEF FetchStates
    <3>2. Steady(p)' /\ Onward(p)
      BY <1>7, <3>1 DEF Steady, Onward, At, Wanting, Fresh, CompareTarget
    <3> QED
      BY <1>t, <1>7, <2>2, <3>2 DEF CompareTarget
  <2> QED
    BY <1>7, <2>1, <2>2 DEF CompareTarget
<1>8. CASE Create(p)
  <2>0. fetch[p].pc = "create" /\ fetch[p].want \in Releases /\ fetch[p].got = Broken
    BY <1>8 DEF Create, At, Steady, Wanting, Fresh
  <2>1. CASE /\ fetch' = [fetch EXCEPT ![p].pc = "copy", ![p].source = published, ![p].out = "part"]
             /\ disk' = [disk EXCEPT ![File(p)].part = Broken]
    <3>1. /\ fetch'[p].pc = "copy" /\ fetch'[p].source = published /\ fetch'[p].out = "part"
          /\ fetch'[p].want = fetch[p].want /\ fetch'[p].got = fetch[p].got
          /\ fetch'[p].i = fetch[p].i
      BY <1>t, <1>u, <2>1 DEF FetchStates
    <3>2. Steady(p)' /\ Onward(p)
      BY <1>t, <2>0, <3>1 DEF Steady, Onward, At, Wanting, Fresh
    <3>3. \A f \in Names : disk'[f].target = disk[f].target
      BY <1>t, <2>1 DEF Disks
    <3> QED
      BY <1>t, <2>1, <3>2, <3>3
  <2>2. CASE Retry(p, fetch) /\ UNCHANGED disk
    <3>1. Steady(p)' /\ Onward(p)
      BY <1>t, <2>0, <2>2, RetrySteady DEF Onward
    <3> QED
      BY <1>t, <2>2, <3>1 DEF Retry
  <2> QED
    BY <1>8, <2>1, <2>2 DEF Create
<1>9. CASE Copy(p)
  <2>0. /\ fetch[p].pc = "copy" /\ fetch[p].want \in Releases
        /\ fetch[p].out = "part" /\ fetch[p].source \in Releases
    BY <1>9 DEF Copy, At, Steady, Wanting, Fresh
  <2>a. ASSUME NEW c, disk' = [disk EXCEPT ![File(p)][fetch[p].out] = c]
        PROVE  /\ \A f \in Names : disk'[f].target = disk[f].target
               /\ disk'[File(p)].part = c
    <3>1. disk' = [disk EXCEPT ![File(p)].part = c]
      BY <2>0, <2>a
    <3> QED
      BY <1>t, <1>u, <3>1 DEF Disks
  <2>b. \A q \in Fetchers \ {p} : ~(At(q, "copy") /\ File(q) = File(p) /\ fetch[q].out = fetch[p].out)
    BY DEF At, Running, Ended
  <2>1. CASE /\ disk' = [disk EXCEPT ![File(p)][fetch[p].out] = fetch[p].source]
             /\ fetch' = [fetch EXCEPT ![p].pc = "check", ![p].got = fetch[p].source,
                                       ![p].source = Broken, ![p].out = "none"]
    <3>1. /\ fetch'[p].pc = "check" /\ fetch'[p].want = fetch[p].want
          /\ fetch'[p].got = fetch[p].source
          /\ fetch'[p].i = fetch[p].i
      BY <1>t, <1>u, <2>1 DEF FetchStates
    <3>2. Steady(p)' /\ Onward(p)
      BY <2>0, <2>a, <2>1, <3>1 DEF Steady, Onward, At, Wanting, Fresh, File
    <3> QED
      BY <1>t, <2>a, <2>1, <3>2
  <2>2. CASE /\ disk' = [disk EXCEPT ![File(p)][fetch[p].out] = Broken]
             /\ fetch' = [fetch EXCEPT ![p].pc = "check", ![p].source = Broken, ![p].out = "none"]
    <3>0. fetch[p].got = Broken
      BY <2>0 DEF Steady, At, Fresh
    <3>1. /\ fetch'[p].pc = "check" /\ fetch'[p].want = fetch[p].want
          /\ fetch'[p].got = fetch[p].got
          /\ fetch'[p].i = fetch[p].i
      BY <1>t, <1>u, <2>2 DEF FetchStates
    <3>2. Steady(p)' /\ Onward(p)
      BY <2>0, <2>a, <2>2, <3>0, <3>1 DEF Steady, Onward, At, Wanting, Fresh, File
    <3> QED
      BY <1>t, <2>a, <2>2, <3>2
  <2>3. CASE /\ disk' = [disk EXCEPT ![File(p)][fetch[p].out] = Broken]
             /\ Retry(p, fetch)
    <3>1. Steady(p)' /\ Onward(p)
      BY <1>t, <2>0, <2>3, RetrySteady DEF Onward
    <3> QED
      BY <1>t, <2>a, <2>3, <3>1 DEF Retry
  <2> QED
    BY <1>9, <2>0, <2>1, <2>2, <2>3, <2>b DEF Copy
<1>10. CASE Check(p)
  <2>0. fetch[p].pc = "check" /\ fetch[p].want \in Releases /\ disk[File(p)].part = fetch[p].got
    BY <1>10 DEF Check, At, Steady, Wanting, Fresh
  <2>1. CASE Matches(fetch[p].got, fetch[p].want) /\ Goes(p, "rename") /\ UNCHANGED disk
    <3>1. fetch'[p] = Fetch("rename", fetch[p].i, fetch[p].alone)
      BY <1>t, <2>1 DEF Goes
    <3>2. fetch'[p].pc = "rename" /\ fetch'[p].i = fetch[p].i
      BY <3>1 DEF Fetch
    <3>3. Steady(p)' /\ Onward(p)
      BY <2>0, <2>1, <3>2 DEF Steady, Onward, At, Wanting, Fresh, File, Matches
    <3> QED
      BY <1>t, <2>1, <3>3 DEF Goes
  <2>2. CASE /\ disk' = [disk EXCEPT ![File(p)].part = Absent]
             /\ Retry(p, Moved(File(p), "part", "none"))
    <3>0. Moved(File(p), "part", "none") \in [Fetchers -> FetchStates]
      BY <1>t, MovedTyped DEF Places
    <3>1. Steady(p)' /\ Onward(p)
      BY <2>0, <2>2, <3>0, RetrySteady DEF Onward
    <3>2. \A f \in Names : disk'[f].target = disk[f].target
      BY <1>t, <2>2 DEF Disks
    <3>3. \A q \in Fetchers : q # p => fetch'[q] = Moved(File(p), "part", "none")[q]
      BY <2>2, <3>0 DEF Retry
    <3> QED
      BY <3>1, <3>2, <3>3, MovedOnlyRunning
  <2> QED
    BY <1>10, <2>1, <2>2 DEF Check
<1>11. CASE Rename(p)
  <2>0. fetch[p].pc = "rename" /\ disk[File(p)].part \in Releases
    BY <1>11 DEF Rename, At, Steady
  <2> DEFINE moved == [q \in Fetchers |->
           IF fetch[q].out = "part" THEN Moved(File(p), "part", "target")[q]
                                    ELSE Moved(File(p), "target", "none")[q]]
  <2>1. CASE /\ disk' = [disk EXCEPT ![File(p)] = [part |-> Absent, target |-> disk[File(p)].part]]
             /\ NextFile(p, moved)
    <3>1. moved \in [Fetchers -> FetchStates]
      BY <1>t, MovedTyped DEF Places
    <3>2. /\ disk'[File(p)].target \in Releases
          /\ \A f \in Names : disk'[f].target = disk[f].target \/ disk'[f].target \in Releases
      BY <1>t, <1>u, <2>0, <2>1 DEF Disks
    <3>3. Steady(p)' /\ Onward(p)
      BY <1>u, <2>1, <3>1, <3>2, NextFileSteady DEF Onward
    <3>4. \A q \in Fetchers : q # p => fetch'[q] = moved[q]
      BY <2>1, <3>1 DEF NextFile
    <3>5. \A q \in Fetchers : ~Running(q) => moved[q] = fetch[q]
      BY MovedOnlyRunning
    <3> QED
      BY <3>2, <3>3, <3>4, <3>5
  <2>2. CASE Ends(p, "failed") /\ UNCHANGED disk
    BY <2>2, EndsSteady DEF Onward
  <2> QED
    BY <1>11, <2>0, <2>1, <2>2, ContentsFact DEF Rename
<1> QED
  BY <1>5, <1>6, <1>7, <1>8, <1>9, <1>10, <1>11 DEF Working

\* Two states of a command that differ in where its open file is at most.
Alike(g, h) ==
  /\ g.pc = h.pc /\ g.i = h.i /\ g.want = h.want /\ g.attempt = h.attempt
  /\ g.source = h.source /\ g.got = h.got /\ g.alone = h.alone

\* A .part renamed or removed moves the open file of another, and nothing else.
LEMMA MovedAlike ==
  ASSUME TypeOK, NEW q \in Fetchers, NEW f, NEW from, NEW to
  PROVE  Alike(Moved(f, from, to)[q], fetch[q])
<1>1. fetch[q] \in FetchStates
  BY DEF TypeOK, FetchStates
<1>2. Alike([fetch[q] EXCEPT !.out = to], fetch[q]) /\ Alike(fetch[q], fetch[q])
  BY <1>1 DEF FetchStates, Alike
<1> QED
  BY <1>2 DEF Moved

\* What one command does leaves the others where they are, with what they say of
\* themselves, and it says the same of itself until it ends.
LEMMA KeepsAlone ==
  ASSUME TypeOK, NEW p \in Fetchers, Crash(p) \/ Working(p)
  PROVE  /\ Running(p)' => fetch'[p].alone = fetch[p].alone
         /\ \A q \in Fetchers : q # p => Alike(fetch'[q], fetch[q])
<1>t. fetch \in [Fetchers -> FetchStates] /\ \A q \in Fetchers : fetch[q] \in FetchStates
  BY DEF TypeOK, FetchStates
<1>0. /\ \A stage, i, alone : Fetch(stage, i, alone).alone = alone
      /\ \A stage, i, alone : Fetch(stage, i, alone).pc = stage
  BY DEF Fetch
<1>1. ASSUME NEW others \in [Fetchers -> FetchStates], Retry(p, others) \/ NextFile(p, others),
             \A q \in Fetchers : Alike(others[q], fetch[q])
      PROVE  /\ fetch'[p].alone = fetch[p].alone
             /\ \A q \in Fetchers : q # p => Alike(fetch'[q], fetch[q])
  <2>1. \A q \in Fetchers : q # p => fetch'[q] = others[q]
    BY <1>1 DEF Retry, NextFile
  <2>2. CASE Retry(p, others)
    BY <1>1, <2>1, <2>2 DEF Retry, Fetch
  <2>3. CASE NextFile(p, others)
    BY <1>0, <1>1, <2>1, <2>3 DEF NextFile
  <2> QED
    BY <1>1, <2>2, <2>3
<1>2. \A q \in Fetchers : fetch'[q] = fetch[q] => Alike(fetch'[q], fetch[q])
  BY DEF Alike
<1>u. \A q \in Fetchers : Alike(fetch[q], fetch[q])
  BY DEF Alike
<1>3. ASSUME NEW g, fetch' = [fetch EXCEPT ![p] = g], g.alone = fetch[p].alone \/ g.pc = "idle"
      PROVE  /\ Running(p)' => fetch'[p].alone = fetch[p].alone
             /\ \A q \in Fetchers : q # p => fetch'[q] = fetch[q]
  BY <1>t, <1>3 DEF Running, Ended
<1>4. CASE Crash(p)
  <2>1. fetch' = [fetch EXCEPT ![p] = Fetch("idle", 1, TRUE)]
    BY <1>4 DEF Crash
  <2>2. Fetch("idle", 1, TRUE).pc = "idle"
    BY <1>0
  <2> QED
    BY <1>2, <1>3, <2>1, <2>2
<1>5. ASSUME NEW stage, Goes(p, stage) \/ Ends(p, stage)
      PROVE  /\ Running(p)' => fetch'[p].alone = fetch[p].alone
             /\ \A q \in Fetchers : q # p => fetch'[q] = fetch[q]
  BY <1>0, <1>3, <1>5 DEF Goes, Ends
<1>6. CASE Digest(p) \/ CompareTarget(p)
  <2>1. CASE fetch' = [fetch EXCEPT ![p].want = published, ![p].pc = "compare"]
    BY <1>t, <1>2, <2>1 DEF FetchStates
  <2>2. CASE fetch' = [fetch EXCEPT ![p].attempt = 1, ![p].pc = "create"]
    BY <1>t, <1>2, <2>2 DEF FetchStates
  <2> QED
    BY <1>t, <1>u, <1>1, <1>2, <1>5, <1>6, <2>1, <2>2 DEF Digest, CompareTarget
<1>7. CASE Create(p)
  <2>1. CASE fetch' = [fetch EXCEPT ![p].pc = "copy", ![p].source = published, ![p].out = "part"]
    BY <1>t, <1>2, <2>1 DEF FetchStates
  <2> QED
    BY <1>t, <1>u, <1>1, <1>2, <1>7, <2>1 DEF Create
<1>8. CASE Copy(p)
  <2>1. CASE fetch' = [fetch EXCEPT ![p].pc = "check", ![p].got = fetch[p].source,
                                    ![p].source = Broken, ![p].out = "none"]
    BY <1>t, <1>2, <2>1 DEF FetchStates
  <2>2. CASE fetch' = [fetch EXCEPT ![p].pc = "check", ![p].source = Broken, ![p].out = "none"]
    BY <1>t, <1>2, <2>2 DEF FetchStates
  <2>3. \/ fetch' = [fetch EXCEPT ![p].pc = "check", ![p].got = fetch[p].source,
                                  ![p].source = Broken, ![p].out = "none"]
        \/ fetch' = [fetch EXCEPT ![p].pc = "check", ![p].source = Broken, ![p].out = "none"]
        \/ Retry(p, fetch)
    BY <1>8, Zenon DEF Copy
  <2> QED
    BY <1>t, <1>u, <1>1, <1>2, <2>1, <2>2, <2>3
<1>9. CASE Check(p)
  <2>1. CASE Retry(p, Moved(File(p), "part", "none"))
    <3>1. Moved(File(p), "part", "none") \in [Fetchers -> FetchStates]
      BY MovedTyped DEF Places
    <3> QED
      BY <1>1, <2>1, <3>1, MovedAlike
  <2> QED
    BY <1>2, <1>5, <1>9, <2>1 DEF Check
<1>10. CASE Rename(p)
  <2> DEFINE moved == [q \in Fetchers |->
           IF fetch[q].out = "part" THEN Moved(File(p), "part", "target")[q]
                                    ELSE Moved(File(p), "target", "none")[q]]
  <2>1. CASE NextFile(p, moved)
    <3>1. moved \in [Fetchers -> FetchStates]
      BY MovedTyped DEF Places
    <3>2. \A q \in Fetchers : Alike(moved[q], fetch[q])
      BY MovedAlike
    <3> QED
      BY <1>1, <2>1, <3>1, <3>2
  <2>2. NextFile(p, moved) \/ Ends(p, "failed")
    BY <1>10 DEF Rename
  <2> QED
    BY <1>2, <1>5, <2>1, <2>2
<1> QED
  BY <1>2, <1>4, <1>6, <1>7, <1>8, <1>9, <1>10 DEF Working

LEMMA LoneInvariant == IInv /\ [Next]_vars => Lone' /\ Solo'
<1> SUFFICES ASSUME IInv, [Next]_vars PROVE Lone' /\ Solo'
  OBVIOUS
<1>t. TypeOK /\ TypeOK' /\ Lone /\ Solo
  BY TypeInvariant DEF IInv
<1>1. CASE UNCHANGED vars \/ Publish
  <2>1. UNCHANGED <<fetch, disk, overlapped>>
    BY <1>1 DEF vars, Publish
  <2> QED
    BY <1>t, <2>1 DEF Lone, Solo, Steady, Behind, Running, At, File
<1>2. ASSUME NEW p \in Fetchers, Begin(p) PROVE Lone' /\ Solo'
  <2> DEFINE others == {q \in Fetchers : q # p /\ Running(q)}
  <2>1. /\ fetch'[p].pc = "digest" /\ fetch'[p].alone = (others = {})
        /\ fetch'[p].got = Broken /\ fetch'[p].i = 1
    BY <1>2 DEF Begin, Fetch
  <2>2. \A q \in Fetchers : q # p =>
          IF Running(q) THEN fetch'[q].alone = FALSE ELSE fetch'[q] = fetch[q]
    BY <1>2, <1>t DEF Begin, TypeOK
  <2>3. disk' = disk /\ overlapped' = (overlapped \/ others # {})
    BY <1>2 DEF Begin
  <2>4. Steady(p)' /\ Behind(p)'
    BY <2>1 DEF Steady, Behind, At, Wanting, Fresh
  <2>5. \A q \in Fetchers : q # p => ~(Running(q)' /\ fetch'[q].alone)
    BY <2>2 DEF Running
  <2>6. others = {} => \A q \in Fetchers : q # p => ~Running(q)'
    BY <2>2 DEF Running
  <2>7. Lone'
    BY <2>1, <2>4, <2>5, <2>6 DEF Lone
  <2>8. Solo'
    BY <1>t, <2>1, <2>3, <2>6 DEF Solo
  <2> QED
    BY <2>7, <2>8
<1>3. ASSUME NEW p \in Fetchers, Crash(p) \/ Working(p) PROVE Lone' /\ Solo'
  <2>1. Running(p) /\ overlapped' = overlapped
    BY <1>3 DEF Crash, Working, Digest, CompareTarget, Create, Copy, Check, Rename, At, Running, Ended
  <2>2. /\ Running(p)' => fetch'[p].alone = fetch[p].alone
        /\ \A q \in Fetchers : q # p =>
             fetch'[q].alone = fetch[q].alone /\ Running(q)' = Running(q)
    BY <1>t, <1>3, KeepsAlone DEF Running, Alike
  <2>3. CASE fetch[p].alone
    <3>1. (\A q \in Fetchers : q # p => ~Running(q)) /\ Steady(p) /\ Behind(p)
      BY <1>t, <2>1, <2>3 DEF Lone
    <3>2. /\ Steady(p)' /\ Onward(p)
          /\ \A f \in Names : disk'[f].target = disk[f].target \/ disk'[f].target \in Releases
      BY <1>t, <1>3, <3>1, AloneStep
    <3>3. Behind(p)'
      <4>1. \A j \in 1..2 : Files[j] \in Names
        BY FilesFact DEF Names
      <4>2. fetch[p].i \in 1..2
        BY <1>t, FilesFact DEF TypeOK
      <4> QED
        BY <3>1, <3>2, <4>1, <4>2 DEF Behind, Onward, File
    <3>4. Lone'
      BY <2>2, <3>1, <3>2, <3>3 DEF Lone
    <3>5. Solo'
      BY <1>t, <2>1, <2>2, <2>3, <3>1, <3>2, ContentsFact DEF Solo
    <3> QED
      BY <3>4, <3>5
  <2>4. CASE ~fetch[p].alone
    BY <1>t, <2>1, <2>2, <2>4 DEF Lone, Solo
  <2> QED
    BY <2>3, <2>4
<1> QED
  BY <1>1, <1>2, <1>3 DEF Next

LEMMA InitHolds == Init => IInv
<1> SUFFICES ASSUME Init PROVE IInv
  OBVIOUS
<1>1. Fetch("idle", 1, TRUE) \in FetchStates
  <2>1. 1 \in 1..2 /\ TRUE \in BOOLEAN /\ "idle" \in Stages
    BY DEF Stages
  <2> QED
    BY <2>1, FetchTyped
<1>2. TypeOK
  <2>1. published \in 1..MaxReleases
    BY RuleSetsAssumption DEF Init
  <2>2. disk \in Disks
    BY ContentsFact DEF Init, Disks
  <2>3. fetch \in [Fetchers -> FetchStates]
    BY <1>1 DEF Init
  <2> QED
    BY <2>1, <2>2, <2>3 DEF Init, TypeOK, FetchStates, Disks
<1>3. Lone /\ Solo
  BY DEF Init, Lone, Solo, Running, Ended, Fetch, Absent, Broken
<1> QED
  BY <1>2, <1>3 DEF IInv

\* The types, and what one command at a time does to the .part it alone writes.
THEOREM Invariance == Spec => []IInv
<1>1. IInv /\ [Next]_vars => IInv'
  BY TypeInvariant, LoneInvariant DEF IInv
<1> QED
  BY InitHolds, <1>1, PTL DEF Spec

\* What is in place is whole, whatever was interrupted, cut short, published or left
\* behind, unless two commands ever fetched at once (InPlaceIsWhole).
THEOREM WholeInPlace == Spec => []InPlaceIsWhole
<1>1. IInv => InPlaceIsWhole
  BY DEF IInv, Solo, InPlaceIsWhole
<1> QED
  BY Invariance, <1>1, PTL

\* A command that reports success and had the directory to itself leaves every rule set
\* in place and whole, whatever failed, overlapped or was killed before it (DoneIsWhole).
THEOREM WholeWhenDone == Spec => DoneIsWhole
<1> DEFINE Whole == \A p \in Fetchers : fetch[p].alone /\ ~At(p, "done") /\ At(p, "done")' =>
              \A f \in Names : disk'[f].target \notin {Absent, Broken}
<1>1. IInv /\ [Next]_vars => [Whole]_vars
  <2> SUFFICES ASSUME IInv, Next, NEW p \in Fetchers, fetch[p].alone, ~At(p, "done"), At(p, "done")'
               PROVE  \A f \in Names : disk'[f].target \notin {Absent, Broken}
    OBVIOUS
  <2>t. TypeOK /\ TypeOK' /\ Lone
    BY TypeInvariant DEF IInv
  <2>1. Crash(p) \/ Working(p)
    <3>1. ~Publish
      BY DEF Publish, At
    <3>2. ASSUME NEW q \in Fetchers, Begin(q) PROVE FALSE
      <4>1. fetch'[p].pc \in {fetch[p].pc, "digest"}
        BY <2>t, <3>2 DEF Begin, Fetch, TypeOK
      <4> QED
        BY <4>1 DEF At
    <3>3. ASSUME NEW q \in Fetchers, q # p, Crash(q) \/ Working(q) PROVE FALSE
      BY <2>t, <3>3, KeepsAlone DEF At, Alike
    <3> QED
      BY <3>1, <3>2, <3>3 DEF Next
  <2>2. Running(p)
    BY <2>1 DEF Crash, Working, Digest, CompareTarget, Create, Copy, Check, Rename, At, Running, Ended
  <2>3. (\A q \in Fetchers : q # p => ~Running(q)) /\ Steady(p) /\ Behind(p)
    BY <2>t, <2>2 DEF Lone
  <2>4. /\ Onward(p)
        /\ \A f \in Names : disk'[f].target = disk[f].target \/ disk'[f].target \in Releases
    BY <2>t, <2>1, <2>3, AloneStep
  <2>5. disk'[Files[2]].target \in Releases /\ disk'[Files[1]].target \in Releases
    <3>1. Files[1] \in Names
      BY FilesFact DEF Names
    <3>2. fetch[p].i = 2 /\ disk'[Files[2]].target \in Releases
      BY <2>4 DEF Onward, At, File
    <3>3. disk[Files[1]].target \in Releases
      BY <2>3, <3>2 DEF Behind
    <3> QED
      BY <2>4, <3>1, <3>2, <3>3
  <2> QED
    BY <2>5, FilesFact, ContentsFact DEF Names
<1> QED
  BY Invariance, <1>1, PTL DEF Spec, DoneIsWhole, At

-----------------------------------------------------------------------------
(* A rule set in place stays there, also for commands that share a .part   *)

\* What is being copied is of a release, whoever else writes to the same file.
Sourced == \A p \in Fetchers : At(p, "copy") => fetch[p].source \in Releases

\* A command that retries, or goes on to the next file, leaves others as they were moved
\* and copies nothing yet.
LEMMA RetrySource ==
  ASSUME Sourced, NEW p \in Fetchers, NEW others \in [Fetchers -> FetchStates],
         Retry(p, others) \/ NextFile(p, others),
         \A q \in Fetchers : others[q].pc = fetch[q].pc /\ others[q].source = fetch[q].source
  PROVE  Sourced'
<1>1. fetch'[p].pc # "copy"
  <2>1. \A stage, i, alone : Fetch(stage, i, alone).pc = stage
    BY DEF Fetch
  <2>2. CASE Retry(p, others)
    <3>1. \/ fetch'[p] = [Fetch("create", fetch[p].i, fetch[p].alone) EXCEPT
                            !.want = fetch[p].want, !.attempt = fetch[p].attempt + 1]
          \/ fetch'[p] = [Fetch("gaveUp", 1, fetch[p].alone) EXCEPT !.want = fetch[p].want]
      BY <2>2 DEF Retry
    <3>2. CASE fetch'[p] = [Fetch("create", fetch[p].i, fetch[p].alone) EXCEPT
                              !.want = fetch[p].want, !.attempt = fetch[p].attempt + 1]
      BY <3>2 DEF Fetch
    <3>3. CASE fetch'[p] = [Fetch("gaveUp", 1, fetch[p].alone) EXCEPT !.want = fetch[p].want]
      BY <3>3 DEF Fetch
    <3> QED
      BY <3>1, <3>2, <3>3
  <2>3. CASE NextFile(p, others)
    <3>1. \/ fetch'[p] = Fetch("done", 1, fetch[p].alone)
          \/ fetch'[p] = Fetch("digest", fetch[p].i + 1, fetch[p].alone)
      BY <2>3 DEF NextFile
    <3> QED
      BY <2>1, <3>1
  <2> QED
    BY <2>2, <2>3
<1>2. \A q \in Fetchers \ {p} : fetch'[q] = others[q]
  BY DEF Retry, NextFile
<1> QED
  BY <1>1, <1>2 DEF Sourced, At

\* Only Create leads to a copy, and it takes what is published then.
LEMMA SourcedStep == ASSUME TypeOK, Sourced, [Next]_vars PROVE Sourced'
<1>t. fetch \in [Fetchers -> FetchStates] /\ published \in Releases
  BY DEF TypeOK, FetchStates, Releases
<1>1. ASSUME NEW p \in Fetchers, NEW g, fetch' = [fetch EXCEPT ![p] = g], g.pc # "copy"
      PROVE  Sourced'
  <2>1. fetch'[p] = g /\ \A q \in Fetchers \ {p} : fetch'[q] = fetch[q]
    BY <1>t, <1>1
  <2> QED
    BY <1>1, <2>1 DEF Sourced, At
<1>2. ASSUME NEW p \in Fetchers, Retry(p, fetch) \/ NextFile(p, fetch) PROVE Sourced'
  BY <1>t, <1>2, RetrySource
<1>3. ASSUME NEW p \in Fetchers, NEW stage, stage # "copy", Goes(p, stage) \/ Ends(p, stage)
      PROVE  Sourced'
  <2>1. ASSUME NEW i PROVE Fetch(stage, i, fetch[p].alone).pc # "copy"
    BY <1>3 DEF Fetch
  <2>2. \/ fetch' = [fetch EXCEPT ![p] = Fetch(stage, fetch[p].i, fetch[p].alone)]
        \/ fetch' = [fetch EXCEPT ![p] = Fetch(stage, 1, fetch[p].alone)]
    BY <1>3 DEF Goes, Ends
  <2> QED
    BY <1>1, <2>1, <2>2
<1>4. CASE UNCHANGED vars \/ Publish
  BY <1>4 DEF vars, Publish, Sourced, At
<1>5. ASSUME NEW p \in Fetchers, Begin(p) PROVE Sourced'
  <2>1. fetch'[p].pc = "digest"
    BY <1>5 DEF Begin, Fetch
  <2>2. \A q \in Fetchers \ {p} :
          fetch'[q].pc = fetch[q].pc /\ fetch'[q].source = fetch[q].source
    BY <1>t, <1>5 DEF Begin, FetchStates
  <2> QED
    BY <2>1, <2>2 DEF Sourced, At
<1>6. ASSUME NEW p \in Fetchers, Crash(p) PROVE Sourced'
  <2>1. Fetch("idle", 1, TRUE).pc # "copy"
    BY DEF Fetch
  <2>2. fetch' = [fetch EXCEPT ![p] = Fetch("idle", 1, TRUE)]
    BY <1>6 DEF Crash
  <2> QED
    BY <1>1, <2>1, <2>2
<1>7. ASSUME NEW p \in Fetchers, Digest(p) \/ CompareTarget(p) PROVE Sourced'
  <2>1. CASE fetch' = [fetch EXCEPT ![p].want = published, ![p].pc = "compare"]
    BY <1>t, <2>1 DEF Sourced, At, FetchStates
  <2>2. CASE fetch' = [fetch EXCEPT ![p].attempt = 1, ![p].pc = "create"]
    BY <1>t, <2>2 DEF Sourced, At, FetchStates
  <2> QED
    BY <1>2, <1>3, <1>7, <2>1, <2>2 DEF Digest, CompareTarget
<1>8. ASSUME NEW p \in Fetchers, Create(p) PROVE Sourced'
  <2>1. CASE fetch' = [fetch EXCEPT ![p].pc = "copy", ![p].source = published, ![p].out = "part"]
    BY <1>t, <2>1 DEF Sourced, At, FetchStates
  <2> QED
    BY <1>2, <1>8, <2>1 DEF Create
<1>9. ASSUME NEW p \in Fetchers, Copy(p) PROVE Sourced'
  <2>1. CASE fetch' = [fetch EXCEPT ![p].pc = "check", ![p].got = fetch[p].source,
                                    ![p].source = Broken, ![p].out = "none"]
    BY <1>t, <2>1 DEF Sourced, At, FetchStates
  <2>2. CASE fetch' = [fetch EXCEPT ![p].pc = "check", ![p].source = Broken, ![p].out = "none"]
    BY <1>t, <2>2 DEF Sourced, At, FetchStates
  <2>3. \/ fetch' = [fetch EXCEPT ![p].pc = "check", ![p].got = fetch[p].source,
                                  ![p].source = Broken, ![p].out = "none"]
        \/ fetch' = [fetch EXCEPT ![p].pc = "check", ![p].source = Broken, ![p].out = "none"]
        \/ Retry(p, fetch)
    BY <1>9, Zenon DEF Copy
  <2> QED
    BY <1>2, <2>1, <2>2, <2>3
<1>10. ASSUME NEW p \in Fetchers, Check(p) PROVE Sourced'
  <2>1. CASE Retry(p, Moved(File(p), "part", "none"))
    <3>1. Moved(File(p), "part", "none") \in [Fetchers -> FetchStates]
      BY MovedTyped DEF Places
    <3> QED
      BY <2>1, <3>1, MovedAlike, RetrySource DEF Alike
  <2> QED
    BY <1>3, <1>10, <2>1 DEF Check
<1>11. ASSUME NEW p \in Fetchers, Rename(p) PROVE Sourced'
  <2> DEFINE moved == [q \in Fetchers |->
           IF fetch[q].out = "part" THEN Moved(File(p), "part", "target")[q]
                                    ELSE Moved(File(p), "target", "none")[q]]
  <2>1. CASE NextFile(p, moved)
    <3>1. moved \in [Fetchers -> FetchStates]
      BY <1>t, MovedTyped DEF Places
    <3>2. \A q \in Fetchers : moved[q].pc = fetch[q].pc /\ moved[q].source = fetch[q].source
      BY MovedAlike DEF Alike
    <3> QED
      BY <2>1, <3>1, <3>2, RetrySource
  <2>2. NextFile(p, moved) \/ Ends(p, "failed")
    BY <1>11 DEF Rename
  <2> QED
    BY <1>3, <2>1, <2>2
<1> QED
  BY <1>4, <1>5, <1>6, <1>7, <1>8, <1>9, <1>10, <1>11 DEF Next, Working

\* No step takes a rule set away that is in place, not even of commands that share
\* their .part, fail or are killed (StaysInPlace).
THEOREM InPlaceStays == Spec => StaysInPlace
<1> DEFINE Stays == \A f \in Names : disk[f].target # Absent => disk'[f].target # Absent
<1>1. Init => Sourced
  BY DEF Init, Sourced, At, Fetch
<1>2. TypeOK /\ Sourced /\ [Next]_vars => Sourced'
  BY SourcedStep
<1>3. TypeOK /\ Sourced /\ [Next]_vars => [Stays]_vars
  <2> SUFFICES ASSUME TypeOK, Sourced, Next PROVE Stays
    BY DEF Stays
  <2>t. disk \in Disks
    BY DEF TypeOK, Disks
  <2>1. CASE UNCHANGED disk
    BY <2>1
  <2>2. ASSUME NEW p \in Fetchers, NEW c, disk' = [disk EXCEPT ![File(p)].part = c] PROVE Stays
    BY <2>t, <2>2 DEF Disks
  <2>3. ASSUME NEW p \in Fetchers, Rename(p) PROVE Stays
    <3>1. \/ UNCHANGED disk
          \/ /\ disk[File(p)].part # Absent
             /\ disk' = [disk EXCEPT ![File(p)] = [part |-> Absent, target |-> disk[File(p)].part]]
      BY <2>3 DEF Rename
    <3> QED
      BY <2>t, <3>1 DEF Disks
  <2>4. ASSUME NEW p \in Fetchers, Copy(p) PROVE Stays
    <3>1. fetch[p].source # Absent /\ Broken # Absent /\ fetch[p].out \in {"none", "part", "target"}
      <4>1. fetch[p].source \in Releases /\ fetch[p] \in FetchStates
        BY <2>4 DEF Copy, Sourced, At, TypeOK, FetchStates
      <4> QED
        BY <4>1, ContentsFact DEF FetchStates, Places
    <3>2. UNCHANGED disk \/ \E c \in {fetch[p].source, Broken} :
                              disk' = [disk EXCEPT ![File(p)][fetch[p].out] = c]
      BY <2>4, Zenon DEF Copy
    <3>3. ASSUME NEW c \in {fetch[p].source, Broken},
                 disk' = [disk EXCEPT ![File(p)][fetch[p].out] = c]
          PROVE  Stays
      <4>1. CASE fetch[p].out = "part"
        BY <2>2, <3>3, <4>1
      <4>2. CASE fetch[p].out = "target"
        <5>1. disk' = [disk EXCEPT ![File(p)].target = c]
          BY <3>3, <4>2
        <5> QED
          BY <2>t, <3>1, <5>1 DEF Disks
      <4>3. CASE fetch[p].out = "none"
        BY <2>t, <3>3, <4>3 DEF Disks
      <4> QED
        BY <3>1, <4>1, <4>2, <4>3
    <3> QED
      BY <2>1, <3>2, <3>3
  <2>5. ASSUME NEW p \in Fetchers, Create(p) \/ Check(p) PROVE Stays
    <3>1. UNCHANGED disk \/ \E c \in {Broken, Absent} : disk' = [disk EXCEPT ![File(p)].part = c]
      BY <2>5, Zenon DEF Create, Check
    <3> QED
      BY <2>1, <2>2, <3>1
  <2>6. ASSUME NEW p \in Fetchers, Begin(p) \/ Crash(p) \/ Digest(p) \/ CompareTarget(p)
        PROVE  UNCHANGED disk
    BY <2>6 DEF Begin, Crash, Digest, CompareTarget
  <2>7. Publish => UNCHANGED disk
    BY DEF Publish
  <2> QED
    BY <2>1, <2>3, <2>4, <2>5, <2>6, <2>7 DEF Next, Working
<1>4. IInv => TypeOK
  BY DEF IInv
<1> QED
  BY <1>1, <1>2, <1>3, <1>4, Invariance, PTL DEF Spec, StaysInPlace

-----------------------------------------------------------------------------
(* A fetch gives up for a reason, also when others share its .part         *)

\* What a command knows of its tries: it wants nothing newer than what is published, and
\* has made no more tries than calls failed, plus the one under way, while that is
\* still what is published.
Counted(p) ==
  /\ fetch[p].want <= published
  /\ At(p, "copy") => fetch[p].source = fetch[p].want \/ fetch[p].want # published
  /\ fetch[p].pc \in {"create", "copy", "check"} =>
       fetch[p].attempt <= faults + 1 \/ fetch[p].want # published
  /\ fetch[p].pc \in Fresh => fetch[p].got = Broken
  /\ At(p, "check") => \/ fetch[p].got = fetch[p].want
                       \/ fetch[p].attempt <= faults \/ fetch[p].want # published
  /\ At(p, "gaveUp") => Attempts <= faults \/ fetch[p].want # published

Tries == \A p \in Fetchers : Counted(p)


\* For whom nothing has changed but what others failed in, moved or published.
LEMMA CountedStays ==
  ASSUME TypeOK, TypeOK', NEW q \in Fetchers, Counted(q), published' >= published,
         faults' >= faults, Alike(fetch'[q], fetch[q])
  PROVE  Counted(q)'
<1>1. /\ published \in Int /\ published' \in Int /\ faults \in Int /\ faults' \in Int
      /\ fetch[q].want \in Int /\ fetch[q].attempt \in Int
  BY RuleSetsAssumption DEF TypeOK, Contents, Absent, Broken
<1> QED
  BY <1>1, RuleSetsAssumption DEF Counted, At, Alike

\* What is left of a command that ends, goes on to a file, or has what it wanted.
LEMMA CountedEnds ==
  ASSUME TypeOK', NEW p \in Fetchers,
         NEW stage \in {"idle", "digest", "rename", "done", "failed"}, NEW i, NEW alone,
         fetch'[p] = Fetch(stage, i, alone)
  PROVE  Counted(p)'
<1>1. fetch'[p].pc = stage /\ fetch'[p].want = 0 /\ fetch'[p].got = Broken
  BY DEF Fetch, Broken
<1>2. published' >= 0
  BY RuleSetsAssumption DEF TypeOK
<1> QED
  BY <1>1, <1>2 DEF Counted, At

\* The try under way has failed, or the release wanted is no longer the latest.
LEMMA CountedRetry ==
  ASSUME TypeOK, TypeOK', NEW p \in Fetchers, NEW others \in [Fetchers -> FetchStates],
         Retry(p, others), fetch[p].want <= published',
         fetch[p].attempt <= faults' \/ fetch[p].want # published'
  PROVE  Counted(p)'
<1>1. fetch[p].attempt \in Int /\ faults' \in Int /\ Attempts \in Int
  BY RuleSetsAssumption DEF TypeOK
<1>2. CASE TriesLeft(fetch[p].attempt)
  <2>1. fetch'[p] = [Fetch("create", fetch[p].i, fetch[p].alone) EXCEPT
                       !.want = fetch[p].want, !.attempt = fetch[p].attempt + 1]
    BY <1>2 DEF Retry
  <2>2. /\ fetch'[p].pc = "create" /\ fetch'[p].want = fetch[p].want
        /\ fetch'[p].attempt = fetch[p].attempt + 1 /\ fetch'[p].got = Broken
    BY <2>1 DEF Fetch
  <2> QED
    BY <1>1, <2>2 DEF Counted, At
<1>3. CASE ~TriesLeft(fetch[p].attempt)
  <2>1. fetch'[p] = [Fetch("gaveUp", 1, fetch[p].alone) EXCEPT !.want = fetch[p].want]
    BY <1>3 DEF Retry
  <2>2. fetch'[p].pc = "gaveUp" /\ fetch'[p].want = fetch[p].want
    BY <2>1 DEF Fetch
  <2> QED
    BY <1>1, <1>3, <2>2 DEF Counted, At, TriesLeft, Fresh
<1> QED
  BY <1>2, <1>3

\* Every step of a command counts its tries.
LEMMA CountedStep ==
  ASSUME TypeOK, TypeOK', NEW p \in Fetchers, Counted(p), Crash(p) \/ Working(p)
  PROVE  Counted(p)'
<1>t. /\ fetch \in [Fetchers -> FetchStates] /\ fetch[p] \in FetchStates
      /\ published \in Int /\ published' = published /\ faults \in Int /\ fetch[p].want \in Int
      /\ fetch[p].attempt \in Int
      /\ fetch[p].i \in 1..2
  <2>1. published' = published
    BY DEF Crash, Working, Digest, CompareTarget, Create, Copy, Check, Rename
  <2> QED
    BY <2>1, FilesFact, RuleSetsAssumption DEF TypeOK, FetchStates, Contents, Absent, Broken
<1>0. /\ faults' = faults \/ Fault
      /\ Fault => faults' = faults + 1
      /\ faults' \in Int /\ faults' >= faults
  <2>1. faults' = faults \/ Fault
    BY DEF Crash, Working, Digest, CompareTarget, Create, Copy, Check, Rename
  <2> QED
    BY <1>t, <2>1 DEF Fault
<1>1. ASSUME NEW stage \in {"idle", "digest", "rename", "done", "failed"}, NEW i, NEW alone,
             fetch' = [fetch EXCEPT ![p] = Fetch(stage, i, alone)]
      PROVE  Counted(p)'
  BY <1>t, <1>1, CountedEnds
<1>2. ASSUME NEW others \in [Fetchers -> FetchStates], NextFile(p, others) PROVE Counted(p)'
  <2>1. \/ fetch'[p] = Fetch("done", 1, fetch[p].alone)
        \/ fetch'[p] = Fetch("digest", fetch[p].i + 1, fetch[p].alone)
    BY <1>2 DEF NextFile
  <2> QED
    BY <2>1, CountedEnds
<1>3. ASSUME Retry(p, fetch), Fault, fetch[p].pc \in {"create", "copy"} PROVE Counted(p)'
  <2>1. fetch[p].attempt <= faults' \/ fetch[p].want # published'
    BY <1>t, <1>0, <1>3 DEF Counted
  <2> QED
    BY <1>t, <1>3, <2>1, CountedRetry DEF Counted
<1>4. CASE Crash(p)
  BY <1>1, <1>4 DEF Crash
<1>5. CASE Digest(p)
  <2>1. CASE fetch' = [fetch EXCEPT ![p].want = published, ![p].pc = "compare"]
    <3>1. fetch'[p].pc = "compare" /\ fetch'[p].want = published /\ fetch'[p].got = fetch[p].got
      BY <1>t, <2>1 DEF FetchStates
    <3>2. fetch[p].got = Broken
      BY <1>5 DEF Digest, Counted, At, Fresh
    <3> QED
      BY <1>t, <3>1, <3>2 DEF Counted, At
  <2>2. CASE Ends(p, "failed")
    BY <1>1, <2>2 DEF Ends
  <2> QED
    BY <1>5, <2>1, <2>2 DEF Digest
<1>6. CASE CompareTarget(p)
  <2>1. CASE fetch' = [fetch EXCEPT ![p].attempt = 1, ![p].pc = "create"]
    <3>1. /\ fetch'[p].pc = "create" /\ fetch'[p].want = fetch[p].want
          /\ fetch'[p].attempt = 1 /\ fetch'[p].got = fetch[p].got
      BY <1>t, <2>1 DEF FetchStates
    <3>2. fetch[p].got = Broken
      BY <1>6 DEF CompareTarget, Counted, At, Fresh
    <3>3. \A n \in Nat : 1 <= n + 1
      OBVIOUS
    <3>4. fetch'[p].attempt <= faults' + 1
      BY <3>1, <3>3 DEF TypeOK
    <3> QED
      BY <1>t, <3>1, <3>2, <3>4 DEF Counted, At
  <2> QED
    BY <1>t, <1>2, <1>6, <2>1 DEF CompareTarget
<1>7. CASE Create(p)
  <2>0. fetch[p].pc = "create"
    BY <1>7 DEF Create, At
  <2>1. CASE /\ fetch' = [fetch EXCEPT ![p].pc = "copy", ![p].source = published, ![p].out = "part"]
             /\ UNCHANGED faults
    <3>1. /\ fetch'[p].pc = "copy" /\ fetch'[p].want = fetch[p].want
          /\ fetch'[p].source = published
          /\ fetch'[p].attempt = fetch[p].attempt /\ fetch'[p].got = fetch[p].got
      BY <1>t, <2>1 DEF FetchStates
    <3> QED
      BY <1>t, <2>0, <2>1, <3>1 DEF Counted, At, Fresh
  <2> QED
    BY <1>3, <1>7, <2>0, <2>1 DEF Create
<1>8. CASE Copy(p)
  <2>0. fetch[p].pc = "copy"
    BY <1>8 DEF Copy, At
  <2>1. CASE /\ fetch' = [fetch EXCEPT ![p].pc = "check", ![p].got = fetch[p].source,
                                       ![p].source = Broken, ![p].out = "none"]
             /\ UNCHANGED faults
    <3>1. /\ fetch'[p].pc = "check" /\ fetch'[p].want = fetch[p].want
          /\ fetch'[p].attempt = fetch[p].attempt /\ fetch'[p].got = fetch[p].source
      BY <1>t, <2>1 DEF FetchStates
    <3> QED
      BY <1>t, <2>0, <2>1, <3>1 DEF Counted, At, Fresh
  <2>2. CASE /\ fetch' = [fetch EXCEPT ![p].pc = "check", ![p].source = Broken, ![p].out = "none"]
             /\ Fault
    <3>1. /\ fetch'[p].pc = "check" /\ fetch'[p].want = fetch[p].want
          /\ fetch'[p].attempt = fetch[p].attempt
      BY <1>t, <2>2 DEF FetchStates
    <3> QED
      BY <1>t, <1>0, <2>0, <2>2, <3>1 DEF Counted, At, Fresh
  <2>3. \/ /\ fetch' = [fetch EXCEPT ![p].pc = "check", ![p].got = fetch[p].source,
                                     ![p].source = Broken, ![p].out = "none"]
           /\ UNCHANGED faults
        \/ /\ fetch' = [fetch EXCEPT ![p].pc = "check", ![p].source = Broken, ![p].out = "none"]
           /\ Fault
        \/ Retry(p, fetch) /\ Fault
    BY <1>8, Zenon DEF Copy
  <2> QED
    BY <1>3, <2>0, <2>1, <2>2, <2>3
<1>9. CASE Check(p)
  <2>0. fetch[p].pc = "check" /\ faults' = faults
    BY <1>9 DEF Check, At
  <2>1. CASE ~Matches(fetch[p].got, fetch[p].want) /\ Retry(p, Moved(File(p), "part", "none"))
    <3>1. Moved(File(p), "part", "none") \in [Fetchers -> FetchStates]
      BY MovedTyped DEF Places
    <3>2. fetch[p].attempt <= faults' \/ fetch[p].want # published'
      BY <1>t, <2>0, <2>1 DEF Counted, At, Matches
    <3> QED
      BY <1>t, <2>1, <3>1, <3>2, CountedRetry DEF Counted
  <2> QED
    BY <1>1, <1>9, <2>1 DEF Check, Goes
<1>10. CASE Rename(p)
  <2> DEFINE moved == [q \in Fetchers |->
           IF fetch[q].out = "part" THEN Moved(File(p), "part", "target")[q]
                                    ELSE Moved(File(p), "target", "none")[q]]
  <2>1. moved \in [Fetchers -> FetchStates]
    BY <1>t, MovedTyped DEF Places
  <2>2. NextFile(p, moved) \/ Ends(p, "failed")
    BY <1>10 DEF Rename
  <2>3. CASE Ends(p, "failed")
    BY <1>1, <2>3 DEF Ends
  <2> QED
    BY <1>2, <2>1, <2>2, <2>3
<1> QED
  BY <1>4, <1>5, <1>6, <1>7, <1>8, <1>9, <1>10 DEF Working

LEMMA TriesInvariant == TypeOK /\ Tries /\ [Next]_vars => Tries'
<1> SUFFICES ASSUME TypeOK, Tries, [Next]_vars PROVE Tries'
  OBVIOUS
<1>t. TypeOK' /\ published \in Int /\ faults \in Int /\ \A q \in Fetchers : Counted(q)
  BY TypeInvariant DEF TypeOK, Tries
<1>0. \A q \in Fetchers : Alike(fetch[q], fetch[q])
  BY DEF Alike
<1>1. CASE UNCHANGED vars \/ Publish
  <2>1. published' >= published /\ faults' >= faults /\ fetch' = fetch
    BY <1>t, <1>1 DEF vars, Publish
  <2> QED
    BY <1>t, <1>0, <2>1, CountedStays DEF Tries
<1>2. ASSUME NEW p \in Fetchers, Begin(p) PROVE Tries'
  <2>1. published' >= published /\ faults' >= faults
    BY <1>t, <1>2 DEF Begin
  <2>2. fetch'[p] = Fetch("digest", 1, {q \in Fetchers : q # p /\ Running(q)} = {})
    BY <1>2 DEF Begin
  <2>3. ASSUME NEW q \in Fetchers, q # p PROVE Counted(q)'
    <3>1. fetch'[q] = [fetch[q] EXCEPT !.alone = FALSE] \/ fetch'[q] = fetch[q]
      BY <1>2, <2>3 DEF Begin
    <3>2. fetch[q] \in FetchStates
      BY DEF TypeOK, FetchStates
    <3>3. fetch'[q].pc = fetch[q].pc /\ fetch'[q].want = fetch[q].want
          /\ fetch'[q].attempt = fetch[q].attempt /\ fetch'[q].source = fetch[q].source
          /\ fetch'[q].got = fetch[q].got
      BY <3>1, <3>2 DEF FetchStates
    <3>4. published' = published /\ faults' = faults
      BY <1>2 DEF Begin
    <3> QED
      BY <1>t, <3>3, <3>4 DEF Counted, At
  <2>4. Counted(p)'
    BY <1>t, <2>2, CountedEnds
  <2> QED
    BY <2>3, <2>4 DEF Tries
<1>3. ASSUME NEW p \in Fetchers, Crash(p) \/ Working(p) PROVE Tries'
  <2>1. published' >= published /\ faults' >= faults
    <3>1. published' = published /\ (faults' = faults \/ Fault)
      BY <1>3 DEF Crash, Working, Digest, CompareTarget, Create, Copy, Check, Rename
    <3> QED
      BY <1>t, <3>1 DEF Fault
  <2>2. ASSUME NEW q \in Fetchers, q # p PROVE Counted(q)'
    BY <1>t, <1>3, <2>1, <2>2, KeepsAlone, CountedStays
  <2>3. Counted(p)'
    BY <1>t, <1>3, CountedStep
  <2> QED
    BY <2>2, <2>3 DEF Tries
<1> QED
  BY <1>1, <1>2, <1>3 DEF Next

\* No fetch, of however many at once, uses up its attempts unless as many calls failed or
\* a release came out after it read the digest (GivesUpForAReason).
THEOREM GivenUpForAReason == Spec => []GivesUpForAReason
<1>1. Init => Tries
  <2> SUFFICES ASSUME Init, NEW p \in Fetchers PROVE Counted(p)
    BY DEF Tries
  <2>1. fetch[p].pc = "idle" /\ fetch[p].want = 0 /\ published = 1
    BY DEF Init, Fetch, Broken
  <2> QED
    BY <2>1 DEF Counted, At, Fresh
<1>2. TypeOK /\ Tries => GivesUpForAReason
  <2> SUFFICES ASSUME TypeOK, Tries, NEW p \in Fetchers, At(p, "gaveUp")
               PROVE  faults >= Attempts \/ fetch[p].want # published
    BY DEF GivesUpForAReason
  <2>1. faults \in Int /\ Attempts \in Int
    BY RuleSetsAssumption DEF TypeOK
  <2> QED
    BY <2>1 DEF Tries, Counted
<1>3. IInv => TypeOK
  BY DEF IInv
<1> QED
  BY Invariance, TriesInvariant, <1>1, <1>2, <1>3, PTL DEF Spec
=============================================================================
