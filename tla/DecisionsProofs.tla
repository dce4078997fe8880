-------------------------- MODULE DecisionsProofs --------------------------
(***************************************************************************)
(* Proofs about Decisions, for any inventories, health times, versions,    *)
(* pools, options and DoH services.  No property here depends on an        *)
(* earlier state: each follows from what a question is about (Question)    *)
(* and from a lemma on the operators that answer it.                       *)
(***************************************************************************)
EXTENDS Decisions, FiniteSetTheorems, FunctionTheorems, SequenceTheorems, WellFoundedInduction, TLAPS

Question ==
  /\ asked = "poll" => input \in Inventories \X Inventories
  /\ asked = "health" => input \in Health
  /\ asked = "route" => input \in Routes
  /\ asked = "version" => input \in SomeVersions \X SomeVersions
  /\ asked = "pool" => input \in Pools \X Caps
  /\ asked = "document" => input \in OptionSets
  /\ asked = "dial" => input \in Dials

\* A question stays of its kind, and a poll is of two inventories.
THEOREM QuestionAsked == Spec => []Question
  <1>1. Init => Question
    BY DEF Init, Question
  <1>2. Question /\ [Poll]_<<asked, input>> => Question'
    BY DEF Poll, Question
  <1> QED BY <1>1, <1>2, PTL DEF Spec

-----------------------------------------------------------------------------
(* The health checks                                                       *)

\* What is a second more is a second more when it is rendered.
LEMMA SecondsMore ==
  ASSUME NEW d \in Nat, NEW e \in Nat, e >= d + Ticks
  PROVE  Seconds(e) \in Nat /\ Seconds(d) \in Nat /\ Seconds(e) > Seconds(d)
  BY TicksAssumption DEF Seconds

LEMMA HealthTimes ==
  ASSUME NEW o \in [timeout : Int, interval : Int],
         ProbeTimeout(o) >= Ticks,
         o.interval <= ProbeTimeout(o) \/ o.interval >= ProbeTimeout(o) + Ticks
  PROVE  PingConfig(o).interval > TimeoutInXray(PingConfig(o))
  <1> DEFINE t == ProbeTimeout(o)
             i == ProbeInterval(o)
  <1>1. t \in Nat /\ i \in Nat /\ i >= t + Ticks
    BY TicksAssumption DEF ProbeTimeout, ProbeInterval
  <1>2. Seconds(i) \in Nat /\ Seconds(t) \in Nat /\ Seconds(i) > Seconds(t)
    BY <1>1, SecondsMore
  <1>3. Seconds(t) > Seconds(0)
    <2>1. 0 \in Nat /\ t >= 0 + Ticks
      BY TicksAssumption, <1>1
    <2> QED BY <1>1, <2>1, SecondsMore
  <1>4. Seconds(0) = 0
    BY TicksAssumption DEF Seconds
  <1> HIDE DEF t, i
  <1>5. PingConfig(o).interval = Seconds(i) /\ PingConfig(o).timeout = Seconds(t)
    BY DEF PingConfig, t, i
  <1> QED BY <1>2, <1>3, <1>4, <1>5 DEF TimeoutInXray

\* HealthRoundsApart, for any -health-timeout and -health-interval, in any unit.
THEOREM HealthRoundsStayApart == Spec => []HealthRoundsApart
  <1>1. Question => HealthRoundsApart
    <2> SUFFICES ASSUME Question, asked = "health",
                        ProbeTimeout(input) >= Ticks,
                        \/ input.interval <= ProbeTimeout(input)
                        \/ input.interval >= ProbeTimeout(input) + Ticks
                 PROVE  PingConfig(input).interval > TimeoutInXray(PingConfig(input))
      BY DEF HealthRoundsApart
    <2>1. input \in [timeout : Int, interval : Int]
      BY DecisionsAssumption DEF Question
    <2> QED BY <2>1, HealthTimes
  <1> QED BY <1>1, QuestionAsked, PTL

\* Where that ends: an interval less than a second above a timeout of whole seconds
\* is rendered equal to it, and none from one second to less than six exceeds a timeout
\* of less than one, although README.md:301-303 says it is made to (xcfg.go:290).  An
\* interval of less than a second is rendered 0s and left to a default of Xray's too.
THEOREM FractionsAreLost ==
  ASSUME NEW o \in [timeout : Int, interval : Int]
  PROVE  /\ \A n \in Nat :
              o.timeout = n * Ticks /\ n > 0
                /\ o.timeout < o.interval /\ o.interval < o.timeout + Ticks =>
                PingConfig(o).interval = TimeoutInXray(PingConfig(o))
         /\ ProbeTimeout(o) < Ticks
              /\ Ticks <= ProbeInterval(o) /\ ProbeInterval(o) < 6 * Ticks =>
                PingConfig(o).interval <= TimeoutInXray(PingConfig(o))
  <1>1. ASSUME NEW n \in Nat, o.timeout = n * Ticks, n > 0,
               o.timeout < o.interval, o.interval < o.timeout + Ticks
        PROVE  PingConfig(o).interval = TimeoutInXray(PingConfig(o))
    <2>1. o.timeout > 0
      BY <1>1, TicksAssumption
    <2>2. ProbeTimeout(o) = o.timeout /\ ProbeInterval(o) = o.interval
      BY <1>1, <2>1 DEF ProbeTimeout, ProbeInterval
    <2>3. Seconds(o.timeout) = n /\ Seconds(o.interval) = n
      BY <1>1, TicksAssumption DEF Seconds
    <2> QED BY <1>1, <2>2, <2>3 DEF PingConfig, TimeoutInXray
  <1>2. ASSUME ProbeTimeout(o) < Ticks, ProbeInterval(o) < 6 * Ticks
        PROVE  PingConfig(o).interval <= TimeoutInXray(PingConfig(o))
    <2>1. ProbeTimeout(o) \in Nat /\ ProbeInterval(o) \in Nat
      BY TicksAssumption DEF ProbeTimeout, ProbeInterval
    <2>2. Seconds(ProbeTimeout(o)) = 0
      BY <1>2, <2>1, TicksAssumption DEF Seconds
    <2>3. Seconds(ProbeInterval(o)) \in 0..5
      BY <1>2, <2>1, TicksAssumption DEF Seconds
    <2> QED BY <2>2, <2>3 DEF PingConfig, TimeoutInXray
  <1> QED BY <1>1, <1>2

-----------------------------------------------------------------------------
(* Routes                                                                  *)

\* The outbound of the first rule that applies.
LEMMA FirstRule ==
  ASSUME NEW mode, NEW S \in SUBSET Nat, NEW i \in S, \A j \in S : i <= j
  PROVE  FirstOf(mode, S) = Rules(mode)[i].outbound
  <1>1. ASSUME NEW k \in S, \A j \in S : k <= j
        PROVE  k = i
    <2>1. k <= i /\ i <= k
      BY <1>1
    <2> QED BY <2>1
  <1>2. (CHOOSE k \in S : \A j \in S : k <= j) = i
    BY <1>1
  <1> QED BY <1>2 DEF FirstOf

LEMMA RulesOfGlobal ==
  /\ DOMAIN Rules("global") = 1..2
  /\ Rules("global")[1] = DirectRule /\ Rules("global")[2] = CatchAll
  BY DEF Rules, DirectRule, CatchAll, Rule

LEMMA RulesOfSmart ==
  /\ DOMAIN Rules("smart") = 1..4
  /\ Rules("smart")[1] = DirectRule /\ Rules("smart")[4] = CatchAll
  /\ Rules("smart")[2] = SmartRules[1] /\ Rules("smart")[3] = SmartRules[2]
  BY DEF Rules, DirectRule, CatchAll, SmartRules, Rule

\* In global mode an address known to be private goes straight out.
LEMMA GlobalRoute ==
  ASSUME NEW d, NEW resolved \in BOOLEAN
  PROVE  LET matching == Matching("global", d, resolved) IN
         /\ matching # {}
         /\ FirstOf("global", matching) =
              IF (d.name = "" \/ resolved) /\ d.address = "private" THEN "direct" ELSE "tunnel"
  <1> DEFINE matching == Matching("global", d, resolved)
  <1>1. matching = {i \in 1..2 : Applies(Rules("global")[i], d, resolved)}
    BY RulesOfGlobal DEF Matching
  <1>2. Applies(CatchAll, d, resolved)
    BY DEF Applies, CatchAll, Rule
  <1>3. Applies(DirectRule, d, resolved) <=> ((d.name = "" \/ resolved) /\ d.address = "private")
    BY DEF Applies, DirectRule, Rule
  <1>4. 2 \in matching /\ (1 \in matching <=> Applies(DirectRule, d, resolved))
    BY <1>1, <1>2, RulesOfGlobal
  <1>5. matching \in SUBSET Nat /\ matching \subseteq 1..2
    BY <1>1
  <1>6. Rules("global")[1].outbound = "direct" /\ Rules("global")[2].outbound = "tunnel"
    BY RulesOfGlobal DEF DirectRule, CatchAll, Rule
  <1> HIDE DEF matching
  <1>7. FirstOf("global", matching) = IF 1 \in matching THEN "direct" ELSE "tunnel"
    <2>1. CASE 1 \in matching
      BY <1>5, <1>6, <2>1, FirstRule
    <2>2. CASE 1 \notin matching
      <3>1. \A j \in matching : 2 <= j
        BY <1>5, <2>2
      <3>2. FirstOf("global", matching) = Rules("global")[2].outbound
        BY <1>4, <1>5, <3>1, FirstRule
      <3> QED BY <1>6, <2>2, <3>2
    <2> QED BY <2>1, <2>2
  <1> QED BY <1>3, <1>4, <1>7 DEF matching

\* In smart mode so does one on either mainland list.
LEMMA SmartRoute ==
  ASSUME NEW d, NEW resolved \in BOOLEAN
  PROVE  LET matching == Matching("smart", d, resolved)
             known    == d.name = "" \/ resolved
         IN  /\ matching # {}
             /\ FirstOf("smart", matching) =
                  IF \/ d.name = "mainland"
                     \/ known /\ d.address \in {"private", "mainland"}
                  THEN "direct" ELSE "tunnel"
  <1> DEFINE matching == Matching("smart", d, resolved)
             known    == d.name = "" \/ resolved
  <1>1. matching = {i \in 1..4 : Applies(Rules("smart")[i], d, resolved)}
    BY RulesOfSmart DEF Matching
  <1>2. Applies(CatchAll, d, resolved)
    BY DEF Applies, CatchAll, Rule
  <1>3. /\ Applies(DirectRule, d, resolved) <=> (known /\ d.address = "private")
        /\ Applies(SmartRules[1], d, resolved) <=> d.name = "mainland"
        /\ Applies(SmartRules[2], d, resolved) <=> (known /\ d.address = "mainland")
    BY DEF Applies, DirectRule, SmartRules, Rule
  <1>4. /\ 4 \in matching
        /\ 1 \in matching <=> (known /\ d.address = "private")
        /\ 2 \in matching <=> d.name = "mainland"
        /\ 3 \in matching <=> (known /\ d.address = "mainland")
    <2> HIDE DEF known
    <2>1. \A i \in 1..4 : i \in matching <=> Applies(Rules("smart")[i], d, resolved)
      BY <1>1
    <2> HIDE DEF matching
    <2> QED BY <1>2, <1>3, <2>1, RulesOfSmart
  <1>5. matching \in SUBSET Nat /\ matching \subseteq 1..4
    BY <1>1
  <1>6. /\ Rules("smart")[1].outbound = "direct" /\ Rules("smart")[2].outbound = "direct"
        /\ Rules("smart")[3].outbound = "direct" /\ Rules("smart")[4].outbound = "tunnel"
    BY RulesOfSmart DEF DirectRule, SmartRules, CatchAll, Rule
  <1> HIDE DEF matching, known
  <1>7. PICK i \in 1..4 : i \in matching /\ \A j \in matching : i <= j
    BY <1>4, <1>5
  <1>8. FirstOf("smart", matching) = Rules("smart")[i].outbound
    BY <1>5, <1>7, FirstRule
  <1>9. i = 4 <=> (1 \notin matching /\ 2 \notin matching /\ 3 \notin matching)
    BY <1>4, <1>5, <1>7
  <1>10. FirstOf("smart", matching) = IF i = 4 THEN "tunnel" ELSE "direct"
    BY <1>6, <1>7, <1>8
  <1> QED BY <1>4, <1>9, <1>10 DEF matching, known

LEMMA RoutesDocumented ==
  ASSUME Question, asked = "route", input.strategy # "IPIfNonMatch"
  PROVE  RoutesAsDocumented
  <1> DEFINE d        == input.to
             resolved == input.strategy = "IPOnDemand"
             matching == Matching(input.mode, d, resolved)
  <1>1. input.mode \in {"global", "smart"} /\ d \in Destinations /\ resolved \in BOOLEAN
    BY DEF Question, Routes
  <1>2. d.name \in {"", "mainland", "unlisted"} /\ d.address \in {"private", "mainland", "foreign"}
    BY <1>1 DEF Destinations
  <1>3. Route(input.mode, input.strategy, d) = FirstOf(input.mode, matching)
    BY <1>1, GlobalRoute, SmartRoute DEF Route
  <1> HIDE DEF d, resolved, matching
  <1>4. CASE input.mode = "global"
    <2>1. FirstOf(input.mode, matching) =
            IF (d.name = "" \/ resolved) /\ d.address = "private" THEN "direct" ELSE "tunnel"
      BY <1>1, <1>4, GlobalRoute DEF matching
    <2> QED BY <1>2, <1>3, <1>4, <2>1 DEF RoutesAsDocumented, d, resolved
  <1>5. CASE input.mode = "smart"
    <2>1. FirstOf(input.mode, matching) =
            IF \/ d.name = "mainland"
               \/ (d.name = "" \/ resolved) /\ d.address \in {"private", "mainland"}
            THEN "direct" ELSE "tunnel"
      BY <1>1, <1>5, SmartRoute DEF matching
    <2> QED BY <1>2, <1>3, <1>5, <2>1 DEF RoutesAsDocumented, d, resolved
  <1> QED BY <1>1, <1>4, <1>5

\* RoutesAsDocumented, for every mode, strategy and destination.
THEOREM RoutesStayAsDocumented == Spec => []RoutesAsDocumented
  <1>1. Question => RoutesAsDocumented
    BY RoutesDocumented DEF RoutesAsDocumented
  <1> QED BY <1>1, QuestionAsked, PTL

-----------------------------------------------------------------------------
(* Selection by name                                                       *)

LEMMA NamedGroup ==
  ASSUME NEW inv \in InventoryType,
         NEW n \in DOMAIN inv.entry_groups,
         \A m \in 1..(n - 1) : <<inv.entry_groups[n].name, inv.entry_groups[m].name>> \notin Occurs
  PROVE  SelectGroup(inv, inv.entry_groups[n].name) = {inv.entry_groups[n]}
  <1> DEFINE groups == inv.entry_groups
             name   == groups[n].name
             fits   == {i \in DOMAIN groups : name = "" \/ <<name, groups[i].name>> \in Occurs}
  <1>1. groups \in Seq(EntryGroup)
    BY DEF InventoryType
  <1> HIDE DEF groups
  <1>2. DOMAIN groups = 1..Len(groups) /\ Len(groups) \in Nat /\ n \in DOMAIN groups
    BY <1>1 DEF groups
  <1>3. \A i \in DOMAIN groups : groups[i] \in EntryGroup
    BY <1>1, <1>2
  <1>4. \A i \in DOMAIN groups : groups[i].name \in Text
    BY <1>3 DEF EntryGroup
  <1>5. n \in fits /\ fits \subseteq DOMAIN groups
    BY <1>2, <1>4, OccursAssumption
  <1>6. \A m \in fits : n <= m
    <2> SUFFICES ASSUME NEW m \in DOMAIN groups, m \in fits, ~(n <= m)
                 PROVE  FALSE
      BY <1>5
    <2>1. m \in 1..(n - 1)
      <3> HIDE DEF fits
      <3> QED BY <1>2
    <2>2. <<name, groups[m].name>> \in Occurs
      BY <1>4, OccursAssumption
    <2> QED BY <2>1, <2>2 DEF groups
  <1>7. Earliest(fits) = {n}
    <2> HIDE DEF fits
    <2>1. ASSUME NEW i \in fits, \A j \in fits : i <= j
          PROVE  i = n
      BY <1>2, <1>5, <1>6, <2>1
    <2> QED BY <1>5, <1>6, <2>1 DEF Earliest
  <1>8. SelectGroup(inv, name) = {groups[i] : i \in Earliest(fits)}
    BY DEF SelectGroup, groups
  <1> QED BY <1>7, <1>8 DEF groups

\* NamedGroupIsSelected, for any list of groups and any name.
THEOREM NamedGroupAlwaysSelected == Spec => []NamedGroupIsSelected
  <1>1. Question => NamedGroupIsSelected
    <2> SUFFICES ASSUME Question, asked = "poll"
                 PROVE  NamedGroupIsSelected
      BY DEF NamedGroupIsSelected
    <2>1. input[2] \in InventoryType
      BY DecisionsAssumption DEF Question
    <2> QED BY <2>1, NamedGroup DEF NamedGroupIsSelected
  <1> QED BY <1>1, QuestionAsked, PTL

-----------------------------------------------------------------------------
(* Order                                                                   *)

\* The predecessors in S of its members are finite sets, and a smallest of these
\* belongs to the least member.
LEMMA Least ==
  ASSUME NEW S \in SUBSET Nat, S # {}
  PROVE  \E n \in S : \A m \in S : n <= m
  <1> DEFINE Below(i) == {j \in S : j < i}
             F == {Below(i) : i \in S}
             R == StrictSubsetOrdering(S)
  <1>1. IsWellFoundedOn(R, FiniteSubsetsOf(S))
    BY FS_StrictSubsetOrderingWellFounded
  <1>2. F \subseteq FiniteSubsetsOf(S)
    <2>1. ASSUME NEW i \in S PROVE IsFiniteSet(Below(i))
      <3>1. i \in Nat /\ \A j \in S : j \in Nat
        OBVIOUS
      <3>2. Below(i) \in SUBSET (0..i)
        <4> SUFFICES ASSUME NEW k \in Below(i)
                     PROVE  k \in 0..i
          OBVIOUS
        <4>1. k \in S /\ k < i
          OBVIOUS
        <4> QED BY <3>1, <4>1
      <3>3. IsFiniteSet(0..i)
        BY <3>1, FS_Interval
      <3> HIDE DEF Below
      <3> QED BY <3>2, <3>3, FS_Subset
    <2> QED BY <2>1 DEF FiniteSubsetsOf
  <1>3. \E x \in F : \A y \in F : <<y, x>> \notin R
    <2> HIDE DEF R, F
    <2>1. F # {}
      BY DEF F
    <2> QED BY <1>1, <1>2, <2>1, WFMin
  <1>4. PICK i \in S : \A j \in S : <<Below(j), Below(i)>> \notin R
    BY <1>3
  <1>5. ASSUME NEW j \in S, j < i
        PROVE  FALSE
    <2>1. \A k \in S : k \in Nat
      OBVIOUS
    <2>2. Below(j) \subseteq Below(i)
      <3> SUFFICES ASSUME NEW k \in Below(j)
                   PROVE  k \in Below(i)
        OBVIOUS
      <3>1. k \in S /\ k < j
        OBVIOUS
      <3>2. k < i
        BY <1>5, <2>1, <3>1
      <3> QED BY <3>1, <3>2
    <2>3. j \in Below(i) /\ j \notin Below(j)
      BY <1>5, <2>1
    <2>4. Below(j) \in SUBSET S /\ Below(i) \in SUBSET S
      OBVIOUS
    <2> HIDE DEF Below
    <2>5. <<Below(j), Below(i)>> \in R
      BY <2>2, <2>3, <2>4 DEF StrictSubsetOrdering
    <2> QED BY <2>5, <1>4
  <1>6. \A j \in S : i <= j
    BY <1>5
  <1> QED BY <1>6

-----------------------------------------------------------------------------
(* Versions                                                                *)

Version == Seq(Nat \cup {Junk})

LEMMA ComponentType ==
  ASSUME NEW v \in Version, NEW i
  PROVE  Component(v, i) \in Nat /\ (i \notin DOMAIN v => Component(v, i) = 0)
  BY DEF Component, Version

\* One version is less than another when they agree up to some component, and it is
\* less there.
LEMMA LessAt ==
  ASSUME NEW a \in Version, NEW b \in Version
  PROVE  VersionLess(a, b) <=>
           \E i \in Nat : /\ Component(a, i) < Component(b, i)
                          /\ \A j \in Nat : j < i => Component(a, j) = Component(b, j)
  <1>1. \A v \in Version : DOMAIN v \subseteq Nat
    BY DEF Version
  <1>2. \A i : i \in Differing(a, b) <=> Component(a, i) # Component(b, i)
    BY ComponentType DEF Differing
  <1>3. Differing(a, b) \subseteq Nat
    BY <1>1 DEF Differing
  <1>4. \A i : Component(a, i) \in Nat /\ Component(b, i) \in Nat
    BY ComponentType
  <1>5. ASSUME NEW i \in Nat
        PROVE  (\A j \in Differing(a, b) : i <= j) <=>
               (\A j \in Nat : j < i => Component(a, j) = Component(b, j))
    BY <1>2, <1>3
  <1>6. \A i \in Nat : Component(a, i) < Component(b, i) => i \in Differing(a, b)
    BY <1>2, <1>4
  <1> QED BY <1>3, <1>5, <1>6 DEF VersionLess

\* Two versions neither of which is less agree in every component.
LEMMA SameComponents ==
  ASSUME NEW a \in Version, NEW b \in Version, ~VersionLess(a, b), ~VersionLess(b, a)
  PROVE  \A i \in Nat : Component(a, i) = Component(b, i)
  <1> DEFINE D == {i \in Nat : Component(a, i) # Component(b, i)}
  <1> SUFFICES ASSUME D # {}
               PROVE  FALSE
    OBVIOUS
  <1>1. PICK i \in D : \A j \in D : i <= j
    BY Least
  <1>2. Component(a, i) < Component(b, i) \/ Component(b, i) < Component(a, i)
    BY ComponentType
  <1>3. \A j \in Nat : j < i => Component(a, j) = Component(b, j)
    BY <1>1
  <1> QED BY <1>2, <1>3, LessAt

LEMMA VersionOrder ==
  ASSUME NEW a \in Version, NEW b \in Version, NEW c \in Version
  PROVE  /\ ~(VersionLess(a, b) /\ VersionLess(b, a))
         /\ VersionLess(a, b) /\ VersionLess(b, c) => VersionLess(a, c)
         /\ ~VersionLess(a, b) /\ ~VersionLess(b, a) => (VersionLess(a, c) <=> VersionLess(b, c))
  <1>1. \A v \in Version : \A i : Component(v, i) \in Nat
    BY ComponentType
  <1>2. ASSUME VersionLess(a, b), VersionLess(b, c)
        PROVE  VersionLess(a, c)
    <2>1. PICK i \in Nat : /\ Component(a, i) < Component(b, i)
                           /\ \A j \in Nat : j < i => Component(a, j) = Component(b, j)
      BY <1>2, LessAt
    <2>2. PICK k \in Nat : /\ Component(b, k) < Component(c, k)
                           /\ \A j \in Nat : j < k => Component(b, j) = Component(c, j)
      BY <1>2, LessAt
    <2>3. CASE i <= k
      <3>1. Component(a, i) < Component(c, i)
        BY <1>1, <2>1, <2>2, <2>3
      <3>2. \A j \in Nat : j < i => Component(a, j) = Component(c, j)
        BY <2>1, <2>2, <2>3
      <3> QED BY <3>1, <3>2, LessAt
    <2>4. CASE k < i
      <3>1. Component(a, k) < Component(c, k)
        BY <2>1, <2>2, <2>4
      <3>2. \A j \in Nat : j < k => Component(a, j) = Component(c, j)
        BY <2>1, <2>2, <2>4
      <3> QED BY <3>1, <3>2, LessAt
    <2> QED BY <2>3, <2>4
  <1>3. ASSUME VersionLess(a, b), VersionLess(b, a)
        PROVE  FALSE
    <2>1. PICK i \in Nat : /\ Component(a, i) < Component(b, i)
                           /\ \A j \in Nat : j < i => Component(a, j) = Component(b, j)
      BY <1>3, LessAt
    <2>2. PICK k \in Nat : /\ Component(b, k) < Component(a, k)
                           /\ \A j \in Nat : j < k => Component(b, j) = Component(a, j)
      BY <1>3, LessAt
    <2>3. i < k \/ k < i \/ i = k
      OBVIOUS
    <2> QED BY <1>1, <2>1, <2>2, <2>3
  <1>4. ASSUME ~VersionLess(a, b), ~VersionLess(b, a)
        PROVE  VersionLess(a, c) <=> VersionLess(b, c)
    BY <1>4, SameComponents, LessAt
  <1> QED BY <1>2, <1>3, <1>4

\* No component of a repaired version is less, and the first one in which it differs
\* from a version less than the malformed one is greater than there.
LEMMA RepairedVersion ==
  ASSUME NEW a \in Version, NEW b \in Version, NEW c \in Version,
         VersionLess(a, b), Repairs(c, b)
  PROVE  VersionLess(a, c)
  <1>1. \A v \in Version : \A i : Component(v, i) \in Nat
    BY ComponentType
  <1>2. \A i : Component(b, i) <= Component(c, i)
    <2> SUFFICES ASSUME NEW i
                 PROVE  Component(b, i) <= Component(c, i)
      OBVIOUS
    <2>1. CASE i \in DOMAIN b /\ b[i] # Junk
      BY <2>1, <1>1 DEF Repairs, Component
    <2>2. CASE ~(i \in DOMAIN b /\ b[i] # Junk)
      <3>1. Component(b, i) = 0
        BY <2>2 DEF Component
      <3> QED BY <1>1, <3>1
    <2> QED BY <2>1, <2>2
  <1>3. PICK i \in Nat : /\ Component(a, i) < Component(b, i)
                         /\ \A j \in Nat : j < i => Component(a, j) = Component(b, j)
    BY LessAt
  <1> DEFINE D == {j \in Nat : Component(a, j) # Component(c, j)}
  <1>4. i \in D
    BY <1>1, <1>2, <1>3
  <1>5. PICK k \in D : \A j \in D : k <= j
    BY <1>4, Least
  <1>6. k <= i
    BY <1>4, <1>5
  <1>7. Component(a, k) < Component(c, k)
    <2>1. CASE k = i
      BY <1>1, <1>2, <1>3, <2>1
    <2>2. CASE k < i
      <3>1. Component(a, k) = Component(b, k) /\ Component(a, k) # Component(c, k)
        BY <1>3, <1>5, <2>2
      <3> QED BY <1>1, <1>2, <3>1
    <2> QED BY <1>6, <2>1, <2>2
  <1>8. \A j \in Nat : j < k => Component(a, j) = Component(c, j)
    BY <1>5
  <1> QED BY <1>7, <1>8, LessAt

\* A malformed version is newer than a real one when a component before the malformed
\* one is greater and those before that are equal, against version.go:28-29: 0.3.rc is
\* newer than 0.2.5 (version.go:33-37).
THEOREM MalformedMayBeNewer ==
  ASSUME NEW a \in Version, NEW b \in Version, NEW k \in DOMAIN b, b[k] = Junk,
         NEW i \in Nat, i < k, Component(a, i) < Component(b, i),
         \A j \in Nat : j < i => Component(a, j) = Component(b, j)
  PROVE  VersionLess(a, b)
  BY LessAt

\* VersionsAreOrdered, for versions of any length.
THEOREM VersionsStayOrdered == Spec => []VersionsAreOrdered
  <1>1. Question => VersionsAreOrdered
    <2> SUFFICES ASSUME Question, asked = "version"
                 PROVE  VersionsAreOrdered
      BY DEF VersionsAreOrdered
    <2>1. input[1] \in Version /\ input[2] \in Version /\ SomeVersions \subseteq Version
      BY DecisionsAssumption DEF Question, Version
    <2>2. \A c \in SomeVersions :
             VersionLess(input[1], input[2]) /\ Repairs(c, input[2]) => VersionLess(input[1], c)
      BY <2>1, RepairedVersion
    <2> QED BY <2>1, <2>2, VersionOrder DEF VersionsAreOrdered
  <1> QED BY <1>1, QuestionAsked, PTL

-----------------------------------------------------------------------------
(* Comparison of inventories                                               *)

Places(s, x) == {i \in DOMAIN s : s[i] = x}

\* Occurrences can be matched when one list has each of its elements as often as
\* another.
LEMMA MatchOccurrences ==
  ASSUME NEW T, NEW a \in Seq(T), NEW b \in Seq(T),
         \A x \in Elements(a) : Cardinality(Places(a, x)) = Cardinality(Places(b, x))
  PROVE  \E f \in Injection(DOMAIN a, DOMAIN b) : \A i \in DOMAIN a : b[f[i]] = a[i]
  <1> DEFINE g(x) == CHOOSE h : h \in Bijection(Places(a, x), Places(b, x))
             f    == [i \in DOMAIN a |-> g(a[i])[i]]
  <1>1. IsFiniteSet(DOMAIN a) /\ IsFiniteSet(DOMAIN b)
    BY FS_Interval
  <1>2. ASSUME NEW x \in Elements(a)
        PROVE  g(x) \in Bijection(Places(a, x), Places(b, x))
    <2>1. IsFiniteSet(Places(a, x)) /\ IsFiniteSet(Places(b, x))
      BY <1>1, FS_Subset DEF Places
    <2>2. ExistsBijection(Places(a, x), Places(b, x))
      BY <2>1, FS_SameCardinalityBij
    <2>3. \E h : h \in Bijection(Places(a, x), Places(b, x))
      BY <2>2, Fun_ExistsBij
    <2> QED BY <2>3
  <1> HIDE DEF g
  <1>3. ASSUME NEW i \in DOMAIN a
        PROVE  /\ a[i] \in Elements(a) /\ i \in Places(a, a[i])
               /\ f[i] \in DOMAIN b /\ b[f[i]] = a[i]
    <2>1. a[i] \in Elements(a) /\ i \in Places(a, a[i])
      BY DEF Elements, Places
    <2>2. g(a[i]) \in [Places(a, a[i]) -> Places(b, a[i])]
      BY <1>2, <2>1, Fun_BijectionProperties
    <2>3. g(a[i])[i] \in Places(b, a[i])
      BY <2>1, <2>2
    <2> QED BY <2>1, <2>3 DEF Places
  <1>4. f \in [DOMAIN a -> DOMAIN b]
    BY <1>3
  <1>5. ASSUME NEW i \in DOMAIN a, NEW j \in DOMAIN a, f[i] = f[j]
        PROVE  i = j
    <2>1. a[i] = a[j]
      BY <1>3, <1>5
    <2>2. g(a[i])[i] = g(a[i])[j]
      BY <1>5, <2>1
    <2>3. i \in Places(a, a[i]) /\ j \in Places(a, a[i])
      BY <1>3, <2>1
    <2>4. g(a[i]) \in Bijection(Places(a, a[i]), Places(b, a[i]))
      BY <1>2, <1>3
    <2> QED BY <2>2, <2>3, <2>4, Fun_BijectionProperties
  <1>6. f \in Injection(DOMAIN a, DOMAIN b)
    <2> HIDE DEF f
    <2> QED BY <1>4, <1>5, Fun_IsInj
  <1> QED BY <1>3, <1>6

LEMMA IndexSet ==
  ASSUME NEW n \in Nat
  PROVE  IsFiniteSet(1..n) /\ Cardinality(1..n) = n
  BY FS_Interval

\* sameAddresses is equality of the pools as bags.
LEMMA SamePool ==
  ASSUME NEW T, NEW a \in Seq(T), NEW b \in Seq(T)
  PROVE  SameAddresses(a, b) <=> PoolOf(a) = PoolOf(b)
  <1>1. /\ DOMAIN a = 1..Len(a) /\ Len(a) \in Nat
        /\ DOMAIN b = 1..Len(b) /\ Len(b) \in Nat
    OBVIOUS
  <1>2. /\ IsFiniteSet(DOMAIN a) /\ Cardinality(DOMAIN a) = Len(a)
        /\ IsFiniteSet(DOMAIN b) /\ Cardinality(DOMAIN b) = Len(b)
    BY <1>1, IndexSet
  <1>3. /\ PoolOf(a) = {<<x, Cardinality(Places(a, x))>> : x \in Elements(a)}
        /\ PoolOf(b) = {<<x, Cardinality(Places(b, x))>> : x \in Elements(b)}
    BY DEF PoolOf, Places
  <1>4. SameAddresses(a, b) <=>
          /\ Len(a) = Len(b)
          /\ \A x \in Elements(a) : Cardinality(Places(a, x)) = Cardinality(Places(b, x))
    BY DEF SameAddresses, Places
  <1>5. ASSUME SameAddresses(a, b)
        PROVE  PoolOf(a) = PoolOf(b)
    <2>1. \A x \in Elements(a) : Cardinality(Places(a, x)) = Cardinality(Places(b, x))
      BY <1>4, <1>5
    <2>2. PICK f \in Injection(DOMAIN a, DOMAIN b) : \A i \in DOMAIN a : b[f[i]] = a[i]
      BY <2>1, MatchOccurrences
    <2>3. f \in Surjection(DOMAIN a, DOMAIN b)
      BY <1>2, <1>4, <1>5, FS_Injection
    <2>4. f \in [DOMAIN a -> DOMAIN b] /\ \A k \in DOMAIN b : \E i \in DOMAIN a : f[i] = k
      BY <2>3, Fun_SurjectionProperties
    <2>5. Elements(a) = Elements(b)
      BY <2>2, <2>4 DEF Elements
    <2> QED BY <1>3, <2>1, <2>5
  <1>6. ASSUME PoolOf(a) = PoolOf(b)
        PROVE  SameAddresses(a, b)
    <2> DEFINE ca(x) == Cardinality(Places(a, x))
               cb(x) == Cardinality(Places(b, x))
    <2>1. {<<x, ca(x)>> : x \in Elements(a)} = {<<x, cb(x)>> : x \in Elements(b)}
      BY <1>3, <1>6
    <2> HIDE DEF ca, cb
    <2>2. \A x \in Elements(a) : x \in Elements(b) /\ ca(x) = cb(x)
      <3> SUFFICES ASSUME NEW x \in Elements(a)
                   PROVE  x \in Elements(b) /\ ca(x) = cb(x)
        OBVIOUS
      <3>1. <<x, ca(x)>> \in {<<y, cb(y)>> : y \in Elements(b)}
        BY <2>1
      <3> QED BY <3>1
    <2>3. \A x \in Elements(b) : x \in Elements(a) /\ cb(x) = ca(x)
      <3> SUFFICES ASSUME NEW x \in Elements(b)
                   PROVE  x \in Elements(a) /\ cb(x) = ca(x)
        OBVIOUS
      <3>1. <<x, cb(x)>> \in {<<y, ca(y)>> : y \in Elements(a)}
        BY <2>1
      <3> QED BY <3>1
    <2>4. /\ \A x \in Elements(a) : Cardinality(Places(a, x)) = Cardinality(Places(b, x))
          /\ \A x \in Elements(b) : Cardinality(Places(b, x)) = Cardinality(Places(a, x))
      BY <2>2, <2>3 DEF ca, cb
    <2>5. PICK f \in Injection(DOMAIN a, DOMAIN b) : \A i \in DOMAIN a : b[f[i]] = a[i]
      BY <2>4, MatchOccurrences
    <2>6. PICK h \in Injection(DOMAIN b, DOMAIN a) : \A i \in DOMAIN b : a[h[i]] = b[i]
      BY <2>4, MatchOccurrences
    <2>7. Len(a) <= Len(b) /\ Len(b) <= Len(a)
      BY <1>2, <2>5, <2>6, FS_Injection
    <2>8. Len(a) = Len(b)
      <3>1. Len(a) \in Nat /\ Len(b) \in Nat
        BY <1>1
      <3> QED BY <2>7, <3>1
    <2> QED BY <1>4, <2>4, <2>8
  <1> QED BY <1>5, <1>6

LEMMA Greatest ==
  ASSUME NEW n \in Nat, NEW S \in SUBSET (1..n), S # {}
  PROVE  \E i \in S : \A j \in S : j <= i
  <1> DEFINE D == {n - i : i \in S}
  <1>1. D \in SUBSET Nat /\ D # {}
    <2>1. \A i \in S : n - i \in Nat
      OBVIOUS
    <2> QED BY <2>1
  <1>2. PICK d \in D : \A e \in D : d <= e
    <2> HIDE DEF D
    <2> QED BY <1>1, Least
  <1>3. PICK i \in S : d = n - i
    OBVIOUS
  <1>4. \A j \in S : n - i <= n - j
    BY <1>2, <1>3
  <1> QED BY <1>4

LEMMA LatestIsLast ==
  ASSUME NEW n \in Nat, NEW S \in SUBSET (1..n), S # {}
  PROVE  Latest(S) \in S /\ \A j \in S : j <= Latest(S)
  BY Greatest DEF Latest

Named(list, name, x) == {i \in DOMAIN list : name[list[i]] = x}
LastNamed(list, name) ==
  {k \in DOMAIN list : \A m \in DOMAIN list : m > k => name[list[m]] # name[list[k]]}

\* What hostsBySlug and groupsByName keep are the entries no later one replaces.
LEMMA ByName ==
  ASSUME NEW T, NEW list \in Seq(T), NEW name \in [T -> Text]
  PROVE  /\ \A x \in {name[e] : e \in Elements(list)} :
              /\ Latest(Named(list, name, x)) \in LastNamed(list, name)
              /\ name[list[Latest(Named(list, name, x))]] = x
         /\ \A k \in LastNamed(list, name) : Latest(Named(list, name, name[list[k]])) = k
  <1> DEFINE S(x)  == Named(list, name, x)
             At(x) == Latest(S(x))
             Kept  == LastNamed(list, name)
  <1> USE DEF Named, LastNamed
  <1>1. DOMAIN list = 1..Len(list) /\ Len(list) \in Nat
    OBVIOUS
  <1>2. ASSUME NEW x, S(x) # {}
        PROVE  At(x) \in S(x) /\ \A j \in S(x) : j <= At(x)
    <2>1. S(x) \in SUBSET (1..Len(list))
      BY <1>1
    <2> HIDE DEF S
    <2> QED BY <1>1, <1>2, <2>1, LatestIsLast
  <1>3. ASSUME NEW x \in {name[e] : e \in Elements(list)}
        PROVE  At(x) \in Kept /\ name[list[At(x)]] = x
    <2>1. S(x) # {}
      BY DEF Elements
    <2>2. At(x) \in S(x) /\ \A j \in S(x) : j <= At(x)
      BY <1>2, <2>1
    <2>3. At(x) \in DOMAIN list /\ name[list[At(x)]] = x
      BY <2>2
    <2> HIDE DEF At
    <2>4. \A m \in DOMAIN list : m > At(x) => name[list[m]] # x
      BY <1>1, <2>2, <2>3
    <2> QED BY <2>3, <2>4
  <1>4. ASSUME NEW k \in Kept
        PROVE  At(name[list[k]]) = k
    <2> DEFINE x == name[list[k]]
    <2>1. k \in S(x)
      OBVIOUS
    <2>2. At(x) \in S(x) /\ \A j \in S(x) : j <= At(x)
      BY <1>2, <2>1
    <2>3. At(x) \in DOMAIN list /\ name[list[At(x)]] = x
      BY <2>2
    <2>4. k <= At(x)
      BY <2>1, <2>2
    <2>5. ~(At(x) > k)
      <3> HIDE DEF At
      <3> QED BY <2>3
    <2> HIDE DEF At
    <2> QED BY <1>1, <2>3, <2>4, <2>5
  <1> QED BY <1>3, <1>4

\* The exits a comparison sees are those it keeps by slug.
LEMMA ExitsKept ==
  ASSUME NEW inv \in InventoryType
  PROVE  /\ \A s \in Slugs(inv) : HostBySlug(inv, s) \in Host
         /\ ExitsOf(inv) = {<<s, HostBySlug(inv, s).online, HostBySlug(inv, s).key>> : s \in Slugs(inv)}
  <1> DEFINE list  == inv.hosts
             name  == [h \in Host |-> h.slug]
             S(x)  == {i \in DOMAIN list : list[i].slug = x}
             At(x) == Latest(S(x))
             Kept  == {k \in DOMAIN list : \A m \in DOMAIN list : m > k => list[m].slug # list[k].slug}
  <1>1. list \in Seq(Host) /\ name \in [Host -> Text]
    BY DEF InventoryType, Host
  <1>2. \A i \in DOMAIN list : list[i] \in Host /\ name[list[i]] = list[i].slug
    BY <1>1
  <1>3. /\ \A x : Named(list, name, x) = S(x)
        /\ LastNamed(list, name) = Kept
        /\ {name[e] : e \in Elements(list)} = Slugs(inv)
    BY <1>2 DEF Elements, Slugs, Named, LastNamed
  <1>4. /\ \A x \in Slugs(inv) : At(x) \in Kept /\ list[At(x)].slug = x
        /\ \A k \in Kept : At(list[k].slug) = k
    <2> HIDE DEF list, name
    <2>1. Kept \subseteq DOMAIN list
      OBVIOUS
    <2> HIDE DEF S, Kept
    <2> QED BY <1>1, <1>2, <1>3, <2>1, ByName
  <1>5. \A x : HostBySlug(inv, x) = list[At(x)]
    BY DEF HostBySlug
  <1>6. ExitsOf(inv) = {<<list[k].slug, list[k].online, list[k].key>> : k \in Kept}
    BY DEF ExitsOf
  <1>7. \A k \in Kept : k \in DOMAIN list /\ list[k].slug \in Slugs(inv)
    BY DEF Slugs, Elements
  <1> HIDE DEF list, S, At, Kept
  <1>8. \A x \in Slugs(inv) : HostBySlug(inv, x) \in Host
    BY <1>2, <1>4, <1>5, <1>7
  <1>9. {<<list[k].slug, list[k].online, list[k].key>> : k \in Kept}
          = {<<x, list[At(x)].online, list[At(x)].key>> : x \in Slugs(inv)}
    BY <1>4, <1>7
  <1> QED BY <1>5, <1>6, <1>8, <1>9

LEMMA PoolsKept ==
  ASSUME NEW inv \in InventoryType
  PROVE  /\ \A n \in Names(inv) : GroupByName(inv, n) \in EntryGroup
         /\ PoolsOf(inv) = {<<n, PoolOf(GroupByName(inv, n).ipv4)>> : n \in Names(inv)}
  <1> DEFINE list  == inv.entry_groups
             name  == [g \in EntryGroup |-> g.name]
             S(x)  == {i \in DOMAIN list : list[i].name = x}
             At(x) == Latest(S(x))
             Kept  == {k \in DOMAIN list : \A m \in DOMAIN list : m > k => list[m].name # list[k].name}
  <1>1. list \in Seq(EntryGroup) /\ name \in [EntryGroup -> Text]
    BY DEF InventoryType, EntryGroup
  <1>2. \A i \in DOMAIN list : list[i] \in EntryGroup /\ name[list[i]] = list[i].name
    BY <1>1
  <1>3. /\ \A x : Named(list, name, x) = S(x)
        /\ LastNamed(list, name) = Kept
        /\ {name[e] : e \in Elements(list)} = Names(inv)
    BY <1>2 DEF Elements, Names, Named, LastNamed
  <1>4. /\ \A x \in Names(inv) : At(x) \in Kept /\ list[At(x)].name = x
        /\ \A k \in Kept : At(list[k].name) = k
    <2> HIDE DEF list, name
    <2>1. Kept \subseteq DOMAIN list
      OBVIOUS
    <2> HIDE DEF S, Kept
    <2> QED BY <1>1, <1>2, <1>3, <2>1, ByName
  <1>5. \A x : GroupByName(inv, x) = list[At(x)]
    BY DEF GroupByName
  <1>6. PoolsOf(inv) = {<<list[k].name, PoolOf(list[k].ipv4)>> : k \in Kept}
    BY DEF PoolsOf
  <1>7. \A k \in Kept : k \in DOMAIN list /\ list[k].name \in Names(inv)
    BY DEF Names, Elements
  <1> HIDE DEF list, S, At, Kept
  <1>8. \A x \in Names(inv) : GroupByName(inv, x) \in EntryGroup
    BY <1>2, <1>4, <1>5, <1>7
  <1>9. {<<list[k].name, PoolOf(list[k].ipv4)>> : k \in Kept}
          = {<<x, PoolOf(list[At(x)].ipv4)>> : x \in Names(inv)}
    BY <1>4, <1>7
  <1> QED BY <1>5, <1>6, <1>8, <1>9

LEMMA EmptyComparison ==
  ASSUME NEW prev, NEW next
  PROVE  Empty(Compare(prev, next)) <=>
           /\ Slugs(prev) = Slugs(next)
           /\ \A s \in Slugs(prev) :
                /\ HostBySlug(prev, s).online <=> HostBySlug(next, s).online
                /\ HostBySlug(prev, s).key = HostBySlug(next, s).key
           /\ Names(prev) = Names(next)
           /\ \A n \in Names(prev) :
                SameAddresses(GroupByName(prev, n).ipv4, GroupByName(next, n).ipv4)
           /\ RootsOf(prev) = RootsOf(next)
  <1> DEFINE c == Compare(prev, next)
  <1>1. Empty(c) <=>
          /\ c.HostsAdded = {} /\ c.HostsRemoved = {} /\ c.WentOnline = {} /\ c.WentOffline = {}
          /\ c.KeysRotated = {} /\ c.GroupsAdded = {} /\ c.GroupsRemoved = {}
          /\ c.PoolsChanged = {} /\ c.RootsAdded = {} /\ c.RootsRemoved = {}
    BY DEF Empty, Compare
  <1>2. c.HostsAdded = {} /\ c.HostsRemoved = {} <=> Slugs(prev) = Slugs(next)
    BY DEF Compare
  <1>3. ASSUME Slugs(prev) = Slugs(next)
        PROVE  c.WentOnline = {} /\ c.WentOffline = {} /\ c.KeysRotated = {} <=>
                 \A s \in Slugs(prev) :
                   /\ HostBySlug(prev, s).online <=> HostBySlug(next, s).online
                   /\ HostBySlug(prev, s).key = HostBySlug(next, s).key
    BY <1>3 DEF Compare
  <1>4. c.GroupsAdded = {} /\ c.GroupsRemoved = {} <=> Names(prev) = Names(next)
    BY DEF Compare
  <1>5. ASSUME Names(prev) = Names(next)
        PROVE  c.PoolsChanged = {} <=>
                 \A n \in Names(prev) :
                   SameAddresses(GroupByName(prev, n).ipv4, GroupByName(next, n).ipv4)
    BY <1>5 DEF Compare
  <1>6. c.RootsAdded = {} /\ c.RootsRemoved = {} <=> RootsOf(prev) = RootsOf(next)
    BY DEF Compare, RootsOf
  <1> HIDE DEF c
  <1> QED BY <1>1, <1>2, <1>3, <1>4, <1>5, <1>6 DEF c

\* AnnouncesWhatMoved, for inventories of any length, with repeated names or without.
THEOREM AnnouncesExactlyWhatMoved == Spec => []AnnouncesWhatMoved
  <1>1. ASSUME NEW prev \in InventoryType, NEW next \in InventoryType
        PROVE  Empty(Compare(prev, next)) <=>
                 ExitsOf(prev) = ExitsOf(next) /\ PoolsOf(prev) = PoolsOf(next) /\ RootsOf(prev) = RootsOf(next)
    <2>1. ExitsOf(prev) = ExitsOf(next) <=>
            /\ Slugs(prev) = Slugs(next)
            /\ \A s \in Slugs(prev) :
                 /\ HostBySlug(prev, s).online <=> HostBySlug(next, s).online
                 /\ HostBySlug(prev, s).key = HostBySlug(next, s).key
      <3> DEFINE on(i, s) == HostBySlug(i, s).online
                 key(i, s) == HostBySlug(i, s).key
      <3>1. /\ ExitsOf(prev) = {<<s, on(prev, s), key(prev, s)>> : s \in Slugs(prev)}
            /\ ExitsOf(next) = {<<s, on(next, s), key(next, s)>> : s \in Slugs(next)}
            /\ \A s \in Slugs(prev) : on(prev, s) \in BOOLEAN
            /\ \A s \in Slugs(next) : on(next, s) \in BOOLEAN
        BY ExitsKept DEF Host
      <3> HIDE DEF on, key
      <3>2. ASSUME ExitsOf(prev) = ExitsOf(next)
            PROVE  Slugs(prev) = Slugs(next) /\
                   \A s \in Slugs(prev) : on(prev, s) = on(next, s) /\ key(prev, s) = key(next, s)
        <4>1. \A s \in Slugs(prev) :
                <<s, on(prev, s), key(prev, s)>> \in {<<x, on(next, x), key(next, x)>> : x \in Slugs(next)}
          BY <3>1, <3>2
        <4>2. \A s \in Slugs(next) :
                <<s, on(next, s), key(next, s)>> \in {<<x, on(prev, x), key(prev, x)>> : x \in Slugs(prev)}
          BY <3>1, <3>2
        <4> QED BY <4>1, <4>2
      <3>3. ASSUME Slugs(prev) = Slugs(next),
                   \A s \in Slugs(prev) : (on(prev, s) <=> on(next, s)) /\ key(prev, s) = key(next, s)
            PROVE  ExitsOf(prev) = ExitsOf(next)
        <4>1. \A s \in Slugs(prev) : on(prev, s) = on(next, s) /\ key(prev, s) = key(next, s)
          BY <3>1, <3>3
        <4> QED BY <3>1, <3>3, <4>1
      <3> QED BY <3>2, <3>3 DEF on, key
    <2>2. PoolsOf(prev) = PoolsOf(next) <=>
            /\ Names(prev) = Names(next)
            /\ \A n \in Names(prev) :
                 SameAddresses(GroupByName(prev, n).ipv4, GroupByName(next, n).ipv4)
      <3> DEFINE pool(i, n) == PoolOf(GroupByName(i, n).ipv4)
      <3>1. /\ PoolsOf(prev) = {<<n, pool(prev, n)>> : n \in Names(prev)}
            /\ PoolsOf(next) = {<<n, pool(next, n)>> : n \in Names(next)}
        BY PoolsKept
      <3>2. ASSUME NEW n \in Names(prev), n \in Names(next)
            PROVE  SameAddresses(GroupByName(prev, n).ipv4, GroupByName(next, n).ipv4) <=>
                     pool(prev, n) = pool(next, n)
        <4>1. GroupByName(prev, n).ipv4 \in Seq(Text) /\ GroupByName(next, n).ipv4 \in Seq(Text)
          BY <3>2, PoolsKept DEF EntryGroup
        <4> QED BY <4>1, SamePool
      <3> HIDE DEF pool
      <3>3. PoolsOf(prev) = PoolsOf(next) <=>
              Names(prev) = Names(next) /\ \A n \in Names(prev) : pool(prev, n) = pool(next, n)
        <4>1. ASSUME PoolsOf(prev) = PoolsOf(next)
              PROVE  Names(prev) = Names(next) /\ \A n \in Names(prev) : pool(prev, n) = pool(next, n)
          <5>1. \A n \in Names(prev) : <<n, pool(prev, n)>> \in {<<x, pool(next, x)>> : x \in Names(next)}
            BY <3>1, <4>1
          <5>2. \A n \in Names(next) : <<n, pool(next, n)>> \in {<<x, pool(prev, x)>> : x \in Names(prev)}
            BY <3>1, <4>1
          <5> QED BY <5>1, <5>2
        <4> QED BY <3>1, <4>1
      <3> QED BY <3>2, <3>3
    <2> QED BY <2>1, <2>2, EmptyComparison
  <1>2. Question => AnnouncesWhatMoved
    <2> SUFFICES ASSUME Question, asked = "poll"
                 PROVE  AnnouncesWhatMoved
      BY DEF AnnouncesWhatMoved
    <2>1. input[1] \in InventoryType /\ input[2] \in InventoryType
      BY DecisionsAssumption DEF Question
    <2> QED BY <1>1, <2>1 DEF AnnouncesWhatMoved
  <1> QED BY <1>2, QuestionAsked, PTL

-----------------------------------------------------------------------------
(* Ranking                                                                 *)

StrictTotal(S, R) ==
  /\ \A x \in S : <<x, x>> \notin R
  /\ \A x, y \in S : x = y \/ <<x, y>> \in R \/ <<y, x>> \in R
  /\ \A x, y, z \in S : <<x, y>> \in R /\ <<y, z>> \in R => <<x, z>> \in R

\* Counting predecessors lists every member once, in order.
LEMMA InOrderLists ==
  ASSUME NEW S, IsFiniteSet(S), NEW R, StrictTotal(S, R)
  PROVE  /\ Cardinality(S) \in Nat
         /\ InOrder(S, R) \in [1..Cardinality(S) -> S]
         /\ \A x \in S : \E n \in 1..Cardinality(S) : InOrder(S, R)[n] = x
         /\ \A m, n \in 1..Cardinality(S) : m < n <=> <<InOrder(S, R)[m], InOrder(S, R)[n]>> \in R
  <1> DEFINE N        == Cardinality(S)
             Below(x) == {j \in S : <<j, x>> \in R}
             r        == [x \in S |-> Cardinality(Below(x)) + 1]
             o        == InOrder(S, R)
  <1>1. N \in Nat
    BY FS_CardinalityType
  <1>2. ASSUME NEW x \in S
        PROVE  IsFiniteSet(Below(x)) /\ Cardinality(Below(x)) \in Nat /\ x \notin Below(x)
    <2>1. Below(x) \in SUBSET S /\ x \notin Below(x)
      BY DEF StrictTotal
    <2> HIDE DEF Below
    <2> QED BY <2>1, FS_Subset, FS_CardinalityType
  <1>3. ASSUME NEW x \in S, NEW T \in SUBSET S, Below(x) \cup {x} \subseteq T
        PROVE  r[x] <= Cardinality(T)
    <2> HIDE DEF Below
    <2>1. IsFiniteSet(T)
      BY FS_Subset
    <2>2. Cardinality(Below(x) \cup {x}) = Cardinality(Below(x)) + 1
      BY <1>2, FS_AddElement
    <2>3. Cardinality(Below(x) \cup {x}) <= Cardinality(T)
      BY <1>3, <2>1, FS_Subset
    <2> QED BY <2>2, <2>3
  <1>4. ASSUME NEW x \in S, NEW y \in S, <<x, y>> \in R
        PROVE  r[x] < r[y]
    <2>1. Below(x) \cup {x} \subseteq Below(y) /\ Below(y) \in SUBSET S
      BY <1>4 DEF StrictTotal
    <2> HIDE DEF Below
    <2>2. r[x] <= Cardinality(Below(y))
      BY <1>3, <2>1
    <2> QED BY <1>2, <2>2
  <1>5. r \in [S -> 1..N]
    <2> SUFFICES ASSUME NEW x \in S
                 PROVE  Cardinality(Below(x)) + 1 \in 1..N
      OBVIOUS
    <2>1. Below(x) \cup {x} \subseteq S
      OBVIOUS
    <2> HIDE DEF Below
    <2>2. r[x] <= N
      BY <1>3, <2>1
    <2> QED BY <1>1, <1>2, <2>2
  <1> HIDE DEF r, N
  <1>6. \A x, y \in S : r[x] = r[y] => x = y
    <2> SUFFICES ASSUME NEW x \in S, NEW y \in S, x # y
                 PROVE  r[x] # r[y]
      OBVIOUS
    <2>1. r[x] \in Nat /\ r[y] \in Nat
      BY <1>1, <1>5
    <2>2. <<x, y>> \in R \/ <<y, x>> \in R
      BY DEF StrictTotal
    <2> QED BY <1>4, <2>1, <2>2
  <1>7. \A n \in 1..N : \E x \in S : r[x] = n
    <2>1. r \in Injection(S, 1..N)
      BY <1>5, <1>6, Fun_IsInj
    <2>2. IsFiniteSet(1..N) /\ Cardinality(S) = Cardinality(1..N)
      BY <1>1, IndexSet DEF N
    <2>3. r \in Surjection(S, 1..N)
      BY <2>1, <2>2, FS_Injection
    <2> QED BY <2>3, Fun_SurjectionProperties
  <1>8. ASSUME NEW n \in 1..N
        PROVE  o[n] \in S /\ r[o[n]] = n
    <2> HIDE DEF Below
    <2>1. \A x \in S : Cardinality(Below(x)) = n - 1 <=> r[x] = n
      BY <1>1, <1>2 DEF r
    <2>2. \E x \in S : Cardinality(Below(x)) = n - 1
      BY <1>7, <2>1
    <2>3. o[n] = CHOOSE x \in S : Cardinality(Below(x)) = n - 1
      BY DEF InOrder, N, Below
    <2> QED BY <2>1, <2>2, <2>3
  <1>9. o \in [1..N -> S]
    <2> DEFINE At(n) == CHOOSE i \in S : Cardinality({j \in S : <<j, i>> \in R}) = n - 1
    <2>1. o = [n \in 1..N |-> At(n)]
      BY DEF InOrder, N
    <2> HIDE DEF o, At
    <2> QED BY <1>8, <2>1
  <1> HIDE DEF o
  <1>10. \A x \in S : \E n \in 1..N : o[n] = x
    BY <1>5, <1>6, <1>8
  <1>11. ASSUME NEW m \in 1..N, NEW n \in 1..N
         PROVE  m < n <=> <<o[m], o[n]>> \in R
    <2>1. o[m] \in S /\ o[n] \in S /\ r[o[m]] = m /\ r[o[n]] = n
      BY <1>8
    <2>2. <<o[m], o[n]>> \in R => m < n
      BY <1>4, <2>1
    <2>3. <<o[n], o[m]>> \in R => n < m
      BY <1>4, <2>1
    <2>4. o[m] = o[n] \/ <<o[m], o[n]>> \in R \/ <<o[n], o[m]>> \in R
      BY <2>1 DEF StrictTotal
    <2>5. o[m] = o[n] => m = n
      BY <2>1
    <2> QED BY <1>1, <2>2, <2>3, <2>4, <2>5
  <1> QED BY <1>1, <1>9, <1>10, <1>11 DEF N, o

Pool == Seq([ok : BOOLEAN, rtt : Nat])
Alive(pool) == {i \in DOMAIN pool : pool[i].ok}

LEMMA PoolElement ==
  ASSUME NEW pool \in Pool, NEW i \in DOMAIN pool
  PROVE  i \in Nat /\ pool[i].ok \in BOOLEAN /\ pool[i].rtt \in Nat /\ ~Before(pool, i, i)
  <1>1. pool[i] \in [ok : BOOLEAN, rtt : Nat] /\ i \in Nat
    <2> DEFINE Result == [ok : BOOLEAN, rtt : Nat]
    <2>1. pool \in Seq(Result)
      BY DEF Pool
    <2> HIDE DEF Result
    <2>2. pool[i] \in Result /\ i \in Nat
      BY <2>1
    <2> QED BY <2>2 DEF Result
  <1>2. pool[i].ok \in BOOLEAN /\ pool[i].rtt \in Nat
    BY <1>1
  <1> QED BY <1>1, <1>2 DEF Before

\* The order probe.RankTCP sorts by has no ties.
LEMMA BeforeIsStrictTotal ==
  ASSUME NEW pool \in Pool
  PROVE  StrictTotal(DOMAIN pool, {p \in (DOMAIN pool) \X (DOMAIN pool) : Before(pool, p[1], p[2])})
  <1> DEFINE D == DOMAIN pool
             R == {p \in D \X D : Before(pool, p[1], p[2])}
  <1>1. /\ D \subseteq Nat
        /\ \A i \in D : pool[i].ok \in BOOLEAN /\ pool[i].rtt \in Nat
    BY PoolElement
  <1>2. \A i, j \in D : <<i, j>> \in R <=> Before(pool, i, j)
    OBVIOUS
  <1> HIDE DEF D, R
  <1>3. \A i \in D : ~Before(pool, i, i)
    BY <1>1 DEF Before
  <1>4. \A i, j \in D : i = j \/ Before(pool, i, j) \/ Before(pool, j, i)
    BY <1>1 DEF Before
  <1>5. \A i, j, k \in D : Before(pool, i, j) /\ Before(pool, j, k) => Before(pool, i, k)
    BY <1>1 DEF Before
  <1>6. StrictTotal(D, R)
    BY <1>2, <1>3, <1>4, <1>5 DEF StrictTotal
  <1> QED BY <1>6 DEF D, R

LEMMA Ranked ==
  ASSUME NEW pool \in Pool
  PROVE  /\ RankTCP(pool) \in [1..Len(pool) -> 1..Len(pool)]
         /\ \A i \in DOMAIN pool : \E n \in 1..Len(pool) : RankTCP(pool)[n] = i
         /\ \A m, n \in 1..Len(pool) :
              m < n <=> Before(pool, RankTCP(pool)[m], RankTCP(pool)[n])
  <1> DEFINE D == DOMAIN pool
             R == {p \in D \X D : Before(pool, p[1], p[2])}
             o == InOrder(D, R)
  <1>1. D = 1..Len(pool) /\ Len(pool) \in Nat
    BY DEF Pool
  <1>2. IsFiniteSet(D) /\ Cardinality(D) = Len(pool)
    BY <1>1, IndexSet
  <1>3. StrictTotal(D, R)
    BY BeforeIsStrictTotal
  <1>4. RankTCP(pool) = o
    BY DEF RankTCP
  <1>5. \A i, j \in D : <<i, j>> \in R <=> Before(pool, i, j)
    OBVIOUS
  <1> HIDE DEF R, D
  <1>6. /\ o \in [1..Len(pool) -> D]
        /\ \A i \in D : \E n \in 1..Len(pool) : o[n] = i
        /\ \A m, n \in 1..Len(pool) : m < n <=> <<o[m], o[n]>> \in R
    BY <1>2, <1>3, InOrderLists
  <1> HIDE DEF o
  <1>7. \A m, n \in 1..Len(pool) : m < n <=> Before(pool, o[m], o[n])
    BY <1>5, <1>6
  <1> QED BY <1>1, <1>4, <1>6, <1>7 DEF D

\* All that answered, fastest first.
LEMMA ReachableRanked ==
  ASSUME NEW pool \in Pool
  PROVE  LET r == Reachable(RankTCP(pool), pool)
             N == Cardinality(Alive(pool))
         IN  /\ N \in Nat
             /\ r \in [1..N -> Alive(pool)]
             /\ \A i \in Alive(pool) : \E n \in 1..N : r[n] = i
             /\ \A m, n \in 1..N : m < n <=> Before(pool, r[m], r[n])
  <1> DEFINE order    == RankTCP(pool)
             answered == {k \in DOMAIN order : pool[order[k]].ok}
             R        == {p \in answered \X answered : p[1] < p[2]}
             places   == InOrder(answered, R)
             r        == Reachable(order, pool)
             N        == Cardinality(Alive(pool))
  <1>1. DOMAIN pool = 1..Len(pool) /\ Len(pool) \in Nat
    BY DEF Pool
  <1>2. /\ order \in [1..Len(pool) -> 1..Len(pool)]
        /\ \A i \in DOMAIN pool : \E n \in 1..Len(pool) : order[n] = i
        /\ \A m, n \in 1..Len(pool) : m < n <=> Before(pool, order[m], order[n])
    BY Ranked
  <1>3. r = [n \in DOMAIN places |-> order[places[n]]]
    BY DEF Reachable
  <1> HIDE DEF order, r
  <1>4. answered \in SUBSET (1..Len(pool)) /\ \A k \in answered : order[k] \in Alive(pool)
    BY <1>1, <1>2 DEF Alive
  <1>5. \A i \in Alive(pool) : \E k \in answered : order[k] = i
    BY <1>1, <1>2 DEF Alive
  <1>6. \A k, l \in 1..Len(pool) : order[k] = order[l] => k = l
    <2>1. \A i \in DOMAIN pool : ~Before(pool, i, i)
      BY PoolElement
    <2>2. \A k, l \in 1..Len(pool) : k < l => order[k] # order[l]
      BY <1>1, <1>2, <2>1
    <2> QED BY <1>1, <2>2
  <1>7. \A k, l \in answered : <<k, l>> \in R <=> k < l
    OBVIOUS
  <1> HIDE DEF answered, R
  <1>8. IsFiniteSet(answered)
    BY <1>1, <1>4, IndexSet, FS_Subset
  <1>9. Cardinality(answered) = N
    <2> DEFINE f == [k \in answered |-> order[k]]
    <2>1. f \in [answered -> Alive(pool)]
      BY <1>4
    <2>2. \A k, l \in answered : f[k] = f[l] => k = l
      BY <1>4, <1>6
    <2>3. \A i \in Alive(pool) : \E k \in answered : f[k] = i
      BY <1>5
    <2> HIDE DEF f
    <2>4. f \in Bijection(answered, Alive(pool))
      BY <2>1, <2>2, <2>3, Fun_IsBij
    <2>5. ExistsBijection(answered, Alive(pool))
      BY <2>4, Fun_ExistsBij
    <2> QED BY <1>8, <2>5, FS_Bijection
  <1>10. StrictTotal(answered, R)
    <2>1. \A k \in answered : k \in Nat
      BY <1>4
    <2> QED BY <1>7, <2>1 DEF StrictTotal
  <1>11. /\ N \in Nat
         /\ places \in [1..N -> answered]
         /\ \A k \in answered : \E n \in 1..N : places[n] = k
         /\ \A m, n \in 1..N : m < n <=> <<places[m], places[n]>> \in R
    BY <1>8, <1>9, <1>10, InOrderLists
  <1> HIDE DEF places, N
  <1>12. r = [n \in 1..N |-> order[places[n]]]
    BY <1>3, <1>11
  <1>13. r \in [1..N -> Alive(pool)]
    BY <1>4, <1>11, <1>12
  <1>14. \A i \in Alive(pool) : \E n \in 1..N : r[n] = i
    BY <1>5, <1>11, <1>12
  <1>15. ASSUME NEW m \in 1..N, NEW n \in 1..N
         PROVE  m < n <=> Before(pool, r[m], r[n])
    <2>1. places[m] \in answered /\ places[n] \in answered
      BY <1>11
    <2>2. m < n <=> places[m] < places[n]
      BY <1>7, <1>11, <2>1
    <2>3. places[m] < places[n] <=> Before(pool, order[places[m]], order[places[n]])
      BY <1>2, <1>4, <2>1
    <2> QED BY <1>12, <2>2, <2>3
  <1> QED BY <1>11, <1>13, <1>14, <1>15 DEF N, r, order

LEMMA FastestEntries ==
  ASSUME NEW pool \in Pool, NEW max \in Int
  PROVE  LET entries == RankEntries(pool, max)
             alive   == Alive(pool)
         IN  /\ Elements(entries) \subseteq alive
             /\ Cardinality(Elements(entries)) = Len(entries)
             /\ \/ Len(entries) = Cardinality(alive)
                \/ max > 0 /\ Len(entries) = max /\ Len(entries) < Cardinality(alive)
             /\ \A n \in DOMAIN entries, i \in alive :
                  pool[i].rtt < pool[entries[n]].rtt => \E m \in 1..(n - 1) : entries[m] = i
  <1> DEFINE r       == Reachable(RankTCP(pool), pool)
             alive   == Alive(pool)
             N       == Cardinality(alive)
             entries == RankEntries(pool, max)
             L       == IF max > 0 /\ N > max THEN max ELSE N
  <1>1. /\ N \in Nat /\ r \in [1..N -> alive]
        /\ \A i \in alive : \E n \in 1..N : r[n] = i
        /\ \A m, n \in 1..N : m < n <=> Before(pool, r[m], r[n])
    BY ReachableRanked
  <1>2. entries = Capped(r, max)
    BY DEF RankEntries
  <1>3. \A i \in alive : pool[i].ok /\ pool[i].rtt \in Nat /\ i \in Nat /\ ~Before(pool, i, i)
    BY PoolElement DEF Alive
  <1> HIDE DEF r, N, alive
  <1>4. r \in Seq(alive) /\ Len(r) = N
    BY <1>1
  <1>5. L \in Nat /\ L <= N
    BY <1>1
  <1>6. entries \in Seq(alive) /\ Len(entries) = L /\ \A n \in 1..L : entries[n] = r[n]
    BY <1>1, <1>2, <1>4, SubSeqProperties DEF Capped
  <1> HIDE DEF entries, L
  <1>7. DOMAIN entries = 1..L
    BY <1>6
  <1>8. Elements(entries) \subseteq alive
    BY <1>6, <1>7 DEF Elements
  <1>9. \A m, n \in 1..L : entries[m] = entries[n] => m = n
    <2>1. \A m, n \in 1..N : m < n => r[m] # r[n]
      BY <1>1, <1>3
    <2> QED BY <1>1, <1>5, <1>6, <2>1
  <1>10. Cardinality(Elements(entries)) = L
    <2>1. entries \in [1..L -> Elements(entries)]
      BY <1>6, <1>7 DEF Elements
    <2>2. \A e \in Elements(entries) : \E n \in 1..L : entries[n] = e
      BY <1>7 DEF Elements
    <2>3. entries \in Bijection(1..L, Elements(entries))
      BY <1>9, <2>1, <2>2, Fun_IsBij
    <2>4. ExistsBijection(1..L, Elements(entries))
      BY <2>3, Fun_ExistsBij
    <2> QED BY <1>5, <2>4, IndexSet, FS_Bijection
  <1>11. \/ L = N
         \/ max > 0 /\ L = max /\ L < N
    BY <1>1 DEF L
  <1>12. ASSUME NEW n \in 1..L, NEW i \in alive, pool[i].rtt < pool[entries[n]].rtt
         PROVE  \E m \in 1..(n - 1) : entries[m] = i
    <2>1. PICK m \in 1..N : r[m] = i
      BY <1>1
    <2>2. n \in 1..N /\ entries[n] = r[n] /\ r[n] \in alive
      BY <1>1, <1>5, <1>6
    <2>3. Before(pool, i, r[n])
      BY <1>3, <1>12, <2>2 DEF Before
    <2>4. m < n
      BY <1>1, <2>1, <2>2, <2>3
    <2>5. m \in 1..(n - 1) /\ m \in 1..L
      BY <1>1, <1>5, <2>4
    <2> QED BY <1>6, <2>1, <2>5
  <1> QED BY <1>6, <1>7, <1>8, <1>10, <1>11, <1>12 DEF entries, alive, N

\* EntriesAreTheFastest, for pools of any size and any cap.
THEOREM EntriesAlwaysFastest == Spec => []EntriesAreTheFastest
  <1>1. Question => EntriesAreTheFastest
    <2> SUFFICES ASSUME Question, asked = "pool"
                 PROVE  EntriesAreTheFastest
      BY DEF EntriesAreTheFastest
    <2>1. input[1] \in Pool /\ input[2] \in Int
      BY DecisionsAssumption DEF Question, Pool
    <2> QED BY <2>1, FastestEntries DEF EntriesAreTheFastest, Alive
  <1> QED BY <1>1, QuestionAsked, PTL

-----------------------------------------------------------------------------
(* The outbounds                                                           *)

Options ==
  [missing : BOOLEAN, entries : Seq(Text), port : Int, front : STRING, udp : BOOLEAN, flow : STRING]

TheFront(o) == Outbound(FrontTag, o.front, Nothing, "")
Fronted(o) == o.front # ""

\* First the entries, then the front proxy if there is one, then the direct one.
LEMMA Outbounds ==
  ASSUME NEW o \in Options, ~Refused(o)
  PROVE  LET out == Build(o).outbounds
             n   == Len(o.entries)
         IN  /\ n \in Nat \ {0} /\ DOMAIN o.entries = 1..n
             /\ DOMAIN out = 1..Len(out)
             /\ \A i \in 1..n : out[i] = EntryOutbound(o, i)
             /\ ~Fronted(o) => Len(out) = n + 1 /\ out[n + 1] = DirectOutbound
             /\ Fronted(o) =>
                  Len(out) = n + 2 /\ out[n + 1] = TheFront(o) /\ out[n + 2] = DirectOutbound
  <1> DEFINE n   == Len(o.entries)
             ent == [i \in DOMAIN o.entries |-> EntryOutbound(o, i)]
             Any == {EntryOutbound(o, i) : i \in 1..n} \cup {TheFront(o), DirectOutbound}
             out == Build(o).outbounds
  <1>1. n \in Nat \ {0} /\ DOMAIN o.entries = 1..n
    <2>1. o.entries \in Seq(Text)
      BY DEF Options
    <2>2. o.entries # <<>>
      <3>1. o.entries = <<>> => Refused(o)
        BY SMT DEF Refused
      <3> QED BY <3>1
    <2> QED BY <2>1, <2>2
  <1>2. out = (ent \o FrontOutbound(o)) \o <<DirectOutbound>>
    BY DEF Build
  <1>3. ent \in Seq(Any) /\ Len(ent) = n /\ \A i \in 1..n : ent[i] = EntryOutbound(o, i)
    BY <1>1
  <1>4. FrontOutbound(o) = IF Fronted(o) THEN <<TheFront(o)>> ELSE <<>>
    BY Zenon DEF FrontOutbound, TheFront, Fronted
  <1>5. DirectOutbound \in Any /\ TheFront(o) \in Any
    OBVIOUS
  <1> HIDE DEF n, ent, Any, out
  <1>6. /\ out \in Seq(Any)
        /\ ~Fronted(o) => Len(out) = n + 1
        /\ Fronted(o) => Len(out) = n + 2
    BY <1>1, <1>2, <1>3, <1>4, <1>5
  <1>7. \A i \in 1..n : out[i] = EntryOutbound(o, i)
    <2>1. CASE ~Fronted(o)
      BY <1>1, <1>2, <1>3, <1>4, <1>5, <2>1
    <2>2. CASE Fronted(o)
      BY <1>1, <1>2, <1>3, <1>4, <1>5, <2>2
    <2> QED BY <2>1, <2>2
  <1>8. ~Fronted(o) => out[n + 1] = DirectOutbound
    BY <1>1, <1>2, <1>3, <1>4, <1>5
  <1>9. Fronted(o) => out[n + 1] = TheFront(o) /\ out[n + 2] = DirectOutbound
    BY <1>1, <1>2, <1>3, <1>4, <1>5
  <1>10. DOMAIN out = 1..Len(out)
    BY <1>6
  <1> QED BY <1>1, <1>6, <1>7, <1>8, <1>9, <1>10 DEF n, out

LEMMA EntryIs ==
  ASSUME NEW o, NEW i
  PROVE  /\ EntryOutbound(o, i).tag = Tag("entry-", i - 1)
         /\ EntryOutbound(o, i).address = o.entries[i]
         /\ EntryOutbound(o, i).via = IF Fronted(o) THEN FrontTag ELSE Nothing
  <1>1. EntryOutbound(o, i) =
          Outbound(Tag("entry-", i - 1), o.entries[i], IF Fronted(o) THEN FrontTag ELSE Nothing, Flow(o))
    BY Zenon DEF EntryOutbound, Fronted
  <1> QED BY <1>1 DEF Outbound

LEMMA OthersAre ==
  ASSUME NEW o
  PROVE  /\ TheFront(o).tag = FrontTag /\ TheFront(o).via = Nothing
         /\ DirectOutbound.tag = Tag("direct", 0) /\ DirectOutbound.via = Nothing
         /\ FrontTag.kind = "front-proxy" /\ FrontTag # Nothing
         /\ \A kind, n : Tag(kind, n).kind = kind /\ Tag(kind, n).n = n
  BY DEF TheFront, DirectOutbound, Outbound, FrontTag, Nothing, Tag

LEMMA ThroughFront ==
  ASSUME NEW o \in Options, ~Refused(o)
  PROVE  LET doc   == Build(o)
             out   == doc.outbounds
             tags  == {b.tag : b \in Elements(out)}
             front == {b \in Elements(out) : b.tag.kind = "front-proxy"}
         IN  /\ {doc.direct, doc.fallback} \cup {b.via : b \in Elements(out)} \subseteq tags \cup {Nothing}
             /\ Cardinality(tags) = Len(out)
             /\ [i \in Selected(doc) |-> out[i].address] = o.entries
             /\ doc.fallback = out[1].tag
             /\ (front = {}) = ~Fronted(o)
             /\ \A i \in DOMAIN out : out[i].via = Nothing <=> (i \notin Selected(doc) \/ front = {})
  <1> DEFINE doc   == Build(o)
             out   == doc.outbounds
             n     == Len(o.entries)
             L     == Len(out)
             tags  == {b.tag : b \in Elements(out)}
             front == {b \in Elements(out) : b.tag.kind = "front-proxy"}
  <1>1. /\ n \in Nat \ {0} /\ DOMAIN o.entries = 1..n
        /\ DOMAIN out = 1..L
        /\ \A i \in 1..n : out[i] = EntryOutbound(o, i)
        /\ ~Fronted(o) => L = n + 1 /\ out[n + 1] = DirectOutbound
        /\ Fronted(o) => L = n + 2 /\ out[n + 1] = TheFront(o) /\ out[n + 2] = DirectOutbound
    BY Outbounds
  <1>2. doc.direct = Tag("direct", 0) /\ doc.fallback = Tag("entry-", 0)
    BY DEF Build
  <1>3. Selected(doc) = {i \in DOMAIN out : out[i].tag.kind = "entry-"}
    BY DEF Build, Selected
  <1>4. tags = {out[i].tag : i \in 1..L} /\ {b.via : b \in Elements(out)} = {out[i].via : i \in 1..L}
    BY <1>1 DEF Elements
  <1>5. front = {} <=> \A i \in 1..L : out[i].tag.kind # "front-proxy"
    BY <1>1 DEF Elements
  <1> HIDE DEF doc, out, n, L, tags, front
  <1>6. n \in Nat /\ 1 \in 1..n /\ n + 1 # n + 2
    BY <1>1
  <1>7. /\ ~Fronted(o) => L = n + 1
        /\ Fronted(o) => L = n + 2 /\ n + 1 \in 1..L
    BY <1>1, <1>6
  <1>8. /\ L \in Nat /\ L \in 1..L /\ L > n
        /\ \A i \in 1..n : i \in 1..L
        /\ \A i \in 1..L : i \in 1..n \/ i = L \/ (Fronted(o) /\ i = n + 1)
    <2>1. CASE ~Fronted(o)
      BY <1>6, <1>7, <2>1
    <2>2. CASE Fronted(o)
      BY <1>6, <1>7, <2>2
    <2> QED BY <2>1, <2>2
  <1>9. \A i \in 1..n : /\ out[i].tag = Tag("entry-", i - 1) /\ out[i].address = o.entries[i]
                         /\ out[i].via = (IF Fronted(o) THEN FrontTag ELSE Nothing)
                         /\ out[i].tag.kind = "entry-" /\ out[i].tag.n = i - 1
    BY <1>1, EntryIs, OthersAre
  <1>10. /\ out[L].tag = Tag("direct", 0) /\ out[L].via = Nothing
         /\ out[L].tag.kind = "direct"
         /\ Fronted(o) => /\ out[n + 1].tag = FrontTag /\ out[n + 1].via = Nothing
                            /\ out[n + 1].tag.kind = "front-proxy"
    BY <1>1, OthersAre
  <1>11. Selected(doc) = 1..n
    <2>1. \A i \in 1..L : out[i].tag.kind = "entry-" <=> i \in 1..n
      BY <1>6, <1>8, <1>9, <1>10
    <2> QED BY <1>1, <1>3, <1>8, <2>1
  <1>12. front = {} <=> ~Fronted(o)
    BY <1>5, <1>7, <1>8, <1>9, <1>10
  <1>13. {doc.direct, doc.fallback} \subseteq tags /\ doc.fallback = out[1].tag
    <2>1. out[1].tag = Tag("entry-", 0) /\ 1 \in 1..L
      BY <1>6, <1>8, <1>9
    <2> QED BY <1>2, <1>4, <1>8, <1>10, <2>1
  <1>14. \A i \in 1..L : out[i].via \in tags \cup {Nothing}
    BY <1>4, <1>7, <1>8, <1>9, <1>10
  <1>15. [i \in Selected(doc) |-> out[i].address] = o.entries
    <2>1. o.entries = [i \in 1..n |-> o.entries[i]]
      <3>1. o.entries \in Seq(Text)
        BY DEF Options
      <3> QED BY <1>1, <3>1
    <2>2. [i \in 1..n |-> out[i].address] = [i \in 1..n |-> o.entries[i]]
      BY <1>9
    <2> QED BY <1>11, <2>1, <2>2
  <1>16. \A i \in 1..L : out[i].via = Nothing <=> (i \notin Selected(doc) \/ front = {})
    <2>1. ASSUME NEW i \in 1..n
          PROVE  out[i].via = Nothing <=> ~Fronted(o)
      BY <1>9, OthersAre
    <2>2. ASSUME NEW i \in 1..L, i \notin 1..n
          PROVE  out[i].via = Nothing
      BY <1>8, <1>10, <2>2
    <2> QED BY <1>11, <1>12, <2>1, <2>2
  <1>17. Cardinality(tags) = L
    <2> DEFINE f == [i \in 1..L |-> out[i].tag]
    <2>1. \A i, j \in 1..L : f[i] = f[j] => i = j
      <3> SUFFICES ASSUME NEW i \in 1..L, NEW j \in 1..L, out[i].tag = out[j].tag
                   PROVE  i = j
        OBVIOUS
      <3>1. out[i].tag.kind = out[j].tag.kind /\ out[i].tag.n = out[j].tag.n
        OBVIOUS
      <3>2. i \in 1..n /\ j \in 1..n => i = j
        BY <1>6, <1>9, <3>1
      <3> QED BY <1>8, <1>9, <1>10, <3>1, <3>2
    <2>2. f \in [1..L -> tags] /\ \A t \in tags : \E i \in 1..L : f[i] = t
      BY <1>4
    <2> HIDE DEF f
    <2>3. f \in Bijection(1..L, tags)
      BY <2>1, <2>2, Fun_IsBij
    <2>4. ExistsBijection(1..L, tags)
      BY <2>3, Fun_ExistsBij
    <2> QED BY <1>8, <2>4, IndexSet, FS_Bijection
  <1>18. /\ {doc.direct, doc.fallback} \cup {b.via : b \in Elements(out)} \subseteq tags \cup {Nothing}
         /\ \A i \in DOMAIN out : out[i].via = Nothing <=> (i \notin Selected(doc) \/ front = {})
    BY <1>1, <1>4, <1>13, <1>14, <1>16
  <1>19. (front = {}) = ~Fronted(o)
    BY <1>12
  <1> QED BY <1>13, <1>15, <1>17, <1>18, <1>19 DEF doc, out, L, tags, front

\* TunnelThroughFront, for any number of entries and any options.
THEOREM TunnelAlwaysThroughFront == Spec => []TunnelThroughFront
  <1>1. Question => TunnelThroughFront
    <2> SUFFICES ASSUME Question, asked = "document", Build(input) # NoDocument
                 PROVE  TunnelThroughFront
      BY DEF TunnelThroughFront
    <2>1. input \in Options
      BY DecisionsAssumption DEF Question, Options
    <2>2. ~Refused(input)
      BY DEF Build
    <2> QED BY <2>1, <2>2, ThroughFront, Zenon DEF TunnelThroughFront, Fronted
  <1> QED BY <1>1, QuestionAsked, PTL

-----------------------------------------------------------------------------
(* One dead hop                                                            *)

DeadServices(u) == {i \in DOMAIN u : u[i].fate = "dead"}
DeadAmong(ips)  == {k \in DOMAIN ips : ips[k] = "dead"}
DeadListed(u)   == UNION {{<<i, n>> : n \in DeadAmong(u[i].ips)} : i \in DOMAIN u}
FirstLists(u) ==
  \E i \in DOMAIN u : /\ u[i].fate = "answers" /\ "live" \in Elements(u[i].ips)
                      /\ \A j \in 1..(i - 1) : u[j].fate # "answers"

IpList == Seq({"dead", "refuses", "live"})

LEMMA AnswerIs ==
  ASSUME NEW u \in Seq(Answer), NEW i \in DOMAIN u
  PROVE  i \in Nat /\ u[i].ips \in IpList
  <1>1. u[i] \in Answer /\ i \in Nat
    OBVIOUS
  <1> QED BY <1>1 DEF Answer, IpList

LEMMA DeadAmongFinite ==
  ASSUME NEW ips \in IpList
  PROVE  IsFiniteSet(DeadAmong(ips)) /\ Cardinality(DeadAmong(ips)) \in Nat
  <1>1. DeadAmong(ips) \in SUBSET (1..Len(ips)) /\ Len(ips) \in Nat
    BY DEF DeadAmong, IpList
  <1> QED BY <1>1, IndexSet, FS_Subset, FS_CardinalityType

LEMMA DeadListedFinite ==
  ASSUME NEW u \in Seq(Answer)
  PROVE  IsFiniteSet(DeadListed(u)) /\ Cardinality(DeadListed(u)) \in Nat
  <1> DEFINE Of(i) == {<<i, n>> : n \in DeadAmong(u[i].ips)}
             All   == {Of(i) : i \in DOMAIN u}
             f     == [i \in DOMAIN u |-> Of(i)]
  <1>1. IsFiniteSet(DOMAIN u)
    <2>1. DOMAIN u = 1..Len(u) /\ Len(u) \in Nat
      OBVIOUS
    <2> QED BY <2>1, IndexSet
  <1>2. ASSUME NEW i \in DOMAIN u
        PROVE  IsFiniteSet(Of(i))
    <2> DEFINE g == [n \in DeadAmong(u[i].ips) |-> <<i, n>>]
    <2>1. g \in [DeadAmong(u[i].ips) -> Of(i)] /\ \A t \in Of(i) : \E n \in DeadAmong(u[i].ips) : g[n] = t
      OBVIOUS
    <2>2. IsFiniteSet(DeadAmong(u[i].ips))
      BY AnswerIs, DeadAmongFinite
    <2> HIDE DEF g, Of
    <2>3. g \in Surjection(DeadAmong(u[i].ips), Of(i))
      BY <2>1, Fun_IsSurj
    <2> QED BY <2>2, <2>3, FS_Surjection
  <1> HIDE DEF Of
  <1>3. f \in [DOMAIN u -> All] /\ \A t \in All : \E i \in DOMAIN u : f[i] = t
    OBVIOUS
  <1>4. \A t \in All : IsFiniteSet(t)
    BY <1>2
  <1>5. DeadListed(u) = UNION All
    BY DEF DeadListed, Of
  <1> HIDE DEF f, All
  <1>6. IsFiniteSet(All)
    <2>1. f \in Surjection(DOMAIN u, All)
      BY <1>3, Fun_IsSurj
    <2> QED BY <1>1, <2>1, FS_Surjection
  <1> QED BY <1>4, <1>5, <1>6, FS_UNION, FS_CardinalityType

\* A query waits for dead services only, and brings what the first service to answer
\* has listed.
LEMMA QueryBrings ==
  ASSUME NEW u \in Seq(Answer)
  PROVE  /\ Query(u).ips \in IpList
         /\ "live" \in Elements(Query(u).ips) <=> FirstLists(u)
         /\ Cardinality(DeadAmong(Query(u).ips)) <= Cardinality(DeadListed(u))
         /\ \E w \in Nat : Query(u).time = 10 * w /\ w <= Cardinality(DeadServices(u))
  <1> DEFINE good  == {i \in DOMAIN u : u[i].fate = "answers"}
             tried == Tried(Len(u), good)
             fates == [i \in DOMAIN u |-> u[i].fate]
             First == CHOOSE i \in good : \A j \in good : i <= j
  <1>1. DOMAIN u = 1..Len(u) /\ Len(u) \in Nat
    OBVIOUS
  <1>2. /\ Query(u).ips = IF good = {} THEN <<>> ELSE u[First].ips
        /\ Query(u).time = 10 * Waits(tried, fates)
    BY DEF Query, DoHLimit
  <1>3. \E w \in Nat : Query(u).time = 10 * w /\ w <= Cardinality(DeadServices(u))
    <2> DEFINE waited == {i \in tried : fates[i] = "dead"}
    <2>1. waited \in SUBSET DeadServices(u)
      BY <1>1 DEF Tried, DeadServices
    <2>2. DeadServices(u) \in SUBSET (1..Len(u))
      BY <1>1 DEF DeadServices
    <2>3. Waits(tried, fates) = Cardinality(waited)
      BY DEF Waits
    <2> HIDE DEF waited, tried, fates
    <2>4. IsFiniteSet(DeadServices(u))
      BY <1>1, <2>2, IndexSet, FS_Subset
    <2>5. Cardinality(waited) \in Nat /\ Cardinality(waited) <= Cardinality(DeadServices(u))
      BY <2>1, <2>4, FS_Subset, FS_CardinalityType
    <2> QED BY <1>2, <2>3, <2>5
  <1>4. CASE good = {}
    <2>1. Query(u).ips = <<>>
      BY <1>2, <1>4
    <2>2. Query(u).ips \in IpList /\ Elements(Query(u).ips) = {} /\ DeadAmong(Query(u).ips) = {}
      BY <2>1 DEF IpList, Elements, DeadAmong
    <2>3. ~FirstLists(u)
      BY <1>4 DEF FirstLists
    <2>4. Cardinality(DeadAmong(Query(u).ips)) = 0 /\ Cardinality(DeadListed(u)) \in Nat
      BY <2>2, FS_EmptySet, DeadListedFinite
    <2> QED BY <1>3, <2>2, <2>3, <2>4
  <1>5. CASE good # {}
    <2>1. good \in SUBSET Nat
      BY <1>1
    <2>2. \E i \in good : \A j \in good : i <= j
      <3> HIDE DEF good
      <3> QED BY <1>5, <2>1, Least
    <2>3. First \in good /\ \A j \in good : First <= j
      <3> HIDE DEF good
      <3> QED BY <2>2
    <2>4. First \in DOMAIN u /\ u[First].fate = "answers"
      BY <2>3
    <2>5. \A i \in DOMAIN u : u[i].fate = "answers" => First <= i
      BY <2>3
    <2>6. Query(u).ips = u[First].ips
      BY <1>2, <1>5
    <2> HIDE DEF First, good
    <2>7. Query(u).ips \in IpList
      BY <2>4, <2>6, AnswerIs
    <2>8. "live" \in Elements(u[First].ips) <=> FirstLists(u)
      <3>1. \A j \in 1..(First - 1) : u[j].fate # "answers"
        BY <1>1, <2>4, <2>5
      <3>2. ASSUME NEW i \in DOMAIN u, u[i].fate = "answers",
                   \A j \in 1..(i - 1) : u[j].fate # "answers"
            PROVE  i = First
        <4>1. First <= i
          BY <2>5, <3>2
        <4>2. First \notin 1..(i - 1)
          BY <2>4, <3>2
        <4> QED BY <1>1, <2>4, <4>1, <4>2
      <3> QED BY <2>4, <3>1, <3>2 DEF FirstLists
    <2>9. Cardinality(DeadAmong(u[First].ips)) <= Cardinality(DeadListed(u))
      <3> DEFINE D == DeadAmong(u[First].ips)
                 f == [n \in D |-> <<First, n>>]
      <3>1. f \in [D -> DeadListed(u)]
        BY <2>4 DEF DeadListed
      <3>2. \A m, n \in D : f[m] = f[n] => m = n
        OBVIOUS
      <3> HIDE DEF f, D
      <3>3. f \in Injection(D, DeadListed(u))
        BY <3>1, <3>2, Fun_IsInj
      <3>4. Cardinality(D) <= Cardinality(DeadListed(u))
        BY <3>3, DeadListedFinite, FS_Injection
      <3> QED BY <3>4 DEF D
    <2> QED BY <1>3, <2>6, <2>7, <2>8, <2>9
  <1> QED BY <1>4, <1>5

\* What is in two lists one after the other is in one of them.
LEMMA BothLists ==
  ASSUME NEW a \in IpList, NEW b \in IpList
  PROVE  /\ a \o b \in IpList
         /\ {i \in DOMAIN (a \o b) : (a \o b)[i] = "live"} # {} <=>
              ("live" \in Elements(a) \/ "live" \in Elements(b))
         /\ Cardinality(DeadAmong(a \o b)) <= Cardinality(DeadAmong(a)) + Cardinality(DeadAmong(b))
  <1> DEFINE c     == a \o b
             m     == Len(a)
             left  == {i \in DeadAmong(c) : i <= m}
             right == {i \in DeadAmong(c) : i > m}
  <1>1. /\ m \in Nat /\ Len(b) \in Nat /\ c \in IpList /\ Len(c) = m + Len(b)
        /\ DOMAIN a = 1..m /\ DOMAIN b = 1..Len(b) /\ DOMAIN c = 1..Len(c)
    BY DEF IpList
  <1>2. /\ \A i \in 1..m : c[i] = a[i]
        /\ \A i \in 1..Len(b) : c[m + i] = b[i]
    BY DEF IpList
  <1> HIDE DEF c, m
  <1>3. /\ \A i \in DOMAIN c : i \in 1..m \/ (i - m \in 1..Len(b) /\ i = m + (i - m) /\ i > m)
        /\ \A i \in 1..m : i \in DOMAIN c
        /\ \A i \in 1..Len(b) : m + i \in DOMAIN c
    BY <1>1
  <1>4. {i \in DOMAIN c : c[i] = "live"} # {} <=> ("live" \in Elements(a) \/ "live" \in Elements(b))
    <2>1. ASSUME NEW i \in DOMAIN c, c[i] = "live"
          PROVE  "live" \in Elements(a) \/ "live" \in Elements(b)
      <3>1. CASE i \in 1..m
        BY <1>1, <1>2, <2>1, <3>1 DEF Elements
      <3>2. CASE i \notin 1..m
        <4>1. i - m \in DOMAIN b /\ b[i - m] = "live"
          BY <1>1, <1>2, <1>3, <2>1, <3>2
        <4> QED BY <4>1 DEF Elements
      <3> QED BY <3>1, <3>2
    <2>2. ASSUME "live" \in Elements(a) \/ "live" \in Elements(b)
          PROVE  \E i \in DOMAIN c : c[i] = "live"
      BY <1>1, <1>2, <1>3, <2>2 DEF Elements
    <2> QED BY <2>1, <2>2
  <1>5. IsFiniteSet(DeadAmong(a)) /\ IsFiniteSet(DeadAmong(b)) /\ IsFiniteSet(DeadAmong(c))
    BY <1>1, DeadAmongFinite
  <1>6. left \in SUBSET DeadAmong(a)
    BY <1>1, <1>2, <1>3 DEF DeadAmong
  <1>7. Cardinality(right) <= Cardinality(DeadAmong(b))
    <2> DEFINE f == [i \in right |-> i - m]
    <2>1. ASSUME NEW i \in right
          PROVE  i - m \in DeadAmong(b) /\ i \in Nat
      <3>1. i \in DOMAIN c /\ c[i] = "dead" /\ i > m
        BY DEF DeadAmong
      <3>2. i - m \in 1..Len(b) /\ i = m + (i - m) /\ i \in Nat
        BY <1>1, <1>3, <3>1
      <3>3. b[i - m] = "dead"
        BY <1>2, <3>1, <3>2
      <3> QED BY <1>1, <3>2, <3>3 DEF DeadAmong
    <2> HIDE DEF right
    <2>2. f \in [right -> DeadAmong(b)] /\ \A i, j \in right : f[i] = f[j] => i = j
      BY <1>1, <2>1
    <2> HIDE DEF f
    <2>3. f \in Injection(right, DeadAmong(b))
      BY <2>2, Fun_IsInj
    <2> QED BY <1>5, <2>3, FS_Injection
  <1>8. DeadAmong(c) = left \cup right /\ left \cap right = {} /\ right \in SUBSET DeadAmong(c)
    BY <1>1 DEF DeadAmong
  <1> HIDE DEF left, right
  <1>9. /\ IsFiniteSet(left) /\ Cardinality(left) <= Cardinality(DeadAmong(a))
        /\ IsFiniteSet(right)
    BY <1>5, <1>6, <1>8, FS_Subset
  <1>10. Cardinality(DeadAmong(c)) = Cardinality(left) + Cardinality(right)
    <2>1. Cardinality(left) \in Nat /\ Cardinality(right) \in Nat
      BY <1>9, FS_CardinalityType
    <2>2. Cardinality(left \cup right) =
            Cardinality(left) + Cardinality(right) - Cardinality(left \cap right)
      BY <1>9, FS_Union
    <2>3. Cardinality(left \cap right) = 0
      BY <1>8, FS_EmptySet
    <2> QED BY <1>8, <2>1, <2>2, <2>3
  <1>11. /\ Cardinality(left) \in Nat /\ Cardinality(right) \in Nat
         /\ Cardinality(DeadAmong(a)) \in Nat /\ Cardinality(DeadAmong(b)) \in Nat
    BY <1>5, <1>9, FS_CardinalityType
  <1>12. Cardinality(DeadAmong(c)) <= Cardinality(DeadAmong(a)) + Cardinality(DeadAmong(b))
    BY <1>7, <1>9, <1>10, <1>11
  <1> QED BY <1>1, <1>4, <1>12 DEF c

LEMMA Dialled ==
  ASSUME NEW a \in Seq(Answer), NEW b \in Seq(Answer), NEW S, IsFiniteSet(S),
         DeadServices(a) \subseteq S, DeadServices(b) \subseteq S
  PROVE  LET dial == DialViaResolver(a, b)
             dead == Cardinality(S) + Cardinality(DeadListed(a)) + Cardinality(DeadListed(b))
         IN  /\ dial.connected <=> FirstLists(a) \/ FirstLists(b)
             /\ dead <= 1 => dial.time < RequestLimit
  <1> DEFINE found == LookupIP(a, b)
             live  == {i \in DOMAIN found.ips : found.ips[i] = "live"}
             tried == Tried(Len(found.ips), live)
             dial  == DialViaResolver(a, b)
  <1>1. found.ips = Query(a).ips \o Query(b).ips /\ found.time = Query(a).time + Query(b).time
    BY DEF LookupIP
  <1>2. dial.connected = (live # {}) /\ dial.time = found.time + 10 * Waits(tried, found.ips)
    BY DEF DialViaResolver, DialLimit
  <1>3. /\ Query(a).ips \in IpList /\ Query(b).ips \in IpList
        /\ "live" \in Elements(Query(a).ips) <=> FirstLists(a)
        /\ "live" \in Elements(Query(b).ips) <=> FirstLists(b)
        /\ Cardinality(DeadAmong(Query(a).ips)) <= Cardinality(DeadListed(a))
        /\ Cardinality(DeadAmong(Query(b).ips)) <= Cardinality(DeadListed(b))
    BY QueryBrings
  <1>4. PICK wa \in Nat : Query(a).time = 10 * wa /\ wa <= Cardinality(DeadServices(a))
    BY QueryBrings
  <1>5. PICK wb \in Nat : Query(b).time = 10 * wb /\ wb <= Cardinality(DeadServices(b))
    BY QueryBrings
  <1>6. /\ found.ips \in IpList
        /\ live # {} <=> (FirstLists(a) \/ FirstLists(b))
        /\ Cardinality(DeadAmong(found.ips)) <=
             Cardinality(DeadAmong(Query(a).ips)) + Cardinality(DeadAmong(Query(b).ips))
    BY <1>1, <1>3, BothLists
  <1>7. dial.connected <=> FirstLists(a) \/ FirstLists(b)
    BY <1>2, <1>6
  <1>8. /\ Waits(tried, found.ips) \in Nat
        /\ Waits(tried, found.ips) <= Cardinality(DeadAmong(found.ips))
    <2> DEFINE waited == {i \in tried : found.ips[i] = "dead"}
    <2>1. DOMAIN found.ips = 1..Len(found.ips)
      BY <1>6 DEF IpList
    <2>2. waited \in SUBSET DeadAmong(found.ips)
      BY <2>1 DEF Tried, DeadAmong
    <2>3. Waits(tried, found.ips) = Cardinality(waited)
      BY DEF Waits
    <2>4. IsFiniteSet(DeadAmong(found.ips))
      BY <1>6, DeadAmongFinite
    <2> HIDE DEF waited, tried, found
    <2> QED BY <2>2, <2>3, <2>4, FS_Subset, FS_CardinalityType
  <1>9. wa <= Cardinality(S) /\ wb <= Cardinality(S) /\ Cardinality(S) \in Nat
    <2>1. DeadServices(a) \in SUBSET S /\ DeadServices(b) \in SUBSET S
      OBVIOUS
    <2>2. Cardinality(DeadServices(a)) <= Cardinality(S) /\ Cardinality(DeadServices(b)) <= Cardinality(S)
      BY <2>1, FS_Subset
    <2>3. /\ Cardinality(S) \in Nat
          /\ Cardinality(DeadServices(a)) \in Nat /\ Cardinality(DeadServices(b)) \in Nat
      BY <2>1, FS_Subset, FS_CardinalityType
    <2> QED BY <1>4, <1>5, <2>2, <2>3
  <1>10. /\ Cardinality(DeadListed(a)) \in Nat /\ Cardinality(DeadListed(b)) \in Nat
         /\ Cardinality(DeadAmong(Query(a).ips)) \in Nat /\ Cardinality(DeadAmong(Query(b).ips)) \in Nat
         /\ Cardinality(DeadAmong(found.ips)) \in Nat
    BY <1>3, <1>6, DeadListedFinite, DeadAmongFinite
  <1>11. dial.time = 10 * wa + 10 * wb + 10 * Waits(tried, found.ips)
    BY <1>1, <1>2, <1>4, <1>5
  <1>12. Waits(tried, found.ips) <= Cardinality(DeadListed(a)) + Cardinality(DeadListed(b))
    <2> HIDE DEF tried, found
    <2> QED BY <1>3, <1>6, <1>8, <1>10
  <1>13. Cardinality(S) + Cardinality(DeadListed(a)) + Cardinality(DeadListed(b)) <= 1
           => dial.time < RequestLimit
    <2> HIDE DEF tried, found, dial
    <2> QED BY <1>8, <1>9, <1>10, <1>11, <1>12 DEF RequestLimit
  <1> QED BY <1>7, <1>13

\* OneDeadHopIsSurvived, for any number of services and addresses.
THEOREM OneDeadHopAlwaysSurvived == Spec => []OneDeadHopIsSurvived
  <1>1. Question => OneDeadHopIsSurvived
    <2> SUFFICES ASSUME Question, asked = "dial"
                 PROVE  OneDeadHopIsSurvived
      BY DEF OneDeadHopIsSurvived
    <2> DEFINE a == [i \in DOMAIN input |-> input[i][1]]
               b == [i \in DOMAIN input |-> input[i][2]]
               S == {i \in DOMAIN input : "dead" \in {a[i].fate, b[i].fate}}
    <2>1. input \in Seq(Answer \X Answer)
      BY DecisionsAssumption DEF Question
    <2>2. DOMAIN input = 1..Len(input) /\ Len(input) \in Nat
      BY <2>1
    <2>3. a \in Seq(Answer) /\ b \in Seq(Answer)
      BY <2>1, <2>2
    <2>4. IsFiniteSet(S)
      <3>1. S \in SUBSET (1..Len(input))
        BY <2>2
      <3> HIDE DEF S
      <3> QED BY <2>2, <3>1, IndexSet, FS_Subset
    <2>5. DeadServices(a) \subseteq S /\ DeadServices(b) \subseteq S
      BY DEF DeadServices
    <2>6. LET dial == DialViaResolver(a, b)
              dead == Cardinality(S) + Cardinality(DeadListed(a)) + Cardinality(DeadListed(b))
          IN  /\ dial.connected <=> FirstLists(a) \/ FirstLists(b)
              /\ dead <= 1 => dial.time < RequestLimit
      <3> HIDE DEF a, b, S
      <3> QED BY <2>3, <2>4, <2>5, Dialled
    <2> QED BY <2>6, Zenon DEF OneDeadHopIsSurvived, DeadListed, DeadAmong, FirstLists
  <1> QED BY <1>1, QuestionAsked, PTL

=============================================================================
