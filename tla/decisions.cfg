SPECIFICATION Spec
CONSTANTS
  Ticks = 3
  Text <- SmallText
  Occurs <- SmallOccurs
  Inventories <- SmallInventories
  Health <- SmallHealth
  SomeVersions <- SmallVersions
  Pools <- SmallPools
  Caps <- SmallCaps
  OptionSets <- SmallOptionSets
  Dials <- SmallDials
INVARIANTS
  AnnouncesWhatMoved NamedGroupIsSelected HealthRoundsApart RoutesAsDocumented
  VersionsAreOrdered EntriesAreTheFastest TunnelThroughFront OneDeadHopIsSurvived
\* A question is asked once; only polls go on.
CHECK_DEADLOCK FALSE
