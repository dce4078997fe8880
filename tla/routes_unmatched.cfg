SPECIFICATION Spec
CONSTANTS
  Ticks = 3
  Text <- SmallText
  Occurs <- SmallOccurs
  Inventories <- SmallInventories
  Health <- SmallHealth
  SomeVersions <- SmallVersions
  Pools <- SmallPools
  Caps <- SmallCaps
  OptionSets <- SmallOptionSets
  Dials <- SmallDials
INVARIANT UnmatchedNamesAreResolved
CHECK_DEADLOCK FALSE
