SPECIFICATION Spec
CONSTANTS
  Text <- SmallText
  Occurs <- SmallOccurs
  Directory <- Rotation
  Interactive = {TRUE}
  Watching = {TRUE, FALSE}
  Inputs <- AllInputs
  Pinned = ""
  FirstOptions <- Default
  NoTunnel = NoTunnel
  MaxFaults = 1
INVARIANTS OneInventory ConsoleSurvivesAlone
CHECK_DEADLOCK FALSE
