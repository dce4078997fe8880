SPECIFICATION Spec
CONSTANTS
  Text <- SmallText
  Occurs <- SmallOccurs
  Directory <- Rotation
  Interactive = {TRUE}
  Watching = {TRUE}
  Inputs <- ByNumber
  Pinned = ""
  FirstOptions <- Default
  NoTunnel = NoTunnel
  MaxFaults = 0
INVARIANTS ConsoleSurvives
CHECK_DEADLOCK FALSE
