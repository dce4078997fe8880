SPECIFICATION FairSpec
CONSTANTS
  Text <- SmallText
  Occurs <- SmallOccurs
  Directory <- AndBack
  Interactive = {TRUE, FALSE}
  Watching = {TRUE, FALSE}
  Inputs <- StartStop
  Pinned = ""
  FirstOptions <- Default
  NoTunnel = NoTunnel
  MaxFaults = 2
PROPERTIES ConsoleCatchesUp InterruptEndsServer
CHECK_DEADLOCK FALSE
