SPECIFICATION Spec
CONSTANTS
  Home = Home
  Places = {w1, w2}
  Explicit = {w2}
  Accounts = {a1, a2}
  GivenFiles = {{}}
  MaxCommands = 2
PROPERTIES OwnCommandsKeepTheSetup AuthorisationIsKept
SYMMETRY AccountSymmetry
CHECK_DEADLOCK FALSE
