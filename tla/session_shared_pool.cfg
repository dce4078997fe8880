SPECIFICATION Spec
CONSTANTS
  Text <- AnyText
  command = command
  server = server
  first = first
  second = second
  Sessions = {server}
  Refreshers = {first, second}
  SessionOf <- TwoInServer
  Serving = {server}
  AutoApprove = {}
  Directory <- TwoReleases
  DefaultVersion = 1
  MaxFloor = 1
  MaxTickets = 2
  MaxFaults = 1
INVARIANTS PoolSurvives
CHECK_DEADLOCK FALSE
