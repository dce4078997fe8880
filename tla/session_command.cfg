SPECIFICATION FairSpec
CONSTANTS
  Text <- AnyText
  command = command
  server = server
  first = first
  second = second
  Sessions = {command}
  Refreshers = {first}
  SessionOf <- OneCommand
  Serving = {}
  AutoApprove = {command}
  Directory <- WithBadRelease
  DefaultVersion = 1
  MaxFloor = 2
  MaxTickets = 2
  MaxFaults = 2
INVARIANTS TypeOK OnlyServable PoolSurvives StoredIsReturned TicketOutlivesRun
PROPERTY VersionNeverFalls ImplementsStore Recovers
CHECK_DEADLOCK FALSE
