SPECIFICATION Spec
CONSTANTS
  Home = Home
  Places = {w1}
  Explicit = {w1}
  Accounts = {a1, a2}
  GivenFiles = {{}}
  MaxCommands = 2
INVARIANT SeparateIdentities
CHECK_DEADLOCK FALSE
