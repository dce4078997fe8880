SPECIFICATION FairSpec
CONSTANTS
  Callers = {c1, c2}
  Plans = {tyo, sin}
  NoPlan = NoPlan
  NoOne = NoOne
  Stranger = Stranger
INVARIANTS NothingForgotten
PROPERTIES ImplementsProxy CallsReturn
