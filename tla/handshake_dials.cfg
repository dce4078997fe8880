SPECIFICATION FairSpec
CONSTANTS
  Dials = {d1, d2}
  NoDial = NoDial
  Keys = {k1, k2}
  PinModes = {"off", "tofu", "strict"}
  MaxRotations = 2
  MaxFaults = 1
INVARIANT NeverBackToFirstUse
PROPERTIES PinsSettle OneRetryIsEnough 
