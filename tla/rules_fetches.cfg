SPECIFICATION FairSpec
CONSTANTS
  Fetchers = {p1, p2}
  Attempts = 2
  MaxReleases = 2
  MaxFaults = 2
INVARIANTS InPlaceIsWhole GivesUpForAReason
PROPERTIES StaysInPlace DoneIsWhole FetchReturns
