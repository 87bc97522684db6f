SPECIFICATION Spec
CONSTANTS
  Sizes = {5, 6}
  DefaultSize = 6
  Requests = {1, 2, 3}
  Slices = {0, 2}
  MaxPids = 4
  MaxFails = 2
INVARIANTS
  Disjoint
  NothingLost
  Coalesced
  FirstIsBest
PROPERTIES
  MovedOnlyByNeed
  Implements
