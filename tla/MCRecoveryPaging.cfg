SPECIFICATION FairSpec
CONSTANTS
  N = 4
  Limit = 1
  MaxPages = 2
  Stuck = {2}
  MaxFaults = 1
INVARIANTS NothingSkipped
PROPERTIES OthersAreRecovered
