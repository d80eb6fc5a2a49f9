SPECIFICATION FairSpec
CONSTANTS
  c1 = c1
  c2 = c2
  Cluster = {c1, c2}
  Nobody = Nobody
  Branch <- Branches
  Flags <- TwoFlags
  Faults <- AllFaults
  MaxFaults = 1
INVARIANTS PromptsAlone BuildsUnderTheLock
PROPERTIES FollowsTheGraph EveryUpEnds
