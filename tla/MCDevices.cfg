SPECIFICATION FairSpec
CONSTANTS
  c1 = c1
  c2 = c2
  Foreign = Foreign
  Cluster = {c1, c2}
  Most <- OneEach
  Places <- Anywhere
  Faults = {"crash", "iscsid", "read", "rm", "step"}
  MaxFaults = 1
INVARIANTS
  AttachedToItsImage
  TornDownWhole
PROPERTIES
  SparesTheHealthy
  RepairIsEnough
