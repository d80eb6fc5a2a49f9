SPECIFICATION FairSpec
CONSTANTS
  Cluster = {c1, c2, c3}
  Port = {1, 2}
  NoPort = 0
  Nobody = Nobody
  Requests <- NoRequests
  Faults = {"crash", "discard", "wedge"}
  MaxForeign = 1
INVARIANTS
  PortsNeverShared
PROPERTIES
  NoSelfCollision
  RepairIsReached
