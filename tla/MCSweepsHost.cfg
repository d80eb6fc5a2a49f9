SPECIFICATION Spec
CONSTANTS
  Cluster = {c1, c2}
  Engine = {podman}
  Disk = {d1}
  Runner = {r1}
  Sweeper = {s1}
  Nobody = Nobody
  Faults = {"crash", "delete", "teardown"}
  Jobs <- UpsAndDowns
  SweepFlags <- DownAlls
PROPERTIES
  OnlyTheHolderTouches
  ZapsOnlyTheGone
