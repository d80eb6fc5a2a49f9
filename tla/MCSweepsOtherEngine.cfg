SPECIFICATION Spec
CONSTANTS
  Cluster = {c1}
  Engine = {podman, docker}
  Disk = {d1}
  Runner = {r1}
  Sweeper = {s1}
  Nobody = Nobody
  Faults = {}
  Jobs <- UpsAndDowns
  SweepFlags <- DownAlls
PROPERTIES
  ZapsOnlyTheGone
