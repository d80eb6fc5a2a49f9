SPECIFICATION Spec
CONSTANTS
  Cluster = {c1}
  Engine = {podman, docker}
  Disk = {d1}
  Runner = {r1}
  Sweeper = {s1}
  Nobody = Nobody
  Faults = {"create", "crash", "delete", "list", "rmdir", "setup", "teardown", "zap"}
  Jobs <- EveryJob
  SweepFlags <- EverySweep
PROPERTIES
  SweepsSpareTheLive
  OnlyPruneForgets
  PruneKeepsParked
  FreshNodesOnCleanDisks
