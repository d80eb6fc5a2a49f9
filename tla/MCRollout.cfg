SPECIFICATION RolloutSpec
CONSTANTS
  Tag = {main, wip}
  Digest = {d1, d2}
  Node = {n1}
  Version = {v1}
  Clone = Clone
  Modern <- OnlyTheClone
  Profile = {p1, p2}
  Templated = {p1}
  Home = Home
  None = None
  Attempts = 2
  Faults <- AllFaults
  MaxFaults = 1
  Interval = 2
  Timeout = 4
  PollBudget = 2
  DiagBudget = 1
  Diags = 2
  MaxSlips = 1
INVARIANTS NeverStale OfAPiece SaysWhatIsSo
PROPERTIES DeployReached WaitInTime
CHECK_DEADLOCK FALSE
