SPECIFICATION ChartsSpec
CONSTANTS
  Proc = {p1, p2}
  Version = {v1, v2}
  Chart = {operator, cluster}
  Nobody = Nobody
  Faults = {"byhand", "crash", "pull", "wait"}
  Key = {"name", "v", "w", "x"}
  Profile = {"p", "q"}
  Maps <- OneKey
  MaxLayers = 4
INVARIANTS
  EntriesAreWhole
  MergesByPath
  CreditsTheSetter
PROPERTIES
  PullsOnlyWhatIsMissing
  EveryRunIsAnswered
