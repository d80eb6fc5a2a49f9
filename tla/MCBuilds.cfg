SPECIFICATION Spec
CONSTANTS
  Cluster = {c1, c2}
  Tree = {t1, t2}
  First = t1
  None = None
  Out = Out
  Nobody = Nobody
  Keep = 1
  Faults = {"crash", "env", "make", "pin", "push", "untag", "wait"}
  MaxFaults = 1
  MaxEdits = 2
SYMMETRY Symmetry
INVARIANTS
  RecordsAreTrue
  StampsAreTrue
  ServesItsTree
  PushedIsThere
