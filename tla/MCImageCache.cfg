SPECIFICATION CacheSpec
CONSTANTS
  old = old
  new = new
  None = None
  Caller = {p1, p2, p3}
  Binary = {old, new}
  ImageOf <- TwoImages
  First = old
  Mishaps = {"crash", "reboot", "teardown", "upgrade",
             "disk", "run", "start", "rm", "look"}
SYMMETRY Alike
INVARIANTS
  NoLostRace
  Converge
  ServesTheConfig
