SPECIFICATION FairLockSpec
CONSTANTS
  Proc = {p1, p2, p3}
  Inode = {i1, i2, i3}
  NoOne = NoOne
  NoFile = NoFile
  MaxNest = 2
PROPERTIES
  RefusedOnlyByALiveRun
  ImplementsLock
  AttemptsEnd
