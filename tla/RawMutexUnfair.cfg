SPECIFICATION FairSpec
CONSTANTS
  t1 = t1
  t2 = t2
  t3 = t3
  t4 = t4
  Null = null
  Threads = {t1, t2, t3, t4}
  Calls = {"lock", "try_lock", "unlock", "bump"}
  Debug = TRUE
INVARIANTS
  LockedIffOwned
  WaitBitCovers
  WakeTargetAlive
  NoStranded
PROPERTIES
  QuietProgress
  Implements
