SPECIFICATION FairSpec
CONSTANTS
  t1 = t1
  t2 = t2
  t3 = t3
  t4 = t4
  Null = null
  Threads = {t1, t2, t3, t4}
  Calls = {"lock", "try_lock", "unlock_fair"}
  Debug = TRUE
INVARIANT
  FairNeverFree
PROPERTIES
  FairProgress
  Implements
\* Every thread may have panicked.
CHECK_DEADLOCK FALSE
