SPECIFICATION Spec
CONSTANTS
  t1 = t1
  t2 = t2
  t3 = t3
  t4 = t4
  Null = null
  Threads = {t1, t2, t3}
  Calls = {"lock", "try_lock", "try_lock_for", "unlock_fair"}
  Debug = TRUE
INVARIANTS
  QueueIntact
  HandedOnce
\* Every thread may have panicked.
CHECK_DEADLOCK FALSE
