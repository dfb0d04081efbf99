SPECIFICATION Spec
CONSTANTS
  t1 = t1
  t2 = t2
  t3 = t3
  Threads = {t1, t2, t3}
  Null = null
  MaxLost = 2
SYMMETRY ThreadSymmetry
INVARIANTS
  Exclusive
  MutexOutlivesUse
  CountExact
PROPERTY
  OwnersUnlock
\* Everybody may be behind a leaked guard, or the mutex may be gone.
CHECK_DEADLOCK FALSE
