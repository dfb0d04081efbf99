SPECIFICATION MutexFairSpec
CONSTANTS
  a = a
  b = b
  x = x
  y = y
  Null = null
  Threads = {a, x, y}
  Tasks = {x, y}
  Calls = {"lock", "try_lock_for", "unlock"}
  Debug = TRUE
  Closures = TRUE
INVARIANTS
  WaitersQueued
  NobodyStranded
PROPERTIES
  GuardsImplement
  TaskProgress
