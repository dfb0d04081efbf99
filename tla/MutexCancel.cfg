SPECIFICATION MutexSpec
CONSTANTS
  a = a
  b = b
  x = x
  y = y
  Null = null
  Threads = {a, x, y}
  Tasks = {x, y}
  Calls = {"lock", "unlock"}
  Debug = TRUE
  Closures = FALSE
INVARIANTS
  DropIsSafe
