SPECIFICATION FairSpec
CONSTANTS
  a = a
  b = b
  x = x
  y = y
  Threads = {a, b}
  Tasks = {x, y}
  Null = null
  Targets <- MCTargets
INVARIANTS
  QueueBounded
  WakeTargetAlive
  NobodyForgotten
PROPERTIES
  LetGo
  Implements
\* Threads that are not enough to make a generation wait for ever.
CHECK_DEADLOCK FALSE
