SPECIFICATION Spec
CONSTANTS
  t1 = t1
  t2 = t2
  t3 = t3
  t4 = t4
  Null = null
  Threads = {t1, t2, t3}
  Calls = {"lock", "unlock", "unlock_fair"}
  Debug = FALSE
INVARIANT
  MutualExclusion
