SPECIFICATION Spec
CONSTANTS
  t1 = t1
  t2 = t2
  t3 = t3
  t4 = t4
  Threads = {t1, t2, t3, t4}
  Null = null
  SpinLimit = 1
SYMMETRY ThreadSymmetry
INVARIANTS
  MutualExclusion
  StackIntact
  PopReadsLiveNode
  WakeTargetParked
  NoLostWakeup
