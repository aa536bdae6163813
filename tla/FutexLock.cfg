SPECIFICATION FutexSpec
CONSTANTS
  Procs = {p1, p2, p3}
  AdaptiveWaitLoops = 1
INVARIANTS
  FutexTypeOK
  MutualExclusion
  NoLostWakeup
PROPERTY
  ImplementsLock
