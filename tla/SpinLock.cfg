CONSTANTS
  Thread = {t1, t2, t3}
  NoThread = NoThread
  MaxStrays = 2
SPECIFICATION SpinSpec
INVARIANTS MutualExclusion UnlockReleases
PROPERTIES LockProgress ImplementsMutex
