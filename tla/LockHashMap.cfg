CONSTANTS
  Thread = {t1, t2}
  NoThread = NoThread
  Key <- MixedKeys
  NBuckets = 2
  WordMod = 16
  MaxNodes = 3
SPECIFICATION Spec
INVARIANTS NoDangling ListInv PrintIsSnapshot FreeReleasesAll
PROPERTIES AtomicBag MutexReleased
