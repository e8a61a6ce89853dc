CONSTANTS
  Thread = {t1, t2}
  Tag = {g1, g2}
  SlotCount = 4
  SlotPayload = 2
  HeaderSize = 1
  MallocSize = {2}
  ReallocSize = {}
  MaxArenas = 2
  MaxCalls = 4
SPECIFICATION Spec
SYMMETRY TagSymmetry
INVARIANT NoOverlap
