CONSTANTS
  Thread = {t1}
  Tag = {g1, g2, g3, g4}
  SlotCount = 5
  SlotPayload = 2
  HeaderSize = 1
  MallocSize = {2, 3}
  ReallocSize = {0, 3, 6, 15}
  MaxArenas = 2
  MaxCalls = 7
SPECIFICATION Spec
SYMMETRY TagSymmetry
INVARIANTS NoOverlap SpansTile OneArenaPerCall
