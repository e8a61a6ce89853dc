CONSTANTS
  Depth = 3
  Granularity = 2
  Capacity = 1
  DirectThreshold = 16
  Tag = {g1, g2, g3}
  NoTag = NoTag
  MallocSize = {1}
  ReallocSize = {4, 5, 12, 20}
  MaxPages = 4
SPECIFICATION Spec
SYMMETRY TagSymmetry
INVARIANTS NoOverlap DataIntact BitmapExact NoNeedlessPage CopiesApart
