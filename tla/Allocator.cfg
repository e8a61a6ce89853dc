CONSTANTS
  PageSize = 2
  Capacity = 1
  NPages = 4
  Zero = Zero
  Junk = Junk
  Tag = {g1, g2}
  BuddyCells <- TwoBuddies
  SlotCells <- TwoSlots
  Bucket <- SmallBuckets
  BuddyMax = 2
  SlotMax = 4
  SlotThreshold = 2
  DirectThreshold = 4
  MallocSize = {1, 4}
  CallocArgs <- SomeCalloc
  ReallocSize = {0, 2, 3}
SPECIFICATION Spec
SYMMETRY TagSymmetry
CHECK_DEADLOCK FALSE
INVARIANTS RegionsExact DataIntact BooksBalance
