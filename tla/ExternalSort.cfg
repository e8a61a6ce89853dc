CONSTANTS
  Inputs <- SomeInputs
  Size <- Length
  BLOCK_SIZE = 2
  MaxFiles = 3
SPECIFICATION Spec
CHECK_DEADLOCK FALSE
INVARIANTS MemoryBounded
PROPERTIES Sorts
