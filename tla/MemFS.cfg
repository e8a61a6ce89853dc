CONSTANTS
  Char <- Letters
  Path <- SomePaths
  Data <- SomeData
  MaxSize = 4
  MaxWrites = 3
  Slash = "/"
SPECIFICATION Spec
CHECK_DEADLOCK FALSE
INVARIANTS ListsMembers ReadsBack
