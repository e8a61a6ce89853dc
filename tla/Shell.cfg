CONSTANTS
  Lines <- SomeLines
  MaxLines = 2
  MaxLength = 4
  PipeSize = 1
  Amount = 3
  CallsMayFail = TRUE
SPECIFICATION Spec
CHECK_DEADLOCK FALSE
INVARIANTS OnlyBackgroundLeft Delivered
PROPERTIES PromptReturns
