CONSTANTS
  Client <- ThreeClients
  Flaky = {1}
  Requests <- SomeRequests
  NWorkers = 2
  MaxFd = 3
  ReplyBits = 2
  Term = Term
  None = None
SPECIFICATION Spec
CHECK_DEADLOCK FALSE
INVARIANTS OneOwner CopyAligned TotalReported
PROPERTIES Answered ImplementsCounter
