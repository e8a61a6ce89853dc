CONSTANTS
  Thread = {t1, t2}
  Key <- TwoKeys
  NBuckets = 1
  WordMod = 16
  MaxNodes = 3
  PrintWhileBusy = FALSE
SPECIFICATION Spec
SYMMETRY ThreadSymmetry
INVARIANTS LinkedIsReachable Sorted QuiescentClean
PROPERTIES MarkedFrozen Linearizable
