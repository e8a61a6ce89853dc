CONSTANTS
  Thread = {t1, t2}
  Key <- MixedKeys
  NBuckets = 2
  WordMod = 16
  MaxNodes = 2
  PrintWhileBusy = FALSE
SPECIFICATION Spec
INVARIANT PrintShowsContents
PROPERTIES CallsReturn
