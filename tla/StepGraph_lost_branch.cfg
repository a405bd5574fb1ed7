SPECIFICATION Spec
CONSTANTS
  N = 5
  Kind <- ForkKind
  Cond <- ForkNone
  Then <- ForkThen
  Else <- ForkNone
  Fan <- ForkFan
  When <- ForkNone
  MaxLoops = 2
  MaxCrash = 1
  MaxRetry = 0
INVARIANT CompletedIsWhole
CHECK_DEADLOCK FALSE
