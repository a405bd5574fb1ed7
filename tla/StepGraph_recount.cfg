SPECIFICATION Spec
CONSTANTS
  N = 4
  Kind <- NestKind
  Cond <- NestCond
  Then <- NestThen
  Else <- NestElse
  Fan <- NestFan
  When <- NestWhen
  MaxLoops = 3
  MaxCrash = 1
  MaxRetry = 0
INVARIANT MaxLoopsEnforced
CHECK_DEADLOCK FALSE
