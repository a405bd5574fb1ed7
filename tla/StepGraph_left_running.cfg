SPECIFICATION Spec
CONSTANTS
  N = 4
  Kind <- NestKind
  Cond <- NestCond
  Then <- NestThen
  Else <- NestElse
  Fan <- NestFan
  When <- NestWhen
  MaxLoops = 2
  MaxCrash = 2
  MaxRetry = 1
INVARIANT CompletedIsWhole
CHECK_DEADLOCK FALSE
