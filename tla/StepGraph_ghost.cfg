SPECIFICATION Spec
CONSTANTS
  N = 6
  Kind <- LoopKind
  Cond <- LoopCond
  Then <- LoopThen
  Else <- LoopElse
  Fan <- LoopFan
  When <- LoopWhen
  MaxLoops = 2
  MaxCrash = 0
  MaxRetry = 1
PROPERTY AbortsAreJustified
CHECK_DEADLOCK FALSE
