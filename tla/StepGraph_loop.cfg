SPECIFICATION FairSpec
CONSTANTS
  N = 6
  Kind <- LoopKind
  Cond <- LoopCond
  Then <- LoopThen
  Else <- LoopElse
  Fan <- LoopFan
  When <- LoopWhen
  MaxLoops = 2
  MaxCrash = 2
  MaxRetry = 1
INVARIANTS TypeOK CompletedIsWhole VerdictIsCurrent LoopsBounded
PROPERTIES NothingRunsPastFailure RunEnds
CHECK_DEADLOCK FALSE
