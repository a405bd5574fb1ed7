SPECIFICATION Spec
CONSTANTS
  t1 = t1
  t2 = t2
  Task <- OneTask
  N = 5
  Gates <- SecondAndFourth
  Asks <- First
  Guarded <- ThirdAndFifth
  Notify = TRUE
  Registry = TRUE
  Ops <- OperatorOps
  Booted = TRUE
  MaxCrash = 2
INVARIANTS NoPauseBypassed WaitingMatchesCheckpoint
PROPERTIES NoStepRedone
CHECK_DEADLOCK FALSE
