SPECIFICATION Spec
CONSTANTS
  t1 = t1
  t2 = t2
  Task <- OneTask
  N = 6
  Gates <- SecondAndFourth
  Asks <- First
  Guarded <- ThirdAndSixth
  Notify = TRUE
  Registry = TRUE
  Ops <- UndisturbedOps
  Booted = TRUE
  MaxCrash = 0
PROPERTIES WorkFollowsDecision
CHECK_DEADLOCK FALSE
