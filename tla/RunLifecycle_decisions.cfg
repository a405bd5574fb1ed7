SPECIFICATION Spec
CONSTANTS
  t1 = t1
  t2 = t2
  Task <- TwoTasks
  N = 4
  Gates <- First
  Asks <- Third
  Guarded <- SecondAndFourth
  Notify = FALSE
  Registry = TRUE
  Ops <- DecisionsOnly
  Booted = TRUE
  MaxCrash = 0
SYMMETRY Symmetry
INVARIANTS OneStream DecisionsReachTheirGate RejectionIsFinal ApprovalTakesEffect
PROPERTY WorkFollowsDecision
CHECK_DEADLOCK FALSE
