SPECIFICATION Spec
CONSTANTS
  r1 = r1
  r2 = r2
  NoRun = NoRun
  Runs <- OneRun
  Editors <- One
  EditOps <- RouteEdits
  Operators <- Two
  MaxVersion = 2
  Broken <- Nobody
  Fragile <- Nobody
  Scheduled <- Nobody
  Overlap = FALSE
  Early = FALSE
  MaxTasks = 2
  MaxOps = 2
  MaxCrash = 1
INVARIANTS KeepsItsDefinition WaitingRunHasRunner
CHECK_DEADLOCK FALSE
