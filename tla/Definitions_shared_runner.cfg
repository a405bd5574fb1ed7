SPECIFICATION Spec
CONSTANTS
  r1 = r1
  r2 = r2
  NoRun = NoRun
  Runs <- TwoRuns
  Editors <- One
  EditOps <- Replacing
  Operators <- Nobody
  MaxVersion = 1
  Broken <- Nobody
  Fragile <- Nobody
  Scheduled <- Nobody
  Overlap = FALSE
  Early = FALSE
  MaxTasks = 2
  MaxOps = 0
  MaxCrash = 0
INVARIANT OwnDocumentWritten
CHECK_DEADLOCK FALSE
