SPECIFICATION Spec
CONSTANTS
  r1 = r1
  r2 = r2
  NoRun = NoRun
  Runs <- OneRun
  Editors <- One
  EditOps <- Replacing
  Operators <- One
  MaxVersion = 2
  Broken <- Nobody
  Fragile <- Nobody
  Scheduled <- Nobody
  Overlap = FALSE
  Early = FALSE
  MaxTasks = 2
  MaxOps = 1
  MaxCrash = 0
INVARIANT DefinitionNeverSwapped
CHECK_DEADLOCK FALSE
