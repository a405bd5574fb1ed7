SPECIFICATION FairSpec
CONSTANTS
  r1 = r1
  r2 = r2
  NoRun = NoRun
  Runs <- OneRun
  Editors <- One
  EditOps <- AllEdits
  Operators <- One
  MaxVersion = 3
  Broken <- Second
  Fragile <- Third
  Scheduled <- First
  Overlap = FALSE
  Early = FALSE
  MaxTasks = 2
  MaxOps = 1
  MaxCrash = 2
INVARIANTS TypeOK KeepsItsDefinition WaitingRunHasRunner RegistryIsCurrent ScheduleIsCurrent
PROPERTY SnapshotRunsSettle
CHECK_DEADLOCK FALSE
