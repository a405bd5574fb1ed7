SPECIFICATION Spec
CONSTANTS
  Asks = 2
  Pollers <- TwoPollers
  Repliers <- OneReplier
  MaxWaits = 3
  Slack = FALSE
  Interference = FALSE
  MaxLost = 0
  MaxCrash = 0
  MaxRetry = 0
INVARIANT AnswerIsToThisQuestion
CHECK_DEADLOCK FALSE
