SPECIFICATION FairSpec
CONSTANTS
  Asks = 1
  Pollers <- TwoPollers
  Repliers <- OneReplier
  MaxWaits = 2
  Slack = FALSE
  Interference = FALSE
  MaxLost = 0
  MaxCrash = 1
  MaxRetry = 0
INVARIANT QuestionIsShown
CHECK_DEADLOCK FALSE
