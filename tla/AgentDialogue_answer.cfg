SPECIFICATION FairSpec
CONSTANTS
  Asks = 1
  Pollers <- TwoPollers
  Repliers <- TwoRepliers
  MaxWaits = 2
  Slack = TRUE
  Interference = FALSE
  MaxLost = 1
  MaxCrash = 2
  MaxRetry = 1
INVARIANTS TypeOK AnswerIsToThisQuestion OpenQuestionIsShown
PROPERTIES StepFailsOnlyUnanswered NeverGivesUpOnAnswered AskEnds
CHECK_DEADLOCK FALSE
