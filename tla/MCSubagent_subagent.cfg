\* One call of spawn_subagent; a loop of up to three requests with up to two calls each.
CONSTANTS
  MaxSteps = 3
  MaxBatch = 2
SPECIFICATION SubagentFairSpec
INVARIANTS
  AnsweredWhenGone
  AnswerIsChilds
  ResultsComplete
PROPERTY SubagentReturns
CHECK_DEADLOCK FALSE
