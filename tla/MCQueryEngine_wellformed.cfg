\* Failed calls only: runs of failures that straddle the protected tail.
CONSTANTS
  f = f
  NoFile = NoFile
  NoRequest = NoRequest
  Refused = Refused
  Files = {f}
  MaxToolOutputChars = 80
  ProtectedTailMessages = 2
  ProtectedTailTokens = 20
  CommandChars = 24
  CallChars = 60
  MarkerChars = 36
  PlaceholderChars = 17
  SnipChars = 64
  WorkingBudget = 150
  PruneThresholdPct = 80
  RefusalThresholdPct = 95
  PromptLengths = {8}
  ReasoningLengths = {0}
  Outputs <- Failures
  MaxBatch = 5
  MaxMessages = 9
SPECIFICATION Spec
INVARIANTS
  RequestWellFormed
CHECK_DEADLOCK FALSE
