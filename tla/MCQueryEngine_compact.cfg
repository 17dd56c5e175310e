\* Tails of two messages and of 20 tokens; a budget one or two long outputs use up.
CONSTANTS
  f = f
  NoFile = NoFile
  NoRequest = NoRequest
  Refused = Refused
  Files = {f}
  MaxToolOutputChars = 80
  ProtectedTailMessages = 2
  ProtectedTailTokens = 20
  CommandChars = 24
  CallChars = 60
  MarkerChars = 36
  PlaceholderChars = 17
  SnipChars = 64
  WorkingBudget = 150
  PruneThresholdPct = 80
  RefusalThresholdPct = 95
  PromptLengths = {8}
  ReasoningLengths = {40}
  Outputs <- MixedOutputs
  MaxBatch = 4
  MaxMessages = 9
SPECIFICATION Spec
INVARIANTS
  ResultsKept
  ResultsFollowCalls
  PassesIdempotent
  SentWithinBudget
CHECK_DEADLOCK FALSE
