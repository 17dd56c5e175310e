\* Three prompts, up to two crashes or quits with --resume; a crash may cut a line short or keep its
\* newline from it.
CONSTANTS
  tool = tool
  none = none
  Nothing = Nothing
  Native = {tool}
  Coordination = {tool}
  Germinate = tool
  Names = {tool}
  Namespaces = {}
  Allowlists = {none}
  NoAllowlist = none
  MaxIters = 1
  MaxBatch = 2
  MaxPrompts = 3
  TornWrites = {"partial", "unterminated"}
  MaxResumes = 2
SPECIFICATION SessionSpec
INVARIANTS
  AnsweredUnlessLost
  LogTracksHistory
CHECK_DEADLOCK FALSE
