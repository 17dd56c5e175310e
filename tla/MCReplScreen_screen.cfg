\* Two prompts of up to two iterations, with germinate_spore, a tool that may ask and a
\* name that nobody has registered.
CONSTANTS
  germinate = germinate
  write = write
  unknown = unknown
  none = none
  Nothing = Nothing
  Native = {germinate, write}
  Coordination = {germinate}
  Germinate = germinate
  Names = {germinate, write, unknown}
  Namespaces = {{}}
  Allowlists = {none}
  NoAllowlist = none
  MaxIters = 2
  MaxBatch = 1
  MaxPrompts = 2
  MaxTurns = 1
SPECIFICATION ScreenSpec
INVARIANTS
  InputBoxHeard
  LiveRegionExact
  TurnsAsResumed
  ApprovalAnswerable
CHECK_DEADLOCK FALSE
