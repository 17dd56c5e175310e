\* One turn of up to three iterations with up to two calls each, of germinate_spore and an MCP tool.
CONSTANTS
  germinate = germinate
  mcp = mcp
  none = none
  Nothing = Nothing
  Native = {germinate}
  Coordination = {germinate}
  Germinate = germinate
  Names = {germinate, mcp}
  Namespaces = {{mcp}}
  Allowlists = {none, {}}
  NoAllowlist = none
  MaxIters = 3
  MaxBatch = 2
  MaxPrompts = 1
SPECIFICATION FairSpec
INVARIANTS
  CallsAnswered
  FlashCarriesNoReasoning
  OfferedUnlessGerminated
PROPERTY TurnEnds
CHECK_DEADLOCK FALSE
