\* Two MCP spores and a plain one, with and without allowed_tools and commands.
CONSTANTS
  web = web
  db = db
  docs = docs
  NoSpore = NoSpore
  Spores = {web, db, docs}
  McpSpores = {web, db}
  Restricting = {web, docs}
  Commanding = {web}
  MaxSections = 3
SPECIFICATION FairSpec
INVARIANTS
  OneActiveSpore
  OneBody
  WrappersServed
  ServersOwned
PROPERTY CommandEnds
CHECK_DEADLOCK FALSE
