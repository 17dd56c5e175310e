\* As the spores run: a session that boots with a pin.
CONSTANTS
  web = web
  db = db
  docs = docs
  NoSpore = NoSpore
  Spores = {web, db, docs}
  McpSpores = {web, db}
  Restricting = {web, docs}
  Commanding = {web}
  MaxSections = 3
SPECIFICATION Spec
INVARIANT BasePromptKept
CHECK_DEADLOCK FALSE
