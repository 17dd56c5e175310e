\* Two installations of a spore, each with --regenerate or without, and a session that boots.
CONSTANTS
  i1 = i1
  i2 = i2
  original = original
  add = add
  note = note
  nobody = nobody
  absent = absent
  Installs = {i1, i2}
  Original = original
  Commands = {add}
  Notes = {note}
  Absent = absent
  Nobody = nobody
SPECIFICATION FairSpec
INVARIANTS
  TargetWhole
  NotesKept
  FoundIsWhole
PROPERTY InstallEnds
CHECK_DEADLOCK FALSE
