SPECIFICATION LiveSpec
CONSTANTS
  a = a
  b = b
  u1 = u1
  Loop = Loop
  Tags = {a, b}
  CallerSets <- OneCaller
  InitialTags <- OneTag
  Calm = TRUE
  MaxCalls = 3
  MaxDrops = 2
INVARIANTS
  TagsAgree
PROPERTIES
  TagsArrive
CHECK_DEADLOCK FALSE
