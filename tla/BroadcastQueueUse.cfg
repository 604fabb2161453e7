SPECIFICATION QueueSpec
CONSTANTS
  QueueLimits <- AtLeastTwo
  Ctl = Ctl
  MaxOffered = 8
  MaxCtl = 2
INVARIANTS
  NoStall
PROPERTIES
  ImplementsChannel
CHECK_DEADLOCK FALSE
