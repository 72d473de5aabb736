SPECIFICATION Spec
CONSTANTS
  Produced <- MCProduced
  ParentSlot <- MCParentSlot
  Start = 1
  Stop = 4
  MaxConnAttempt = 2
  Zeroed = {}
  Tweaked = {}
  Undecodable = {}
  Nil = Nil
CHECK_DEADLOCK FALSE
INVARIANT UnlinkableReconnects
