SPECIFICATION Spec
CONSTANTS
  Produced <- MCProduced
  ParentSlot <- MCParentSlot
  Start = 1
  Stop = 3
  MaxConnAttempt = 3
  Zeroed = {3, 6}
  Tweaked = {3}
  Undecodable = {}
  Nil = Nil
CHECK_DEADLOCK FALSE
INVARIANTS TypeOK NoGap InBounds NilIsComplete
PROPERTY ImplementsFeed
