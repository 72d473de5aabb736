SPECIFICATION FairSpec
CONSTANTS
  Produced <- MCProduced
  ParentSlot <- MCParentSlot
  Start = 1
  Stop = 0
  MaxConnAttempt = 2
  Zeroed = {3}
  Tweaked = {3}
  Undecodable = {6}
  Nil = Nil
CHECK_DEADLOCK FALSE
PROPERTY CatchesUp
