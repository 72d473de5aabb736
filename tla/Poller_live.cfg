SPECIFICATION PollerFairSpec
CONSTANTS
  NumClients = 1
  Produced <- MCLongest
  ParentSlot <- MCParentSlot
  Worker = {w1}
  Request = {0, 1, 2, 3, 4, 5}
  UglyHack = {2}
  Undecodable = {}
  Unsupported = {5}
  StartBlock = 2
  BatchSize = 1
  Zeroed = {4}
  BlockToPatch = {4}
  Nil = Nil
PROPERTIES PollerCatchesUp LibNeverBack
