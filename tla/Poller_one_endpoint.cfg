SPECIFICATION PollerSpec
CONSTANTS
  NumClients = 1
  Produced <- MCLongest
  ParentSlot <- MCParentSlot
  Worker = {w1, w2}
  Request = {0, 1, 2, 3, 4, 5}
  UglyHack = {}
  Undecodable = {5}
  Unsupported = {}
  StartBlock = 1
  BatchSize = 2
  Zeroed = {3}
  BlockToPatch = {3}
  Nil = Nil
SYMMETRY MCSymmetry
INVARIANTS PollerTypeOK AlwaysLinks NoBlockBelowLib NoBlockLost
PROPERTIES PollerImplementsFeed RepeatsOnlyLast
