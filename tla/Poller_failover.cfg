SPECIFICATION PollerFairSpec
CONSTANTS
  NumClients = 2
  Produced <- MCProduced
  ParentSlot <- MCParentSlot
  Worker = {w1}
  Request = {0, 1, 2, 3}
  UglyHack = {}
  Undecodable = {}
  Unsupported = {}
  StartBlock = 0
  BatchSize = 1
  Zeroed = {3}
  BlockToPatch = {3}
  Nil = Nil

PROPERTIES PollerCatchesUp PollerImplementsFeed FetchReturns
