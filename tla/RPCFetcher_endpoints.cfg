SPECIFICATION Spec
CONSTANTS
  NumClients = 2
  Produced <- MCProduced
  ParentSlot <- MCParentSlot
  Worker = {w1, w2}
  Request = {0, 1, 2, 3}
  UglyHack = {}
  Undecodable = {}
  Unsupported = {0}
SYMMETRY MCSymmetry
INVARIANTS TypeOK LibIsFinal LibIsAncestor AvailableIsConfirmed NoSkipAboveTip
