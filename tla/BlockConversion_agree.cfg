SPECIFICATION Spec
CONSTANTS
  Nil = Nil
  Node = {n1, n2}
  Answer <- MCAnswer
  BlockToPatch <- MCBlockToPatch
  ErrorName = {"InsufficientFunds"}
  SystemProgram = "11111111111111111111111111111111"
  Malformed = "?"
  Opaque = {"i", "b", "t", "u"}
SYMMETRY MCSymmetry
INVARIANTS NothingLost NodesAgree HeaderAgrees NoPartialBlock
