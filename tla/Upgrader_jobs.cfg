SPECIFICATION FairSpec
CONSTANTS
  Produced <- MCProduced
  ParentSlot <- MCParentSlot
  Nil = Nil
  Job = {"j1", "j2", "j3", "j4"}
  Args <- MCArgs
  BundleSize = 2
  Rewards <- MCRewards
  Corrupt = {8}
INVARIANTS TypeOK BundlesWhole BlocksUpgraded CompleteIsDone
PROPERTY Completes
