---------------------------- MODULE MCRPCFetcher ----------------------------
(***************************************************************************)
(* Instances of RPCFetcher for TLC: a short ledger with a skipped slot in  *)
(* the middle and a block above it.                                        *)
(***************************************************************************)
EXTENDS RPCFetcher, FiniteSets, FiniteSetsExt, TLC

(* Slots 0, 1 and 3 hold blocks, slot 2 was skipped.                       *)
MCProduced == {0, 1, 3}

MCParentSlot ==
  [s \in Produced |-> IF s = 0 THEN 0 ELSE Max({p \in Produced : p < s})]

MCSymmetry == Permutations(Worker)
=============================================================================
