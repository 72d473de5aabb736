-------------------------- MODULE MCBigtableReader --------------------------
(***************************************************************************)
(* Instances of BigtableReader for TLC: a short ledger with a skipped slot.*)
(***************************************************************************)
EXTENDS BigtableReader, FiniteSetsExt

(* Slots 0, 1, 3, 4, 5 and 6 hold blocks, slot 2 was skipped.              *)
MCProduced == {0, 1, 3, 4, 5, 6}

MCParentSlot ==
  [s \in Produced |-> IF s = 0 THEN 0 ELSE Max({p \in Produced : p < s})]
=============================================================================
