------------------------------ MODULE MCPoller ------------------------------
(***************************************************************************)
(* Instances of Poller for TLC: a short ledger with a skipped slot.        *)
(***************************************************************************)
EXTENDS Poller, FiniteSets, FiniteSetsExt, TLC

(* Slots 0, 1 and 3 hold blocks, slot 2 was skipped.                       *)
MCProduced == {0, 1, 3}

(* One block more, and two.                                                *)
MCLonger == {0, 1, 3, 4}
MCLongest == {0, 1, 3, 4, 5}

MCParentSlot ==
  [s \in Produced |-> IF s = 0 THEN 0 ELSE Max({p \in Produced : p < s})]

MCSymmetry == Permutations(Worker)
=============================================================================
