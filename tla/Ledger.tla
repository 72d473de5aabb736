------------------------------- MODULE Ledger -------------------------------
(***************************************************************************)
(* The Solana ledger both readers of the repository take blocks from: a    *)
(* fixed history in which some slots hold a block and the others were      *)
(* skipped by their leader.  A block is named by its slot, and that name   *)
(* also stands for its block hash.                                         *)
(***************************************************************************)
EXTENDS Naturals

CONSTANTS
  Produced,     \* the slots that hold a block
  ParentSlot    \* the parent slot of each block

ASSUME LedgerAssumption ==
  /\ Produced \subseteq Nat
  /\ 0 \in Produced
  /\ ParentSlot \in [Produced -> Produced]
  /\ ParentSlot[0] = 0
  /\ \A s \in Produced \ {0} :
       /\ ParentSlot[s] < s
       /\ \A p \in Produced : p < s => p <= ParentSlot[s]
=============================================================================
