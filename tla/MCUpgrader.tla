----------------------------- MODULE MCUpgrader -----------------------------
(***************************************************************************)
(* Instances of Upgrader for TLC: bundles of two slots.                    *)
(***************************************************************************)
EXTENDS Upgrader, FiniteSetsExt, TLC

(* Slots 2 and 5 were skipped, so bundle 2 consists of its last slot alone *)
(* and bundle 4 is closed only by a block of the next one.                 *)
MCProduced == {0, 1, 3, 4, 6, 7, 8}

MCParentSlot ==
  [s \in Produced |-> IF s = 0 THEN 0 ELSE Max({p \in Produced : p < s})]

(* Two rewards of equal lamports and a smaller one after them; one reward. *)
MCRewards ==
  [s \in Produced |->
     IF s = 3 THEN <<[pubkey |-> "a", lamports |-> 2], [pubkey |-> "b", lamports |-> 2],
                     [pubkey |-> "a", lamports |-> 1]>>
     ELSE IF s = 4 THEN <<[pubkey |-> "a", lamports |-> 3], [pubkey |-> "b", lamports |-> 1]>>
     ELSE <<>>]

(* Two ranges that overlap in a bundle, the first ending inside the next   *)
(* one and the second without an end, so that it meets the corrupt block;  *)
(* a stop block that is not a number; and the command line of the usage    *)
(* text, with one argument for the range.                                  *)
MCArgs == "j1" :> <<0, 5>> @@ "j2" :> <<2, 0>> @@ "j3" :> <<2, -1>> @@ "j4" :> <<-1>>
=============================================================================
