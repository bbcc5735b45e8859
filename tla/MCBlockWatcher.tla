--------------------------- MODULE MCBlockWatcher ---------------------------
(***************************************************************************)
(* Instances of BlockWatcher for TLC: two pools, p, which must have slots, *)
(* and q, which may have none; epochs of three slots.                      *)
(***************************************************************************)
EXTENDS BlockWatcher

CONSTANTS p, q

MCPools      == {p, q}
MCAllowEmpty == {q}

(* Slot 2 is a battle between the two; 3 is the first slot of epoch 1, in  *)
(* which q has nothing, as it may; in epoch 2 p has nothing, as it must    *)
(* not: the watcher panics there (NoNextSlotIsNoPanic) and is restarted.   *)
MCLeads == [x \in MCPools |-> IF x = p THEN {1, 2, 3, 4, 5} \cap Slots
                                       ELSE {2, 6, 8} \cap Slots]

(* p misses two slots in a row, loses one and misses one more. *)
Sparse == [s \in Slots |-> IF s \in {1, 3, 4, 7} THEN NoBlock
                           ELSE IF s = 2 THEN q ELSE Other]

(* p misses one slot, then has all; one late block in epochs 1 and 2. *)
Late == [s \in Slots |-> IF s \in {0, 2, 5, 8} THEN p ELSE NoBlock]

MCChains == {Sparse, Late}
=============================================================================
