---------------------------- MODULE MCSlotLeader ----------------------------
(* Instances of SlotLeader for TLC: two pools, refreshed one at a time. *)
EXTENDS SlotLeader

CONSTANTS p, q

MCPools == {p, q}
=============================================================================
