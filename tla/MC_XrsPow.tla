------------------------------ MODULE MC_XrsPow ------------------------------
EXTENDS XrsPow

CONSTANTS MaxSlot, MaxBlocks

(* Leading hash bytes on both sides of the clamp and at its ends. *)
MCHashBytes == {0, 25, 26, 28, 31}

StateBound == slot <= MaxSlot /\ Len(blocks) <= MaxBlocks
=============================================================================
