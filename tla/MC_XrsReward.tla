---------------------------- MODULE MC_XrsReward ----------------------------
(* add_block computes the reward of every slot the validator reaches, one *)
(* after another.  Amounts are in units of 1000 lamports so that the base *)
(* reward of 342,500,000,000 lamports fits TLC's integers.                *)
EXTENDS XrsReward

CONSTANT MaxSlot   \* bound: the last slot examined

VARIABLE slot

Init == slot = 0
Next == slot < MaxSlot /\ slot' = slot + 1
Spec == Init /\ [][Next]_slot

(* The reward add_block mints at every slot follows the halving schedule: *)
(* the base reward halved once per checkpoint interval (spec section 8).  *)
RewardFollowsHalving == GetBlockReward(slot) = HalvedReward(slot)
=============================================================================
