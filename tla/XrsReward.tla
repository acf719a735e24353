------------------------------ MODULE XrsReward ------------------------------
(***************************************************************************)
(* Block reward of Ledger::get_block_reward (src/xrs-node/src/ledger.rs): *)
(* base_reward >> (slot / checkpoint_interval) on u64.  In a release      *)
(* build Rust masks the shift amount to its low 6 bits; a debug build      *)
(* panics once it reaches 64.  The release behaviour is modelled.         *)
(***************************************************************************)
EXTENDS Naturals

CONSTANTS
  BaseReward,          \* base_reward (342.5 XRS)
  CheckpointInterval   \* checkpoint_interval (1000), also the halving period

(* x >> n, one bit at a time, so that no power of two leaves TLC's range. *)
RECURSIVE ShiftRight(_, _)
ShiftRight(x, n) == IF n = 0 \/ x = 0 THEN x ELSE ShiftRight(x \div 2, n - 1)

Halvings(slot) == slot \div CheckpointInterval

GetBlockReward(slot) == ShiftRight(BaseReward, Halvings(slot) % 64)

(* The schedule of spec section 8: the base reward halved once per        *)
(* interval, for ever.                                                    *)
HalvedReward(slot) == ShiftRight(BaseReward, Halvings(slot))

=============================================================================
