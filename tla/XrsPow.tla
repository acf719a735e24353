-------------------------------- MODULE XrsPow --------------------------------
(***************************************************************************)
(* Difficulty of the proof-of-work proposer (src/xrs-node/src/pow.rs).    *)
(*                                                                         *)
(* Each slot the validator either fails to propose (the stake check, a    *)
(* slot with no block) or finds a block: propose_block computes the target *)
(* (0x1f00..00 for the first block, otherwise adjust_difficulty of the    *)
(* last block), searches for a hash below it, and add_block appends it;   *)
(* then the recorder ticks.  Only the leading byte of a hash or target is *)
(* kept: a hash is below the target if its leading byte is lower, or equal *)
(* with lower remaining bytes, which is possible once the target's        *)
(* remaining bytes are those of a previous hash rather than zeros.        *)
(***************************************************************************)
EXTENDS Naturals, Sequences, SequencesExt

CONSTANTS
  TickMs,      \* slot length assumed by adjust_difficulty (400 ms)
  SlowMs,      \* average above which the target is lowered (4000)
  FastMs,      \* average below which the target is raised (3000)
  Window,      \* blocks adjust_difficulty looks back over (10)
  TargetMin,   \* clamp of the leading target byte (0x1a)
  TargetMax,   \* (0x1f)
  BaseTarget,  \* leading byte of the first block's target (0x1f)
  HashBytes    \* leading bytes a found hash may have

VARIABLES
  slot,        \* PoHRecorder slot
  blocks,      \* [slot, h0]: slot and leading hash byte of each block
  target       \* leading byte of the target the last block was mined against

powVars == <<slot, blocks, target>>

(* u8 saturating_sub(1) and saturating_add(1). *)
SatDec(b) == IF b = 0 THEN 0 ELSE b - 1
SatInc(b) == IF b = 255 THEN 255 ELSE b + 1

(* The average block time over the last min(Window, n) blocks, measured   *)
(* from the oldest of them to the current slot, in u64 arithmetic.        *)
AvgBlockTime(s) ==
  LET k == IF Len(blocks) < Window THEN Len(blocks) ELSE Window
      oldest == blocks[Len(blocks) - k + 1]
  IN IF k >= 2 THEN ((s - oldest.slot) * TickMs) \div k ELSE TickMs

(* adjust_difficulty: start from the last block's hash, step its leading  *)
(* byte by one, clamp it to TargetMin..TargetMax.                         *)
AdjustDifficulty(s) ==
  LET t  == Last(blocks).h0
      t1 == IF AvgBlockTime(s) > SlowMs THEN SatDec(t)
            ELSE IF AvgBlockTime(s) < FastMs THEN SatInc(t) ELSE t
      t2 == IF t1 < TargetMin THEN TargetMin ELSE t1
  IN IF t2 > TargetMax THEN TargetMax ELSE t2

TargetFor(s) == IF blocks = <<>> THEN BaseTarget ELSE AdjustDifficulty(s)

(* `hash < target` on the leading bytes. *)
BelowTarget(h, t) == IF blocks = <<>> THEN h < t ELSE h <= t

PowInit ==
  /\ slot = 1          \* start() ticks once
  /\ blocks = <<>>
  /\ target = BaseTarget

(* One iteration of Validator::run: no block this slot, then tick. *)
SkipSlot ==
  /\ slot' = slot + 1
  /\ UNCHANGED <<blocks, target>>

(* Mutant: the loop appends the block but the recorder does not tick. *)
MineBlock_NoTick(h) ==
  /\ BelowTarget(h, TargetFor(slot))
  /\ target' = TargetFor(slot)
  /\ blocks' = Append(blocks, [slot |-> slot, h0 |-> h])
  /\ UNCHANGED slot

(* One iteration with a block: the target, the nonce search ending with   *)
(* a hash of leading byte h, add_block, tick.                             *)
MineBlock(h) ==
  /\ BelowTarget(h, TargetFor(slot))
  /\ target' = TargetFor(slot)
  /\ blocks' = Append(blocks, [slot |-> slot, h0 |-> h])
  /\ slot' = slot + 1

PowNext ==
  \/ SkipSlot
  \/ \E h \in HashBytes : MineBlock(h)

PowSpec == PowInit /\ [][PowNext]_powVars

-----------------------------------------------------------------------------
PowTypeOK ==
  /\ slot \in Nat \ {0}
  /\ \A i \in 1..Len(blocks) : blocks[i].slot < slot /\ blocks[i].h0 \in HashBytes
  /\ target \in 0..255

=============================================================================
