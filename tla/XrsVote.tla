------------------------------- MODULE XrsVote -------------------------------
(***************************************************************************)
(* Stake-weighted block vote (src/xrs-node/src/pow.rs, PoW::vote).  vote  *)
(* sums the stake of every listed validator found in the ledger's stake   *)
(* map and accepts the block when that sum reaches total_stake * 2 / 3,   *)
(* in u64 floor division.  Nothing in the node calls vote yet; the module *)
(* states what it promises to a caller that would.  Stakes are in units   *)
(* of the smallest stake; vote only reads under the ledger lock.          *)
(*                                                                         *)
(* The stake map vote reads is the ledger's: the treasury's entry from    *)
(* Ledger::new, and entries that only grow, by the miner's stake in       *)
(* add_block (ledger.rs:117), an airdrop (ledger.rs:224) or a replayed    *)
(* airdrop line (ledger.rs:83), each `*entry(k).or_insert(0) += amount`.  *)
(***************************************************************************)
EXTENDS Naturals, Sequences, SequencesExt, FiniteSets

CONSTANTS
  Pubkeys,       \* public keys that may gain stake
  Treasury,      \* the treasury key of Ledger::new
  TreasuryStake, \* its initial stake
  StakeAmounts,  \* amounts a stake entry may grow by
  Outsiders,     \* keys a validator slice may list that hold no entry
  MinTotal       \* the smallest total stake the quorum promise is made for

VARIABLE stakes  \* HashMap<Pubkey, u64>

\* stakes.values().sum()
TotalStake(st) == SumFunction(st)

\* `*stakes.entry(k).or_insert(0u64) += amount`
StakeCredited(k, amount) ==
  stakes' = IF k \in DOMAIN stakes THEN [stakes EXCEPT ![k] = @ + amount]
                                   ELSE stakes @@ (k :> amount)

VoteInit == stakes = (Treasury :> TreasuryStake)

VoteNext == \E k \in Pubkeys \cup {Treasury}, amount \in StakeAmounts :
              StakeCredited(k, amount)

VoteSpec == VoteInit /\ [][VoteNext]_stakes


\* the for loop: a validator's stake, or nothing when it has no entry
RECURSIVE Votes(_, _)
Votes(validators, st) ==
  IF validators = <<>> THEN 0
  ELSE (IF Head(validators) \in DOMAIN st THEN st[Head(validators)] ELSE 0)
       + Votes(Tail(validators), st)

\* A mutant: a simple majority threshold.
Vote_Half(validators, st) ==
  Votes(validators, st) >= TotalStake(st) \div 2

\* vote returns Ok(()) exactly when votes >= total_stake * 2 / 3.
Vote(validators, st) ==
  Votes(validators, st) >= (TotalStake(st) * 2) \div 3

\* The validator slices without repetitions (the sum is order-blind, so
\* one order of each set of validators stands for all of them).
DistinctLists == {SetToSeq(S) : S \in SUBSET (DOMAIN stakes \cup Outsiders)}

\* The sets of validators whose slice vote accepts under the current stakes.
Accepting == {l \in DistinctLists : Vote(l, stakes)}

-----------------------------------------------------------------------------
(***************************************************************************)
(* Properties.                                                             *)
(***************************************************************************)

\* In every stake map the ledger can reach, two blocks accepted by vote
\* were voted by at least one common validator holding stake, whenever
\* neither validator slice repeats a key and the total stake is at least
\* MinTotal: the 2/3 threshold, floor division included, makes any two
\* accepting sets meet.  (Below a total of 5 the floor lets two disjoint
\* halves both pass; a slice that lists a validator twice counts its
\* stake twice.)
VoteQuorumsIntersect ==
  TotalStake(stakes) >= MinTotal =>
    \A l1, l2 \in Accepting :
      \E k \in ToSet(l1) \cap ToSet(l2) : k \in DOMAIN stakes /\ stakes[k] > 0
=============================================================================
