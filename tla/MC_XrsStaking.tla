---------------------------- MODULE MC_XrsStaking ----------------------------
(* The stake leg: staking.rs's stake accounts beside the ledger stake map *)
(* that PoW::vote weighs.  The two share no state; a step is one of       *)
(* either, the other left unchanged.                                       *)
EXTENDS XrsStaking, XrsVote

CONSTANTS o1, MaxTime, MaxAmount, MaxRep, t, p1, p2, x1, MaxTotalStake

MCOwners == {o1}
MCPubkeys == {p1, p2}
MCOutsiders == {x1}
MCStakeAmounts == {2}

StakeLegInit == StakingInit /\ VoteInit

StakeLegNext ==
  \/ StakingNext /\ UNCHANGED stakes
  \/ VoteNext /\ UNCHANGED stakingVars

StateBound ==
  /\ now <= MaxTime
  /\ \A o \in Owners : accounts[o] # NoAccount =>
        accounts[o].amount <= MaxAmount /\ accounts[o].rep <= MaxRep
  /\ TotalStake(stakes) <= MaxTotalStake
=============================================================================
