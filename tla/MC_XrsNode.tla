---------------------------- MODULE MC_XrsNode ----------------------------
(* The node with one HTTP client.  Amounts are scaled down as in          *)
(* MC_XrsLedger; the proposer minimum equals the start-up airdrop, as     *)
(* 1000 XRS does in main.rs and pow.rs.                                   *)
EXTENDS XrsNode

CONSTANTS t, v, a1, m1, m2, m3, s1

(* Bounds of the exploration: the recorder's slot, lines in the ledger    *)
(* file, restarts, the total stake, and the applications of one          *)
(* signature's transfer.                                                   *)
CONSTANTS MaxSlot, MaxLog, MaxRestarts, MaxTotalStake, MaxApplied

MCPubkeys == {a1, v}
MCMiners == <<m1, m2, m3>>
MCSigs == {s1}
MCTxTo == s1 :> a1
MCValidSigs == {s1}
MCSlots == 0..MaxSlot
MCHashes == {Digest(s) : s \in MCSlots}
MCAirdropAmounts == {3, 7}

StateBound ==
  /\ pohSlot <= MaxSlot
  /\ Len(log) <= MaxLog
  /\ restarts <= MaxRestarts
  /\ Len(blocks) < Len(Miners)
  /\ SumFunction(stakes) <= MaxTotalStake
  /\ \A s \in Sigs : applied[s] <= MaxApplied
=============================================================================
