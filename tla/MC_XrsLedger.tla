--------------------------- MODULE MC_XrsLedger ---------------------------
(* The ledger alone, called with any argument by any caller.  Amounts are *)
(* scaled down: Unit = 2 lamports per XRS, so an odd airdrop loses a      *)
(* lamport when written to the file in whole XRS.                         *)
EXTENDS XrsLedger

CONSTANTS t, a1, m1, m2, s1, s2, h1, h2

(* Bounds of the exploration: lines in the ledger file, restarts, and the *)
(* total stake (failed airdrops add stake without writing a line), and   *)
(* the applications of one signature's transfer.                         *)
CONSTANTS MaxLog, MaxRestarts, MaxTotalStake, MaxApplied

MCPubkeys == {a1}
MCMiners == <<m1, m2>>
MCSigs == {s1, s2}
MCTxTo == (s1 :> a1) @@ (s2 :> a1)
MCValidSigs == {s1}
MCHashes == {h1, h2}
MCSlots == 1..2
MCAirdropAmounts == {3, 7}

StateBound ==
  /\ Len(log) <= MaxLog
  /\ restarts <= MaxRestarts
  /\ Len(blocks) < Len(Miners)
  /\ SumFunction(stakes) <= MaxTotalStake
  /\ \A s \in Sigs : applied[s] <= MaxApplied
=============================================================================
