----------------------------- MODULE XrsLedger -----------------------------
(***************************************************************************)
(* The ledger of the XRS node (src/xrs-node/src/ledger.rs): balances,     *)
(* stakes, the block vector, the double-spend set and Merkle leaves, and   *)
(* the append-only file it writes and replays on construction.            *)
(*                                                                         *)
(* Every public method runs under the one Mutex<Ledger>, so each call is   *)
(* one atomic step here.  Amounts are in an abstract lamport unit; Unit    *)
(* lamports make one XRS, which matters because the log writes whole XRS. *)
(* A file open or write may fail (IOFailures); a process restart rebuilds  *)
(* the ledger with Ledger::new from the file that survived.               *)
(***************************************************************************)
EXTENDS Integers, Sequences, FiniteSets, SequencesExt, XrsReward

CONSTANTS
  Treasury,        \* the key Ledger::new funds (first Pubkey::new_unique of the process)
  Pubkeys,         \* other valid public keys clients name as addresses
  Miners,          \* sequence of the fresh keys add_block mints to, one per block
  Sigs,            \* transaction signatures; their text is an address but not a Pubkey
  TxTo,            \* TxTo[s]: account_keys[1] of the transaction signed with s
  ValidSigs,       \* the signatures whose transaction passes tx.verify()
  Hashes,          \* block hashes a caller may present
  Unit,            \* lamports per XRS
  TreasuryInit,    \* initial treasury balance (200M XRS)
  TreasuryStake,   \* initial treasury stake (100M XRS)
  MinerStake,      \* stake added per mined block (1 XRS)
  AirdropCap,      \* absolute per-call airdrop cap (10k XRS)
  TxAmount,        \* fixed transfer amount of add_transaction (10 XRS)
  TxFee,           \* fixed burned fee (0.1% of TxAmount)
  FinalitySlots,   \* finality_slots (10)
  SignatureBytes,  \* length of tx.signatures[0].as_ref() (64 for ed25519)
  IOFailures,      \* TRUE: opening or writing the ledger file may fail
  Slots,           \* slots callers pass to add_block and add_transaction
  AirdropAmounts   \* amounts (lamports) HTTP clients request in /airdrop

ValidPubkeys == {Treasury} \cup Pubkeys \cup ToSet(Miners)
Addrs == ValidPubkeys \cup Sigs
IOOutcomes == IF IOFailures THEN BOOLEAN ELSE {TRUE}

Results == {"ok", "MaliciousBlock", "DoubleSpend", "InvalidSignature",
            "SenderNotFound", "InsufficientFunds", "AirdropLimitExceeded",
            "InvalidPubkey", "InvalidSignatureLength", "PersistenceFailure"}

VARIABLES
  balances,   \* HashMap<String, u64>: address -> lamports
  stakes,     \* HashMap<Pubkey, u64>
  blocks,     \* Vec<Block>: sequence of [slot, hash]
  txSeen,     \* tx_hashes: signatures applied in this process
  txLeaves,   \* tx_leaves: Merkle leaves, one per applied signature
  log,        \* the ledger file: sequence of lines
  lastCall,   \* the call just made and the result its caller saw
  restarts,   \* number of restarts so far
  minted,     \* ghost: rewards minted in this process
  burned,     \* ghost: fees burned in this process
  acked,      \* ghost: per address, lamports of airdrops reported Ok (all runs)
  applied     \* ghost: per signature, how often its transfer moved balances

ledgerVars == <<balances, stakes, blocks, txSeen, txLeaves, log, lastCall,
                restarts, minted, burned, acked, applied>>

(* *map.entry(k).or_insert(0) += x *)
EntryAdd(f, k, x) == IF k \in DOMAIN f THEN [f EXCEPT ![k] = @ + x]
                                       ELSE f @@ (k :> x)
BalanceOf(a) == IF a \in DOMAIN balances THEN balances[a] ELSE 0
Call(op, to, amount, result) ==
  [op |-> op, to |-> to, amount |-> amount, result |-> result]

(* Lines of the ledger file, by the text they start with. *)
Line(tag, to, n) == [tag |-> tag, to |-> to, n |-> n]

(***************************************************************************)
(* Ledger::new: the treasury is funded, then every line that starts with  *)
(* "Airdrop: " is replayed: the recipient is credited first, the treasury *)
(* debited only if it can pay, and the stake credited only if the         *)
(* address parses as a Pubkey.                                            *)
(***************************************************************************)
Genesis == [balances |-> Treasury :> TreasuryInit,
            stakes   |-> Treasury :> TreasuryStake]
IsAirdropLine(l) == l.tag = "Airdrop: "
RestoreAirdrop(st, l) ==
  LET amt == l.n * Unit
      b1  == EntryAdd(st.balances, l.to, amt)
  IN IF b1[Treasury] >= amt
     THEN [balances |-> [b1 EXCEPT ![Treasury] = @ - amt],
           stakes   |-> IF l.to \in ValidPubkeys
                        THEN EntryAdd(st.stakes, l.to, amt) ELSE st.stakes]
     ELSE [balances |-> b1, stakes |-> st.stakes]
Replay(file) ==
  FoldLeft(LAMBDA st, l : IF IsAirdropLine(l) THEN RestoreAirdrop(st, l) ELSE st,
           Genesis, file)

LedgerInit ==
  /\ balances = Genesis.balances
  /\ stakes = Genesis.stakes
  /\ blocks = <<>>
  /\ txSeen = {}
  /\ txLeaves = <<>>
  /\ log = <<>>
  /\ lastCall = Call("new", Treasury, 0, "ok")
  /\ restarts = 0
  /\ minted = 0
  /\ burned = 0
  /\ acked = [a \in Addrs |-> 0]
  /\ applied = [s \in Sigs |-> 0]

(* The process dies and Ledger::new runs again on the surviving file; a   *)
(* failed open of the file skips the replay.                              *)
Restart ==
  /\ \E readOk \in IOOutcomes :
       LET st == IF readOk THEN Replay(log) ELSE Genesis
       IN /\ balances' = st.balances
          /\ stakes' = st.stakes
  /\ blocks' = <<>>
  /\ txSeen' = {}
  /\ txLeaves' = <<>>
  /\ lastCall' = Call("new", Treasury, 0, "ok")
  /\ restarts' = restarts + 1
  /\ minted' = 0
  /\ burned' = 0
  /\ UNCHANGED <<log, acked, applied>>

(***************************************************************************)
(* add_block                                                              *)
(***************************************************************************)
DetectMalicious(slot, hash) ==
  /\ blocks # <<>>
  /\ \/ slot <= Last(blocks).slot
     \/ hash = Last(blocks).hash

(* create_checkpoint: the marker line it appends. *)
CheckpointLine(slot) == Line("Local Alpha: Checkpoint", Treasury, slot)

AddBlock(slot, hash) ==
  /\ IF DetectMalicious(slot, hash)
     THEN /\ lastCall' = Call("add_block", Treasury, 0, "MaliciousBlock")
          /\ UNCHANGED <<balances, stakes, blocks, log, minted>>
     ELSE \E ioOk \in IOOutcomes :
            LET checkpoint == slot % CheckpointInterval = 0
                miner == Miners[Len(blocks) + 1]
                reward == GetBlockReward(slot)
            IN IF checkpoint /\ ~ioOk
               THEN /\ lastCall' = Call("add_block", miner, 0, "PersistenceFailure")
                    /\ UNCHANGED <<balances, stakes, blocks, log, minted>>
               ELSE /\ log' = IF checkpoint THEN Append(log, CheckpointLine(slot))
                                            ELSE log
                    /\ blocks' = Append(blocks, [slot |-> slot, hash |-> hash])
                    /\ balances' = EntryAdd(balances, miner, reward)
                    /\ stakes' = EntryAdd(stakes, miner, MinerStake)
                    /\ minted' = minted + reward
                    /\ lastCall' = Call("add_block", miner, reward, "ok")
  /\ UNCHANGED <<txSeen, txLeaves, restarts, burned, acked, applied>>

(***************************************************************************)
(* add_transaction(tx, slot).  The sender is looked up under the text of  *)
(* the transaction's first signature.  After the balances move, the       *)
(* signature is converted to a 32-byte Merkle leaf with `?`: for a        *)
(* 64-byte signature that conversion fails and the call returns before    *)
(* tx_hashes, the leaves and the file are touched.  Past it, a failing    *)
(* write returns an error after the state change.                         *)
(***************************************************************************)
(* Mutants: a funds test without the fee; the fee credited to the        *)
(* recipient instead of burned.                                           *)
HasFunds_NoFee(bal) == bal >= TxAmount
(* Mutant: the sender's debit forgotten. *)
Transfer_NoDebit(b, from, to) == EntryAdd(b, to, TxAmount)
Transfer_FeeKept(b, from, to) ==
  EntryAdd([b EXCEPT ![from] = @ - (TxAmount + TxFee)], to, TxAmount + TxFee)

IsDoubleSpend(s) == s \in txSeen
HasFunds(bal) == bal >= TxAmount + TxFee
Transfer(b, from, to) ==
  EntryAdd([b EXCEPT ![from] = @ - (TxAmount + TxFee)], to, TxAmount)
(* <[u8; 32]>::try_from(signature bytes) *)
LeafConversionOk == SignatureBytes = 32
TxLines(s, slot) ==
  <<Line("Local Alpha: Slot", s, slot), Line("Transfer: ", TxTo[s], TxAmount)>>
  \o (IF slot >= FinalitySlots THEN <<Line("Local Alpha: Tx finalized", s, slot)>>
                               ELSE <<>>)

RejectTransaction(s, why) ==
  /\ lastCall' = Call("add_transaction", s, 0, why)
  /\ UNCHANGED <<balances, txSeen, txLeaves, log, burned, applied>>

AddTransaction(s, slot) ==
  /\ \E openOk \in IOOutcomes :
     CASE IsDoubleSpend(s)          -> RejectTransaction(s, "DoubleSpend")
       [] ~openOk                   -> RejectTransaction(s, "PersistenceFailure")
       [] s \notin ValidSigs        -> RejectTransaction(s, "InvalidSignature")
       [] s \notin DOMAIN balances  -> RejectTransaction(s, "SenderNotFound")
       [] ~HasFunds(balances[s])    -> RejectTransaction(s, "InsufficientFunds")
       [] OTHER ->
            /\ balances' = Transfer(balances, s, TxTo[s])
            /\ burned' = burned + TxFee
            /\ applied' = [applied EXCEPT ![s] = @ + 1]
            /\ IF ~LeafConversionOk
               THEN /\ lastCall' = Call("add_transaction", s, TxAmount,
                                        "InvalidSignatureLength")
                    /\ UNCHANGED <<txSeen, txLeaves, log>>
               ELSE \E written \in (IF IOFailures THEN 0 ELSE Len(TxLines(s, slot)))
                                   ..Len(TxLines(s, slot)) :
                      /\ txLeaves' = Append(txLeaves, s)
                      /\ txSeen' = txSeen \cup {s}
                      /\ log' = log \o SubSeq(TxLines(s, slot), 1, written)
                      /\ lastCall' = Call("add_transaction", s, TxAmount,
                                          IF written = Len(TxLines(s, slot)) THEN "ok"
                                          ELSE "PersistenceFailure")
  /\ UNCHANGED <<stakes, blocks, restarts, minted, acked>>

(***************************************************************************)
(* airdrop(address, amount).  The "treasury" is whichever key the stakes  *)
(* HashMap yields first, an unspecified order.  Balances move before the  *)
(* address is parsed as a Pubkey and before the file is opened.           *)
(***************************************************************************)
AirdropPayers == DOMAIN stakes   \* the keys stakes.keys().next() may yield
(* Mutant: only the absolute cap is tested, not the payer's balance. *)
WithinAirdropLimit_CapOnly(amount, tk) == amount <= AirdropCap
WithinAirdropLimit(amount, tk) ==
  amount <= BalanceOf(tk) /\ amount <= AirdropCap

Airdrop(address, amount) ==
  /\ \E tk \in AirdropPayers :
     /\ IF ~WithinAirdropLimit(amount, tk)
        THEN /\ lastCall' = Call("airdrop", address, amount, "AirdropLimitExceeded")
             /\ UNCHANGED <<balances, stakes, log, acked>>
        ELSE LET b1 == EntryAdd(balances, address, amount)
             IN /\ balances' = [b1 EXCEPT ![tk] = @ - amount]
                /\ IF address \notin ValidPubkeys
                   THEN /\ lastCall' = Call("airdrop", address, amount, "InvalidPubkey")
                        /\ UNCHANGED <<stakes, log, acked>>
                   ELSE \E ioOk \in IOOutcomes :
                        /\ stakes' = EntryAdd(stakes, address, amount)
                        /\ IF ioOk
                           THEN /\ log' = Append(log, Line("Local Alpha: Airdrop: ",
                                                           address, amount \div Unit))
                                /\ acked' = [acked EXCEPT ![address] = @ + amount]
                                /\ lastCall' = Call("airdrop", address, amount, "ok")
                           ELSE /\ lastCall' = Call("airdrop", address, amount,
                                                    "PersistenceFailure")
                                /\ UNCHANGED <<log, acked, applied>>
  /\ UNCHANGED <<blocks, txSeen, txLeaves, restarts, minted, burned, applied>>

(***************************************************************************)
(* The ledger on its own, called by any caller with any argument: the     *)
(* HTTP /airdrop and /submit_transaction handlers, the validator loop, a  *)
(* process restart.                                                       *)
(***************************************************************************)
LedgerNext ==
  \/ \E slot \in Slots, h \in Hashes : AddBlock(slot, h)
  \/ \E s \in Sigs, slot \in Slots : AddTransaction(s, slot)
  \/ \E a \in Addrs, n \in AirdropAmounts : Airdrop(a, n)
  \/ Restart

LedgerSpec == LedgerInit /\ [][LedgerNext]_ledgerVars

-----------------------------------------------------------------------------
(* No balance ever goes negative (the u64 arithmetic never underflows),   *)
(* and the maps stay maps over addresses.                                 *)
TypeOK ==
  /\ DOMAIN balances \subseteq Addrs /\ \A a \in DOMAIN balances : balances[a] \in Nat
  /\ DOMAIN stakes \subseteq ValidPubkeys /\ \A a \in DOMAIN stakes : stakes[a] \in Nat
  /\ \A i \in 1..Len(blocks) : blocks[i].slot \in Slots /\ blocks[i].hash \in Hashes
  /\ txSeen \subseteq Sigs
  /\ lastCall.result \in Results
  /\ minted \in Nat /\ burned \in Nat

(* Conservation: within one process, the lamports held by all accounts    *)
(* plus the fees add_transaction burned equal the treasury's genesis      *)
(* balance plus the rewards add_block minted; airdrops only move funds.   *)
Supply == SumFunction(balances)
Conservation == Supply + burned = TreasuryInit + minted

(* The ledger implements the account-level promise of XrsAccounts: every  *)
(* change of the balances map is a block reward credited together with   *)
(* an appended block, a funded transfer burning its fee, a funded move of *)
(* an airdrop from whichever key pays it, or Ledger::new rebuilding the   *)
(* genesis supply after a restart; every rejected call, and every error   *)
(* return before the balances move, is a stuttering step.                *)
Accounts == INSTANCE XrsAccounts
              WITH bal <- balances, height <- Len(blocks), epoch <- restarts
AccountsRefined == Accounts!Spec

(* A signature's transfer moves balances at most once: submitting the    *)
(* same transaction again fails with DoubleSpend and changes nothing      *)
(* (spec section 3 invariant 2, section 8 double-spend rejection).        *)
AppliedAtMostOnce == \A s \in Sigs : applied[s] <= 1

(* Ledger::new rebuilds, for every public key, exactly the lamports of    *)
(* the airdrops that were reported successful before the restart (spec 6  *)
(* and 8: restart reconstruction from the airdrop lines).                 *)
RestartRestoresAirdrops ==
  [][restarts' = restarts + 1 => \A a \in Pubkeys : BalanceOf(a)' = acked[a]]_ledgerVars

=============================================================================
