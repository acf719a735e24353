------------------------------ MODULE XrsNode ------------------------------
(***************************************************************************)
(* The node process (src/xrs-node/src/main.rs, poh.rs, pow.rs, network.rs) *)
(* around the shared ledger: the validator loop ticking the PoH recorder   *)
(* and proposing a block each slot, the HTTP /airdrop and                  *)
(* /submit_transaction handlers and the TCP Transaction handler running as *)
(* other tasks on the same Mutex<Ledger>, the start-up airdrop of          *)
(* --local-alpha, and the process exiting and being started again.        *)
(*                                                                         *)
(* A handler that panics while it holds the ledger guard poisons the      *)
(* std Mutex: later lock() calls return Err.  The HTTP handlers turn that *)
(* Err into an error reply; the validator's lock().unwrap() panics inside *)
(* block_on, which ends the process.                                      *)
(*                                                                         *)
(* The validator's iteration is split where it releases the ledger lock:  *)
(* propose_block reads the stakes and drops the lock, searches for a nonce *)
(* without it, and add_block takes it again; handlers run in between.     *)
(***************************************************************************)
EXTENDS XrsLedger

CONSTANTS
  Validator,      \* the node's keypair public key
  ProposerMin,    \* minimum stake to propose (1000 XRS)
  StartupStake,   \* --local-alpha airdrops this to the validator (1000 XRS)
  LocalAlpha,     \* TRUE: started with --local-alpha; FALSE: --bootstrap/--validator
  PoolCap         \* capacity check of broadcast_transaction (10,000)

VARIABLES
  pohSlot,        \* PoHRecorder.slot
  pc,             \* "startup", "propose", "mine", "stopped" (run() ended), "exited"
  poolLen,        \* length of the network's PriorityQueue
  poisoned        \* the ledger Mutex is poisoned

nodeVars == <<pohSlot, pc, poolLen, poisoned>>
vars == <<ledgerVars, nodeVars>>

(* The scrypt digest of a block found at a slot; PoH's hash of the wall   *)
(* clock makes it collision free across slots of one process.             *)
Digest(slot) == <<"scrypt", slot>>

StakeOf(k) == IF k \in DOMAIN stakes THEN stakes[k] ELSE 0
Running == pc \in {"propose", "mine"}

Init ==
  /\ LedgerInit
  /\ pohSlot = 0
  /\ pc = "startup"
  /\ poolLen = 0
  /\ poisoned = FALSE

(* --local-alpha: the fresh keypair gets an airdrop before the tasks     *)
(* start; an error is only logged.                                        *)
StartupAirdrop == Airdrop(Validator, StartupStake)

(* main: --local-alpha airdrops; --bootstrap/--validator read the keypair *)
(* file, parse it as JSON, check for 64 bytes and build a Keypair, and    *)
(* any failure returns from main.  Then run() calls poh_recorder.start(), *)
(* one tick.                                                               *)
Startup ==
  /\ pc = "startup"
  /\ IF LocalAlpha
     THEN StartupAirdrop /\ pohSlot' = 1 /\ pc' = "propose"
     ELSE /\ UNCHANGED ledgerVars
          /\ \E keypairOk \in BOOLEAN :
               IF keypairOk THEN pohSlot' = 1 /\ pc' = "propose"
                            ELSE pc' = "exited" /\ UNCHANGED pohSlot
  /\ UNCHANGED <<poolLen, poisoned>>

(* propose_block, up to drop(ledger_guard): the stake check; a failure is *)
(* logged by run() and the loop ticks to the next slot.  On a poisoned    *)
(* mutex ledger.lock().unwrap() panics and the process ends.              *)
(* Mutant: the stake check dropped. *)
IsEligible_Always == TRUE
IsEligible == StakeOf(Validator) >= ProposerMin
Propose ==
  /\ pc = "propose"
  /\ CASE poisoned   -> pc' = "stopped" /\ UNCHANGED pohSlot
       [] IsEligible -> pc' = "mine" /\ UNCHANGED pohSlot
       [] OTHER      -> pohSlot' = pohSlot + 1 /\ UNCHANGED pc
  /\ UNCHANGED <<ledgerVars, poolLen, poisoned>>

(* The nonce search ends, add_block runs under the lock, and the loop     *)
(* ticks; an add_block error leaves run() through `?`, try_join! returns   *)
(* and main exits.                                                        *)
Tick(s) == s + 1
AppendBlock ==
  /\ pc = "mine"
  /\ IF poisoned
     THEN pc' = "stopped" /\ UNCHANGED <<ledgerVars, pohSlot>>
     ELSE /\ AddBlock(pohSlot, Digest(pohSlot))
          /\ IF lastCall'.result = "ok"
             THEN pohSlot' = Tick(pohSlot) /\ pc' = "propose"
             ELSE pc' = "stopped" /\ UNCHANGED pohSlot
  /\ UNCHANGED <<poolLen, poisoned>>

(* network.rs broadcast_transaction: push if the pool holds fewer than    *)
(* PoolCap entries, otherwise drop.                                       *)
(* Mutant: the capacity check dropped. *)
Broadcast_NoCap(n) == n + 1
Broadcast(n) == IF n < PoolCap THEN n + 1 ELSE n

(* HTTP /airdrop/<address>/<amount> *)
HttpAirdrop(a, n) ==
  /\ Running
  /\ ~poisoned
  /\ Airdrop(a, n)
  /\ UNCHANGED nodeVars

(* HTTP /submit_transaction: add_transaction at the last block's slot,    *)
(* then broadcast if it succeeded.                                        *)
SubmitTransaction(s) ==
  /\ Running
  /\ ~poisoned
  /\ AddTransaction(s, IF blocks = <<>> THEN 0 ELSE Last(blocks).slot)
  /\ poolLen' = IF lastCall'.result = "ok" THEN Broadcast(poolLen) ELSE poolLen
  /\ UNCHANGED <<pohSlot, pc, poisoned>>

(* A /submit_transaction body that decodes to a Transaction with no       *)
(* signature: add_transaction indexes tx.signatures[0] (ledger.rs:132)    *)
(* and panics before changing anything, with the network and the ledger  *)
(* guards held; unwinding drops them and poisons both mutexes.            *)
SubmitMalformed ==
  /\ Running
  /\ ~poisoned
  /\ poisoned' = TRUE
  /\ UNCHANGED <<ledgerVars, pohSlot, pc, poolLen>>

(* TCP NetworkMessage::Transaction: verified, then broadcast; the ledger  *)
(* is not consulted.                                                      *)
TcpTransaction(s) ==
  /\ Running
  /\ s \in ValidSigs
  /\ poolLen' = Broadcast(poolLen)
  /\ UNCHANGED <<ledgerVars, pohSlot, pc, poisoned>>

(* explorer.rs /blocks and /balances: the handler locks the ledger and   *)
(* serialises the block vector or the balances map, whose size and sum    *)
(* stand for the JSON.  On a poisoned mutex its unwrap panics in the      *)
(* request's connection task and nothing changes.                         *)
ExplorerQuery(what) ==
  /\ Running
  /\ ~poisoned
  /\ lastCall' = Call(what, Treasury, IF what = "blocks" THEN Len(blocks) ELSE Supply, "ok")
  /\ UNCHANGED <<balances, stakes, blocks, txSeen, txLeaves, log, restarts,
                 minted, burned, acked, applied>>
  /\ UNCHANGED nodeVars

(* The process exits (or is killed) and is started again: Ledger::new on  *)
(* the surviving file, a fresh recorder, an empty pool.                   *)
NodeRestart ==
  /\ Restart
  /\ pohSlot' = 0
  /\ pc' = "startup"
  /\ poolLen' = 0
  /\ poisoned' = FALSE

Next ==
  \/ Startup
  \/ Propose
  \/ AppendBlock
  \/ \E a \in Addrs, n \in AirdropAmounts : HttpAirdrop(a, n)
  \/ \E s \in Sigs : SubmitTransaction(s)
  \/ \E s \in Sigs : TcpTransaction(s)
  \/ SubmitMalformed
  \/ \E what \in {"blocks", "balances"} : ExplorerQuery(what)
  \/ NodeRestart

Spec == Init /\ [][Next]_vars

(* main runs to the tasks and run() loops on a 400 ms timer for as long   *)
(* as the process lives: weak fairness of the validator's own steps.      *)
(* Clients call the handlers when they choose, and a restart is a crash:  *)
(* neither is fair.                                                        *)
FairSpec ==
  /\ Spec
  /\ WF_vars(Startup) /\ WF_vars(Propose) /\ WF_vars(AppendBlock)

-----------------------------------------------------------------------------
NodeTypeOK ==
  /\ TypeOK
  /\ pohSlot \in Nat
  /\ pc \in {"startup", "propose", "mine", "stopped", "exited"}
  /\ poolLen \in 0..PoolCap
  /\ poisoned \in BOOLEAN

(* Only an eligible validator gets blocks appended: whenever the block    *)
(* vector is non-empty, the validator's stake is at least the proposer    *)
(* minimum, although add_block runs after the lock of the check is gone.  *)
EligibleProposer == blocks # <<>> => StakeOf(Validator) >= ProposerMin

ValidatorNeverStops == pc # "stopped"

=============================================================================
