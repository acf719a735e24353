----------------------------- MODULE XrsNetwork -----------------------------
(***************************************************************************)
(* Locking of start_network (src/xrs-node/src/network.rs): the accept loop *)
(* takes a semaphore permit, accepts a localhost connection and spawns a   *)
(* task that reads one message and handles it under the Arc<Mutex<Network>>;*)
(* every path of the task ends by locking the network to call             *)
(* decrement_connection and dropping the permit.  HTTP /submit_transaction *)
(* handlers lock the network and then the ledger.                          *)
(*                                                                         *)
(* A statement `network.lock().unwrap().f()` takes and releases the lock   *)
(* in one step.  AuthRequest keeps its guard for the whole block and, when *)
(* the node id is a listed validator, locks the network again from the     *)
(* same task: std's Mutex is not re-entrant and on Linux that lock waits   *)
(* forever.  The ledger call inside a submit is one step (XrsLedger).      *)
(*                                                                         *)
(* A submit whose transaction has no signature panics in add_transaction   *)
(* with both guards alive, and unwinding poisons the network mutex.  From *)
(* then on every `network.lock().unwrap()` of a connection task panics:   *)
(* the task unwinds, which drops its permit but skips the ack and the     *)
(* decrement.  A panic in a spawned task ends only that task.              *)
(*                                                                         *)
(* main polls start_network, start_explorer and validator.run() in one     *)
(* try_join! on the block_on thread.  The TCP accept loop and warp's       *)
(* accept run only while run() is parked at its 400 ms sleep; the nonce   *)
(* search of propose_block is synchronous and holds that thread.  Spawned *)
(* connection tasks run on the runtime's workers meanwhile.                *)
(***************************************************************************)
EXTENDS Naturals, FiniteSets

CONSTANTS
  Conns,      \* task slots for accepted TCP connections
  Https,      \* concurrent /submit_transaction requests
  Permits,    \* Semaphore::new(100)
  Msgs,       \* what a connection sends (see MsgKinds)
  Bodies,     \* what a /submit_transaction body decodes to (see BodyKinds)
  NoOwner

(* ReadErr: read fails; PoWFail: the sha256 challenge fails; Garbage: not *)
(* a NetworkMessage; AuthValidator/AuthOther: AuthRequest naming the      *)
(* listed validator or another node; Tx/TxInvalid: Transaction passing or *)
(* failing verify(); TxUnsigned: a Transaction with no signature, which   *)
(* verify() accepts; Block.                                                *)
MsgKinds == {"ReadErr", "PoWFail", "Garbage", "AuthValidator", "AuthOther",
             "Tx", "TxInvalid", "TxUnsigned", "Block"}

(* Signed: a transaction add_transaction can index; Unsigned: one with no *)
(* signature.  Bodies that fail base64 or bincode are answered before any *)
(* lock and change nothing.                                               *)
BodyKinds == {"Signed", "Unsigned"}

VARIABLES
  pc,         \* Conns: "idle", "read", "auth", "auth2", "handle", "close"
              \* Https: "idle", "connecting", "waiting"
  msg,        \* message each connection sent
  netOwner,   \* holder of the network mutex, or NoOwner
  permits,    \* available semaphore permits
  netPoisoned, \* the network mutex is poisoned
  vpc         \* validator.run(): "sleep" (parked) or "search" (nonce search)

netVars == <<pc, msg, netOwner, permits, netPoisoned, vpc>>

Free == netOwner = NoOwner
Active == {c \in Conns : pc[c] # "idle"}

NetInit ==
  /\ pc = [p \in Conns \cup Https |-> "idle"]
  /\ msg = [c \in Conns |-> "Garbage"]
  /\ netOwner = NoOwner
  /\ permits = Permits
  /\ netPoisoned = FALSE
  /\ vpc = "sleep"

(* Mutant: a permit taken without waiting for one to be free. *)
Accept_NoWait(c, m) ==
  /\ pc[c] = "idle"
  /\ vpc = "sleep"
  /\ permits' = permits - 1
  /\ msg' = [msg EXCEPT ![c] = m]
  /\ pc' = [pc EXCEPT ![c] = "read"]
  /\ UNCHANGED <<netOwner, netPoisoned, vpc>>

(* The accept loop: acquire_owned, accept, spawn the task.  An accept     *)
(* error or a non-local peer `continue`s, dropping the permit just taken: *)
(* a step that changes nothing, left out.                                 *)
Accept(c, m) ==
  /\ pc[c] = "idle"
  /\ vpc = "sleep"
  /\ permits > 0
  /\ permits' = permits - 1
  /\ msg' = [msg EXCEPT ![c] = m]
  /\ pc' = [pc EXCEPT ![c] = "read"]
  /\ UNCHANGED <<netOwner, netPoisoned, vpc>>

(* stream.read and the challenge; a failure goes to the decrement. *)
Read(c) ==
  /\ pc[c] = "read"
  /\ pc' = [pc EXCEPT ![c] = CASE msg[c] \in {"ReadErr", "PoWFail", "Garbage"} -> "close"
                               [] msg[c] \in {"AuthValidator", "AuthOther"}  -> "auth"
                               [] OTHER                                       -> "handle"]
  /\ UNCHANGED <<msg, netOwner, permits, netPoisoned, vpc>>

(* The task panics: unwinding drops the permit it owns, and it ends.     *)
Unwind(c) ==
  /\ pc' = [pc EXCEPT ![c] = "idle"]
  /\ permits' = permits + 1

(* AuthRequest: network_guard = network.lock().unwrap(), the validators   *)
(* lookup; an unknown node id leaves the block and drops the guard.  On a *)
(* poisoned mutex the unwrap panics.                                      *)
AuthLookup(c) ==
  /\ pc[c] = "auth"
  /\ Free
  /\ \/ netPoisoned /\ Unwind(c) /\ UNCHANGED netOwner
     \/ ~netPoisoned /\ msg[c] = "AuthValidator"
        /\ netOwner' = c /\ pc' = [pc EXCEPT ![c] = "auth2"] /\ UNCHANGED permits
     \/ ~netPoisoned /\ msg[c] = "AuthOther"
        /\ pc' = [pc EXCEPT ![c] = "close"] /\ UNCHANGED <<netOwner, permits, vpc>>
  /\ UNCHANGED <<msg, netPoisoned, vpc>>

(* The task in "auth2" is at the second network.lock() of the same task; *)
(* it holds the first guard, so that lock never returns: authenticate_node *)
(* and the ack are never reached.                                         *)

(* Transaction: verify(), the info! line that indexes tx.signatures[0],   *)
(* then broadcast_transaction and the ack; Block: broadcast_block and the *)
(* ack.  info! evaluates its arguments only when info logging is enabled  *)
(* (RUST_LOG, read once by env_logger::init; the default is error), so an *)
(* unsigned transaction panics, before any lock, only then; otherwise it  *)
(* is broadcast like any other.  The model lets either happen.  Each      *)
(* broadcast is a one-statement lock whose unwrap panics on a poisoned    *)
(* mutex.                                                                 *)
Handle(c) ==
  /\ pc[c] = "handle"
  /\ \/ msg[c] = "TxUnsigned" /\ Unwind(c)
     \/ msg[c] = "TxInvalid" /\ pc' = [pc EXCEPT ![c] = "close"] /\ UNCHANGED permits
     \/ /\ msg[c] \in {"Tx", "TxUnsigned", "Block"}
        /\ Free
        /\ IF netPoisoned THEN Unwind(c)
                          ELSE pc' = [pc EXCEPT ![c] = "close"] /\ UNCHANGED permits
  /\ UNCHANGED <<msg, netOwner, netPoisoned, vpc>>

(* Mutant: the permit kept when the task returns. *)
Close_KeepPermit(c) ==
  /\ pc[c] = "close"
  /\ Free
  /\ pc' = [pc EXCEPT ![c] = "idle"]
  /\ UNCHANGED <<msg, netOwner, permits, netPoisoned, vpc>>

(* decrement_connection under the lock, then the permit dropped.  On a    *)
(* poisoned mutex the unwrap panics and unwinding drops the permit: the   *)
(* same end, as decrement_connection finds no count to lower (nothing     *)
(* calls increment_connection).                                           *)
Close(c) ==
  /\ pc[c] = "close"
  /\ Free
  /\ permits' = permits + 1
  /\ pc' = [pc EXCEPT ![c] = "idle"]
  /\ UNCHANGED <<msg, netOwner, netPoisoned, vpc>>

(* A client connects to post /submit_transaction. *)
SubmitArrives(h) ==
  /\ pc[h] = "idle"
  /\ pc' = [pc EXCEPT ![h] = "connecting"]
  /\ UNCHANGED <<msg, netOwner, permits, netPoisoned, vpc>>

(* warp's server accepts the connection and spawns its task: only while  *)
(* the joined future of main is polled, i.e. run() is parked.             *)
HttpAccept(h) ==
  /\ pc[h] = "connecting"
  /\ vpc = "sleep"
  /\ pc' = [pc EXCEPT ![h] = "waiting"]
  /\ UNCHANGED <<msg, netOwner, permits, netPoisoned, vpc>>

(* network_submit.lock(), ledger_submit.lock(), add_transaction and      *)
(* broadcast, the reply, both guards dropped.  On a poisoned mutex lock() *)
(* still waits for the lock and returns Err: an error reply.  An unsigned *)
(* transaction panics inside add_transaction with both guards held: the   *)
(* request's connection is closed and the network mutex poisoned.  The    *)
(* ledger mutex is poisoned too, and the validator's next lock().unwrap() *)
(* then ends the process (XrsNode, node_poison); this module keeps the    *)
(* process running, which covers the window until that lock.             *)
SubmitHandled(h) ==
  /\ pc[h] = "waiting"
  /\ Free
  /\ \E b \in Bodies : netPoisoned' = (netPoisoned \/ b = "Unsigned")
  /\ pc' = [pc EXCEPT ![h] = "idle"]
  /\ UNCHANGED <<msg, netOwner, permits, vpc>>

(* run(): the 400 ms timer fires and propose_block passes its stake check *)
(* (a failing check goes back to sleep, a step that changes nothing here) *)
(* and starts the nonce search on the block_on thread.                    *)
BeginSearch ==
  /\ vpc = "sleep"
  /\ vpc' = "search"
  /\ UNCHANGED <<pc, msg, netOwner, permits, netPoisoned>>

(* Mutant: the loop goes on to its next search without awaiting the sleep. *)
EndSearch_NoSleep ==
  /\ vpc = "search"
  /\ UNCHANGED netVars

(* A hash below the target is found, add_block runs, the recorder ticks   *)
(* and run() parks at sleep(400 ms).await, yielding the thread.           *)
EndSearch ==
  /\ vpc = "search"
  /\ vpc' = "sleep"
  /\ UNCHANGED <<pc, msg, netOwner, permits, netPoisoned>>

(* The steps of a task that needs nothing from its client any more. *)
ConnStep(c) == AuthLookup(c) \/ Handle(c) \/ Close(c)

NetNext ==
  \/ \E c \in Conns, m \in Msgs : Accept(c, m)
  \/ \E c \in Conns : Read(c) \/ ConnStep(c)
  \/ \E h \in Https : SubmitArrives(h) \/ HttpAccept(h) \/ SubmitHandled(h)
  \/ BeginSearch \/ EndSearch

(* tokio polls every spawned task and handler that can make progress:     *)
(* weak fairness of each task's own steps after its read.  Connections,   *)
(* requests and the bytes a client sends come when the client chooses,   *)
(* and stream.read has no timeout, so Accept, SubmitArrives and Read are  *)
(* not fair.                                                               *)
(* run() loops for as long as the process lives, and each scrypt hash is  *)
(* below a target whose leading byte is at least 0x1a with probability    *)
(* about 1/10, so the search ends: weak fairness of both validator steps. *)
(* A pending accept is ready at once, and run() parks for 400 ms, so one  *)
(* that is enabled again and again is taken: strong fairness of           *)
(* HttpAccept.                                                            *)
NetFairness ==
  /\ \A c \in Conns : WF_netVars(ConnStep(c))
  /\ \A h \in Https : WF_netVars(SubmitHandled(h)) /\ SF_netVars(HttpAccept(h))
  /\ WF_netVars(BeginSearch) /\ WF_netVars(EndSearch)

NetSpec == NetInit /\ [][NetNext]_netVars /\ NetFairness

-----------------------------------------------------------------------------
NetTypeOK ==
  /\ pc \in [Conns \cup Https -> {"idle", "read", "auth", "auth2", "handle", "close",
                                   "connecting", "waiting"}]
  /\ msg \in [Conns -> MsgKinds]
  /\ netOwner \in Conns \cup {NoOwner}
  /\ permits \in 0..Permits
  /\ netPoisoned \in BOOLEAN
  /\ vpc \in {"sleep", "search"}

(* Every permit is either available or held by exactly one live           *)
(* connection task: no path of the task leaks or double-returns it, the  *)
(* panics of an unsigned transaction and of a poisoned mutex included.   *)
PermitsAccounted == permits + Cardinality(Active) = Permits

(* Every client that connects to post /submit_transaction is eventually   *)
(* answered, or its connection closed by a panic: the validator's nonce   *)
(* search keeps the accept loop from running only until it parks, and a   *)
(* lock is held only briefly (spec 5).                                     *)
SubmitAnswered == \A h \in Https : pc[h] \in {"connecting", "waiting"} ~> pc[h] = "idle"

=============================================================================
