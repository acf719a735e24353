---------------------------- MODULE XrsAccounts ----------------------------
(***************************************************************************)
(* What the ledger promises about lamports, with nothing of how it keeps  *)
(* them (spec section 3, invariants 3 and 4, and section 4.4):            *)
(*   - new lamports appear only with a new block, credited to one account;*)
(*   - a transfer debits its sender amount + fee, which the sender holds, *)
(*     and credits the recipient the amount: the fee leaves circulation;  *)
(*   - an airdrop moves lamports its payer holds to the recipient;        *)
(*   - a new process starts from the genesis supply, however the durable  *)
(*     airdrop records redistribute it.                                   *)
(* No balance is ever negative.  Rejected operations change nothing and   *)
(* are stuttering steps.                                                  *)
(***************************************************************************)
EXTENDS Naturals, Functions, TLC

CONSTANTS
  Treasury,       \* the genesis account
  TreasuryInit,   \* the genesis supply
  TxAmount,       \* lamports a transfer moves
  TxFee           \* lamports a transfer burns

VARIABLES
  bal,      \* account -> lamports
  height,   \* blocks appended in this process
  epoch     \* processes started before this one

accountVars == <<bal, height, epoch>>

Held(a) == IF a \in DOMAIN bal THEN bal[a] ELSE 0

(* f with x more lamports at account a, a new entry if it had none. *)
Deposit(f, a, x) ==
  [k \in DOMAIN f \cup {a} |-> (IF k \in DOMAIN f THEN f[k] ELSE 0) + (IF k = a THEN x ELSE 0)]

Init ==
  /\ bal = (Treasury :> TreasuryInit)
  /\ height = 0
  /\ epoch = 0

(* A block is appended and its reward credited to one account. *)
Mint ==
  /\ height' = height + 1
  /\ \E a \in DOMAIN bal' : \E x \in 0..bal'[a] : bal' = Deposit(bal, a, x)
  /\ UNCHANGED epoch

(* A funded transfer whose fee is burned. *)
Pay ==
  /\ \E from \in DOMAIN bal, to \in DOMAIN bal' :
       /\ bal[from] >= TxAmount + TxFee
       /\ bal' = Deposit([bal EXCEPT ![from] = @ - (TxAmount + TxFee)], to, TxAmount)
  /\ UNCHANGED <<height, epoch>>

(* An airdrop: lamports the payer holds move to the recipient. *)
Move ==
  /\ \E from \in DOMAIN bal, to \in DOMAIN bal' : \E x \in 1..bal[from] :
       bal' = Deposit([bal EXCEPT ![from] = @ - x], to, x)
  /\ UNCHANGED <<height, epoch>>

(* A new process: no blocks, and the genesis supply in some distribution. *)
Reopen ==
  /\ epoch' = epoch + 1
  /\ height' = 0
  /\ Treasury \in DOMAIN bal'
  /\ SumFunction(bal') = TreasuryInit

Next == Mint \/ Pay \/ Move \/ Reopen

Spec == Init /\ [][Next]_accountVars
=============================================================================
