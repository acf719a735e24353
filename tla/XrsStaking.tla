------------------------------ MODULE XrsStaking ------------------------------
(***************************************************************************)
(* Stake accounts (src/xrs-node/src/staking.rs): initialize_stake, stake, *)
(* unstake, claim_rewards, slash on one StakeAccount per owner.  Nothing   *)
(* in the node calls them yet; the model lets a caller call any of them   *)
(* with any argument.                                                     *)
(*                                                                         *)
(* Clock::get() reads the on-chain clock sysvar; outside a program runtime *)
(* (as in this node process) it returns an error.  ClockAvailable chooses *)
(* the environment.  Amounts are in units of 250 XRS.                     *)
(***************************************************************************)
EXTENDS Naturals, FiniteSets

CONSTANTS
  Owners,          \* owner public keys
  MinStake,        \* 1,000 XRS
  Amounts,         \* amounts callers pass
  TotalStakes,     \* total_stake values callers pass to stake()
  ApyPct,          \* 7 (apy = 0.07)
  Year,            \* seconds per year
  ClockAvailable,  \* TRUE: Clock::get() succeeds
  NoAccount

VARIABLES
  accounts,   \* owner -> [amount, last, rep], or NoAccount
  now,        \* the clock's unix_timestamp
  lastCall    \* [op, owner, result] of the last call

stakingVars == <<accounts, now, lastCall>>

Account == [amount : Nat, last : Nat, rep : Nat]
Exists(o) == accounts[o] # NoAccount
Call(op, o, r) == [op |-> op, owner |-> o, result |-> r]
Fail(op, o, r) == lastCall' = Call(op, o, r) /\ UNCHANGED <<accounts, now>>

StakingInit ==
  /\ accounts = [o \in Owners |-> NoAccount]
  /\ now = 0
  /\ lastCall = Call("none", CHOOSE o \in Owners : TRUE, "ok")

(* Time passes for the clock sysvar. *)
ClockTick ==
  /\ ClockAvailable
  /\ now' = now + 1
  /\ UNCHANGED <<accounts, lastCall>>

(* initialize_stake: the minimum, then Clock::get()? for last_updated. *)
InitializeStake(o, x) ==
  /\ ~Exists(o)
  /\ IF x < MinStake THEN Fail("initialize", o, "InsufficientFunds")
     ELSE IF ~ClockAvailable THEN Fail("initialize", o, "UnsupportedSysvar")
     ELSE /\ accounts' = [accounts EXCEPT ![o] = [amount |-> x, last |-> now, rep |-> 100]]
          /\ lastCall' = Call("initialize", o, "ok")
          /\ UNCHANGED now

(* stake: the cap test, amount updated, then Clock::get()? for           *)
(* last_updated and the reputation bonus.                                 *)
Stake(o, x, total) ==
  /\ Exists(o)
  /\ IF accounts[o].amount + x > total \div 10
     THEN Fail("stake", o, "InvalidArgument")
     ELSE /\ accounts' =
               IF ClockAvailable
               THEN [accounts EXCEPT ![o] = [amount |-> @.amount + x, last |-> now,
                                             rep |-> @.rep + 10]]
               ELSE [accounts EXCEPT ![o].amount = @ + x]
          /\ lastCall' = Call("stake", o, IF ClockAvailable THEN "ok" ELSE "UnsupportedSysvar")
          /\ UNCHANGED now

(* Mutant: a plain subtraction where the code uses checked_sub. *)
Unstake_Unchecked(o, x) ==
  /\ Exists(o)
  /\ accounts' = [accounts EXCEPT ![o].amount = @ - x]
  /\ lastCall' = Call("unstake", o, "ok")
  /\ UNCHANGED now

(* unstake: checked_sub, then Clock::get()? for last_updated. *)
Unstake(o, x) ==
  /\ Exists(o)
  /\ IF x > accounts[o].amount THEN Fail("unstake", o, "InsufficientFunds")
     ELSE /\ accounts' =
               IF ClockAvailable
               THEN [accounts EXCEPT ![o] = [@ EXCEPT !.amount = @ - x, !.last = now]]
               ELSE [accounts EXCEPT ![o].amount = @ - x]
          /\ lastCall' = Call("unstake", o, IF ClockAvailable THEN "ok" ELSE "UnsupportedSysvar")
          /\ UNCHANGED now

(* claim_rewards: elapsed time from the clock first, the reward accrued,  *)
(* last_updated refreshed.                                                *)
Reward(a) == (a.amount * ApyPct * (now - a.last)) \div (100 * Year)
ClaimRewards(o) ==
  /\ Exists(o)
  /\ IF ~ClockAvailable THEN Fail("claim", o, "UnsupportedSysvar")
     ELSE /\ accounts' = [accounts EXCEPT ![o] = [@ EXCEPT !.amount = @ + Reward(accounts[o]),
                                                           !.last = now]]
          /\ lastCall' = Call("claim", o, "ok")
          /\ UNCHANGED now

(* slash: checked_sub and a saturating reputation penalty. *)
Slash(o, x) ==
  /\ Exists(o)
  /\ IF x > accounts[o].amount THEN Fail("slash", o, "InsufficientFunds")
     ELSE /\ accounts' = [accounts EXCEPT ![o] = [@ EXCEPT !.amount = @ - x,
                                                           !.rep = IF @ < 25 THEN 0 ELSE @ - 25]]
          /\ lastCall' = Call("slash", o, "ok")
          /\ UNCHANGED now

StakingNext ==
  \/ ClockTick
  \/ \E o \in Owners, x \in Amounts :
       \/ InitializeStake(o, x)
       \/ \E t \in TotalStakes : Stake(o, x, t)
       \/ Unstake(o, x)
       \/ Slash(o, x)
  \/ \E o \in Owners : ClaimRewards(o)

StakingSpec == StakingInit /\ [][StakingNext]_stakingVars

-----------------------------------------------------------------------------
StakingTypeOK ==
  \A o \in Owners : accounts[o] = NoAccount \/ accounts[o] \in Account
=============================================================================
