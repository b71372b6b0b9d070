---------------------------- MODULE GroveStaking ----------------------------
(***************************************************************************)
(* The contract contracts/src/GroveStaking.sol, over the shares and the    *)
(* cUSD of PlantationRound.  Blocks are counted as far as MaxBlock.        *)
(***************************************************************************)
EXTENDS Integers

CONSTANTS Tokens, Wallets, NoOne,
          This,       \* address(this)
          Deployer,   \* msg.sender of the constructor
          Rates,      \* yield rates an admin may set
          MaxBlock    \* bound: the last block

VARIABLES positions, yieldRatePerBlock, admin,   \* storage of the contract
          block,                                 \* block.number
          owner, balance,                        \* the two tokens
          rewarded     \* history: blocks for which a share was paid yield

vars == <<positions, yieldRatePerBlock, admin, block, owner, balance, rewarded>>

Position == [owner : Wallets \cup {NoOne}, stakedAtBlock : 0..MaxBlock]
NoPosition == [owner |-> NoOne, stakedAtBlock |-> 0]

Moved(from, to, amt) ==
  LET debited == [balance EXCEPT ![from] = @ - amt]
  IN  [debited EXCEPT ![to] = @ + amt]

stake(who, t) ==
  /\ positions[t].owner = NoOne
  /\ owner[t] = who
  /\ owner' = [owner EXCEPT ![t] = This]
  /\ positions' = [positions EXCEPT ![t] = [owner |-> who, stakedAtBlock |-> block]]
  /\ UNCHANGED <<yieldRatePerBlock, admin, block, balance, rewarded>>

Blocks(t) == block - positions[t].stakedAtBlock
\* The rate of today, for all blocks since the stake or the last claim.
pendingYield(t) == Blocks(t) * yieldRatePerBlock

Yield(who, t) ==
  /\ positions[t].owner = who
  /\ balance[This] >= pendingYield(t)
  /\ balance' = Moved(This, who, pendingYield(t))
  /\ rewarded' = [rewarded EXCEPT ![t] =
       IF pendingYield(t) > 0 THEN @ + Blocks(t) ELSE @]

\* Mutant of unstake: the position stays.
unstakeKept(who, t) ==
  /\ Yield(who, t)
  /\ owner' = [owner EXCEPT ![t] = who]
  /\ UNCHANGED <<positions, yieldRatePerBlock, admin, block>>

unstake(who, t) ==
  /\ Yield(who, t)
  /\ positions' = [positions EXCEPT ![t] = NoPosition]
  /\ owner' = [owner EXCEPT ![t] = who]
  /\ UNCHANGED <<yieldRatePerBlock, admin, block>>

\* Mutant of claimYield: the accrual window is not reset.
claimYieldAgain(who, t) ==
  /\ pendingYield(t) > 0
  /\ Yield(who, t)
  /\ UNCHANGED <<positions, yieldRatePerBlock, admin, block, owner>>

claimYield(who, t) ==
  /\ pendingYield(t) > 0
  /\ Yield(who, t)
  /\ positions' = [positions EXCEPT ![t].stakedAtBlock = block]
  /\ UNCHANGED <<yieldRatePerBlock, admin, block, owner>>

setYieldRate(who, rate) ==
  /\ who = admin
  /\ yieldRatePerBlock' = rate
  /\ UNCHANGED <<positions, admin, block, owner, balance, rewarded>>

setAdmin(who, newAdmin) ==
  /\ who = admin
  /\ admin' = newAdmin
  /\ UNCHANGED <<positions, yieldRatePerBlock, block, owner, balance, rewarded>>

nextBlock ==
  /\ block < MaxBlock
  /\ block' = block + 1
  /\ UNCHANGED <<positions, yieldRatePerBlock, admin, owner, balance, rewarded>>

Init ==
  /\ positions = [t \in Tokens |-> NoPosition]
  /\ yieldRatePerBlock \in Rates
  /\ admin = Deployer
  /\ block = 0
  /\ rewarded = [t \in Tokens |-> 0]

Next ==
  \/ \E who \in Wallets, t \in Tokens :
       stake(who, t) \/ unstake(who, t) \/ claimYield(who, t)
  \/ \E who \in Wallets, rate \in Rates : setYieldRate(who, rate)
  \/ \E who, newAdmin \in Wallets : setAdmin(who, newAdmin)
  \/ nextBlock

(***************************************************************************)
(* Properties.                                                             *)
(***************************************************************************)
\* Every field keeps its type.
TypeOK ==
  /\ positions \in [Tokens -> Position]
  /\ yieldRatePerBlock \in Nat
  /\ admin \in Wallets
  /\ block \in 0..MaxBlock
  /\ rewarded \in [Tokens -> Nat]

\* A share somebody has staked is in the contract: who has a position can be
\* given the share back, and nobody else has sold or staked it meanwhile.
StakedIsHeld == \A t \in Tokens : positions[t].owner # NoOne => owner[t] = This

\* No block is paid for twice, however a share is staked, claimed for,
\* unstaked, sold and staked again.
EachBlockOnce == \A t \in Tokens :
  rewarded[t] + (IF positions[t].owner = NoOne THEN 0 ELSE Blocks(t)) <= block
=============================================================================
