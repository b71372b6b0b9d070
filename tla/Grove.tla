------------------------------- MODULE Grove -------------------------------
(***************************************************************************)
(* PlantationRound and GroveStaking on one chain: the same wallets, shares *)
(* and cUSD.  A step is a step of one of the two contracts.                *)
(***************************************************************************)
EXTENDS PlantationRound

CONSTANTS Rates,      \* yield rates
          MaxBlock    \* bound: the last block

ASSUME RateAssumption == Rates \subseteq Nat /\ MaxBlock \in Nat

VARIABLES positions, yieldRatePerBlock, stakingAdmin, block, rewarded

Grove == INSTANCE GroveStaking WITH This <- Staking, admin <- stakingAdmin

staking == <<positions, yieldRatePerBlock, stakingAdmin, block, rewarded>>
roundOnly == <<rounds, yieldPool, admin, nextRoundId, nextTokenId, tokenInfo, paid>>
chain == <<vars, staking>>

GroveInit == Init /\ Grove!Init

GroveNext ==
  \/ Next /\ UNCHANGED staking
  \/ Grove!Next /\ UNCHANGED roundOnly

GroveSpec == GroveInit /\ [][GroveNext]_chain

\* Every field of both contracts keeps its type.
GroveTypeOK == TypeOK /\ Grove!TypeOK

\* A staked share is held by the staking contract (GroveStaking).
StakedIsHeld == Grove!StakedIsHeld

\* No block is paid for twice (GroveStaking).
EachBlockOnce == Grove!EachBlockOnce
=============================================================================
