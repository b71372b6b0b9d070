------------------------------ MODULE MCSolana ------------------------------
(* What the platform has on Solana: the escrow program and the swaps.  They  *)
(* share no state, so that either is explored with the other at rest.        *)
(* Escrow: two trades, two wallets that may be buyer, seller and admin, and  *)
(* an address nobody holds.  Swaps: calls that repeat or overlap each other, *)
(* for one of the trades, the other or none.                                 *)
EXTENDS SolanaEscrow

CONSTANTS Positions, NoTrade

ASSUME NoTradeAssumption == NoTrade \notin Keys

VARIABLES part, position, calls, swap, calm, cut

swapVars == <<position, calls, swap, calm, cut>>

Swaps == INSTANCE Investments WITH Trades <- Keys

OneExecuted == Swaps!OneExecuted
Concludes == Swaps!Concludes

AmountBound == 1
MCAmounts == 0..AmountBound

MCInit == part \in {"escrow", "swaps"} /\ Init /\ Swaps!Init

MCNext ==
  /\ \/ part = "escrow" /\ Next /\ UNCHANGED swapVars
     \/ part = "swaps" /\ Swaps!Next /\ UNCHANGED vars
  /\ UNCHANGED part

MCSpec == MCInit /\ [][MCNext]_<<part, vars, swapVars>> /\ Swaps!Fairness
=============================================================================
