---------------------------- MODULE MCAgroEscrow ----------------------------
(* Two trades and two wallets share the contract; the buyer of one trade   *)
(* may be the seller of the other, and the contract itself may be named.   *)
EXTENDS AgroEscrow

\* Zero tries the amount guard; the wallets pass their money around.
AmountBound == 1
MCAmounts == 0..AmountBound
=============================================================================
