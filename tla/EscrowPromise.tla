---------------------------- MODULE EscrowPromise ----------------------------
(***************************************************************************)
(* What an escrow promises the parties of a trade, whatever holds it: the  *)
(* payer's money leaves the payer once, is owed to the deal as long as the *)
(* deal is open, and leaves the deal once, whole, to the payee, or, but    *)
(* only through a dispute, back to the payer.  A settled deal stays so.    *)
(* README.md:171 of the repository states it as "Custodial Gating".        *)
(***************************************************************************)
EXTENDS Integers

CONSTANTS Keys,      \* deals, one per trade
          Wallets,   \* the parties' wallets
          Parties,   \* who a deal may name: a wallet, or an address outside
          Sums       \* amounts of money

VARIABLES deals,     \* stage, parties and money owed of every deal
          wallet     \* money of every wallet

vars == <<deals, wallet>>

Stages == {"none", "held", "disputed", "settled"}

Credit(w, p, sum) == [q \in Wallets |-> IF q = p THEN w[q] + sum ELSE w[q]]

Init == /\ \A k \in Keys : deals[k].stage = "none" /\ deals[k].owed = 0
        /\ wallet \in [Wallets -> Nat]

\* The payer's money moves into a deal that names its parties for good.
Lock(k, payer, payee, sum) ==
  /\ deals[k].stage = "none"
  /\ sum > 0
  /\ wallet[payer] >= sum
  /\ wallet' = Credit(wallet, payer, -sum)
  /\ deals' = [deals EXCEPT ![k] =
       [stage |-> "held", payer |-> payer, payee |-> payee, owed |-> sum]]

Dispute(k) ==
  /\ deals[k].stage = "held"
  /\ deals' = [deals EXCEPT ![k].stage = "disputed"]
  /\ UNCHANGED wallet

\* All that is owed goes to one party; the payer only through a dispute.
Settle(k, p) ==
  /\ \/ deals[k].stage \in {"held", "disputed"} /\ p = deals[k].payee
     \/ deals[k].stage = "disputed" /\ p = deals[k].payer
  /\ wallet' = Credit(wallet, p, deals[k].owed)
  /\ deals' = [deals EXCEPT ![k].stage = "settled", ![k].owed = 0]

\* Money the wallets move without the escrow; no deal notices.
Outside(from, to, sum) ==
  /\ wallet[from] >= sum
  /\ wallet' = Credit(Credit(wallet, from, -sum), to, sum)
  /\ UNCHANGED deals

Next ==
  \/ \E k \in Keys, payer \in Wallets, payee \in Parties, sum \in Sums :
       Lock(k, payer, payee, sum)
  \/ \E k \in Keys : Dispute(k)
  \/ \E k \in Keys, p \in Parties : Settle(k, p)
  \/ \E from \in Wallets, to \in Parties, sum \in Sums : Outside(from, to, sum)

Spec == Init /\ [][Next]_vars
==============================================================================
