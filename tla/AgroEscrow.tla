----------------------------- MODULE AgroEscrow -----------------------------
(***************************************************************************)
(* The Celo escrow contract, contracts/src/AgroEscrow.sol, and the part of *)
(* the cUSD token it stands on.  One action per external function; a       *)
(* function that reverts changes nothing, so its require lines are guards. *)
(* Every trade key is a number in 1..N (a keccak hash on chain), and all   *)
(* keys share the one token balance of the contract.                       *)
(***************************************************************************)
EXTENDS Integers

CONSTANTS N,          \* number of trade keys
          Accounts,   \* wallets that can send a transaction
          NoOne,      \* address(0)
          Contract,   \* address(this)
          Deployer,   \* msg.sender of the constructor
          Amounts     \* token amounts a transaction may name

ASSUME NAssumption == N \in Nat
ASSUME AddressAssumption ==
  /\ Deployer \in Accounts
  /\ NoOne # Contract
  /\ NoOne \notin Accounts
  /\ Contract \notin Accounts
ASSUME AmountAssumption == Amounts \subseteq Nat

Keys == 1..N
Parties == Accounts \cup {Contract}

AWAITING_PAYMENT  == "AWAITING_PAYMENT"
AWAITING_DELIVERY == "AWAITING_DELIVERY"
COMPLETE          == "COMPLETE"
DISPUTED          == "DISPUTED"
REFUNDED          == "REFUNDED"
State == {AWAITING_PAYMENT, AWAITING_DELIVERY, COMPLETE, DISPUTED, REFUNDED}
Open == {AWAITING_DELIVERY, DISPUTED}

VARIABLES escrows, admin, pendingAdmin,   \* storage of the contract
          balance, allowance              \* cUSD, allowances to Contract only

vars == <<escrows, admin, pendingAdmin, balance, allowance>>
roles == <<admin, pendingAdmin>>
token == <<balance, allowance>>

Escrow == [buyer : Accounts \cup {NoOne}, seller : Parties \cup {NoOne},
           amount : Nat, state : State]

NoEscrow == [buyer |-> NoOne, seller |-> NoOne, amount |-> 0,
             state |-> AWAITING_PAYMENT]

(***************************************************************************)
(* The token.                                                              *)
(***************************************************************************)
Moved(from, to, amt) ==
  LET debited == [balance EXCEPT ![from] = @ - amt]
  IN  [debited EXCEPT ![to] = @ + amt]

approve(who, amt) ==
  /\ allowance' = [allowance EXCEPT ![who] = amt]
  /\ UNCHANGED <<escrows, admin, pendingAdmin, balance>>

\* A payment that does not pass through the escrow, to the contract included.
transfer(who, to, amt) ==
  /\ balance[who] >= amt
  /\ balance' = Moved(who, to, amt)
  /\ UNCHANGED <<escrows, admin, pendingAdmin, allowance>>

(***************************************************************************)
(* The escrow.                                                             *)
(***************************************************************************)
\* Mutants of createEscrow: the token moves nothing and says it did; the key
\* may be used again.
createEscrowUnpaid(who, k, seller, amt) ==
  /\ amt > 0 /\ escrows[k].buyer = NoOne /\ seller # NoOne
  /\ escrows' = [escrows EXCEPT ![k] =
       [buyer |-> who, seller |-> seller, amount |-> amt,
        state |-> AWAITING_DELIVERY]]
  /\ UNCHANGED <<roles, token>>

createEscrowAgain(who, k, seller, amt) ==
  /\ amt > 0 /\ seller # NoOne
  /\ balance[who] >= amt /\ allowance[who] >= amt
  /\ balance' = Moved(who, Contract, amt)
  /\ allowance' = [allowance EXCEPT ![who] = @ - amt]
  /\ escrows' = [escrows EXCEPT ![k] =
       [buyer |-> who, seller |-> seller, amount |-> amt,
        state |-> AWAITING_DELIVERY]]
  /\ UNCHANGED roles

createEscrow(who, k, seller, amt) ==
  /\ amt > 0
  /\ escrows[k].buyer = NoOne
  /\ seller # NoOne
  /\ balance[who] >= amt /\ allowance[who] >= amt
  /\ balance' = Moved(who, Contract, amt)
  /\ allowance' = [allowance EXCEPT ![who] = @ - amt]
  /\ escrows' = [escrows EXCEPT ![k] =
       [buyer |-> who, seller |-> seller, amount |-> amt,
        state |-> AWAITING_DELIVERY]]
  /\ UNCHANGED roles

\* Mutant of PayOut: the amount is not reset.
PayOutUncleared(k, recipient, final) ==
  /\ balance[Contract] >= escrows[k].amount
  /\ balance' = Moved(Contract, recipient, escrows[k].amount)
  /\ escrows' = [escrows EXCEPT ![k].state = final]
  /\ UNCHANGED <<admin, pendingAdmin, allowance>>

\* The last lines of releaseFunds, resolveDispute and refund.
PayOut(k, recipient, final) ==
  /\ balance[Contract] >= escrows[k].amount
  /\ balance' = Moved(Contract, recipient, escrows[k].amount)
  /\ escrows' = [escrows EXCEPT ![k].state = final, ![k].amount = 0]
  /\ UNCHANGED <<admin, pendingAdmin, allowance>>

releaseFunds(who, k) ==
  /\ who \in {escrows[k].buyer, admin}
  /\ escrows[k].state = AWAITING_DELIVERY
  /\ PayOut(k, escrows[k].seller, COMPLETE)

raiseDispute(who, k) ==
  /\ who \in {escrows[k].buyer, escrows[k].seller, admin}
  /\ escrows[k].state = AWAITING_DELIVERY
  /\ escrows' = [escrows EXCEPT ![k].state = DISPUTED]
  /\ UNCHANGED <<admin, pendingAdmin, balance, allowance>>

resolveDispute(who, k, releaseToBuyer) ==
  /\ who = admin
  /\ escrows[k].state = DISPUTED
  /\ PayOut(k, IF releaseToBuyer THEN escrows[k].buyer ELSE escrows[k].seller,
            COMPLETE)

\* Mutant of refund: a deal nobody disputed is paid back.
refundUndisputed(who, k) ==
  /\ who = admin
  /\ escrows[k].state \in Open
  /\ PayOut(k, escrows[k].buyer, REFUNDED)

refund(who, k) ==
  /\ who = admin
  /\ escrows[k].state = DISPUTED
  /\ PayOut(k, escrows[k].buyer, REFUNDED)

nominateAdmin(who, newAdmin) ==
  /\ who = admin
  /\ newAdmin # NoOne
  /\ pendingAdmin' = newAdmin
  /\ UNCHANGED <<escrows, admin, balance, allowance>>

acceptAdmin(who) ==
  /\ who = pendingAdmin
  /\ admin' = pendingAdmin
  /\ pendingAdmin' = NoOne
  /\ UNCHANGED <<escrows, balance, allowance>>

Init ==
  /\ escrows = [k \in Keys |-> NoEscrow]
  /\ admin = Deployer
  /\ pendingAdmin = NoOne
  /\ balance \in [Parties -> Amounts] /\ balance[Contract] = 0
  /\ allowance = [a \in Accounts |-> 0]

Next ==
  \/ \E who \in Accounts, amt \in Amounts : approve(who, amt)
  \/ \E who \in Accounts, to \in Parties, amt \in Amounts :
       transfer(who, to, amt)
  \/ \E who \in Accounts, k \in Keys, seller \in Parties \cup {NoOne},
        amt \in Amounts :
       createEscrow(who, k, seller, amt)
  \/ \E who \in Accounts, k \in Keys : releaseFunds(who, k)
  \/ \E who \in Accounts, k \in Keys : raiseDispute(who, k)
  \/ \E who \in Accounts, k \in Keys, toBuyer \in BOOLEAN :
       resolveDispute(who, k, toBuyer)
  \/ \E who \in Accounts, k \in Keys : refund(who, k)
  \/ \E who \in Accounts, newAdmin \in Accounts \cup {NoOne, Contract} :
       nominateAdmin(who, newAdmin)
  \/ \E who \in Accounts : acceptAdmin(who)

Spec == Init /\ [][Next]_vars

(***************************************************************************)
(* Properties.                                                             *)
(***************************************************************************)
\* Every field keeps its type: no balance below zero, an admin that exists.
TypeOK ==
  /\ escrows \in [Keys -> Escrow]
  /\ admin \in Accounts
  /\ pendingAdmin \in Parties \cup {NoOne}
  /\ balance \in [Parties -> Nat]
  /\ allowance \in [Accounts -> Nat]

\* A deal owes money exactly while it is open, and a key is free exactly
\* while nobody ever locked money under it: createEscrow tests the buyer and
\* the pay-outs test the state, so the fields must agree for ever.
FundedIffOpen == \A k \in Keys :
  /\ (escrows[k].amount > 0) <=> (escrows[k].state \in Open)
  /\ (escrows[k].buyer = NoOne) <=> (escrows[k].state = AWAITING_PAYMENT)
  /\ (escrows[k].seller = NoOne) <=> (escrows[k].state = AWAITING_PAYMENT)

\* t[k] is the money owed under the keys up to k.
RunningTotal(t) ==
  /\ t[0] = 0
  /\ \A k \in Keys : t[k] = t[k - 1] + escrows[k].amount

\* The contract's one balance covers every open deal at the same time, so no
\* pay-out of releaseFunds, resolveDispute or refund fails for want of money
\* and none is made with the money of another trade.
Solvent == \E t \in [0..N -> 0..balance[Contract]] : RunningTotal(t)

Stage(s) == CASE s = AWAITING_PAYMENT  -> "none"
              [] s = AWAITING_DELIVERY -> "held"
              [] s = DISPUTED          -> "disputed"
              [] OTHER                 -> "settled"

Promise == INSTANCE EscrowPromise WITH
  Wallets <- Accounts,
  Sums    <- Amounts,
  deals   <- [k \in Keys |-> [stage |-> Stage(escrows[k].state),
                              payer |-> escrows[k].buyer,
                              payee |-> escrows[k].seller,
                              owed  |-> escrows[k].amount]],
  wallet  <- [a \in Accounts |-> balance[a]]

\* The contract keeps the promise of an escrow: money enters a deal once and
\* leaves it once, whole, to the party the deal names.
KeepsPromise == Promise!Spec
=============================================================================
