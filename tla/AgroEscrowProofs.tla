-------------------------- MODULE AgroEscrowProofs --------------------------
(***************************************************************************)
(* What TLAPS proves of the escrow contract for any number of trades, any  *)
(* set of wallets and any amounts.                                         *)
(*                                                                         *)
(* Solvent is not inductive as stated: a pay-out under key k subtracts     *)
(* from every later running total, and that these stay at or above zero is *)
(* only visible if the totals are known never to decrease.  Ledger adds    *)
(* it; the total of the new state is then the old one shifted from k on,   *)
(* so that no induction over the keys is needed.                           *)
(***************************************************************************)
EXTENDS AgroEscrow, TLAPS

NeverDecreases(t) == \A i, j \in 0..N : i <= j => t[i] <= t[j]

Ledger == \E t \in [0..N -> 0..balance[Contract]] :
            RunningTotal(t) /\ NeverDecreases(t)

IInv == TypeOK /\ FundedIffOpen /\ Ledger

-----------------------------------------------------------------------------
(* The token: moving money keeps balances natural and touches two of them. *)

\* A transfer that the sender can afford leaves every balance natural.
LEMMA MovedType ==
  ASSUME TypeOK, NEW from \in Parties, NEW to \in Parties, NEW amt \in Nat,
         balance[from] >= amt
  PROVE  Moved(from, to, amt) \in [Parties -> Nat]
  BY DEF TypeOK, Moved

\* What each balance is after a transfer.
LEMMA MovedValue ==
  ASSUME TypeOK, NEW from \in Parties, NEW to \in Parties, NEW amt \in Nat,
         NEW p \in Parties
  PROVE  Moved(from, to, amt)[p] =
           IF from = to THEN balance[p]
           ELSE IF p = from THEN balance[p] - amt
           ELSE IF p = to THEN balance[p] + amt
           ELSE balance[p]
  BY DEF TypeOK, Moved

-----------------------------------------------------------------------------
(* Types.                                                                  *)

\* The constructor leaves every storage field well typed.
LEMMA InitType == Init => TypeOK
<1> SUFFICES ASSUME Init PROVE TypeOK
  OBVIOUS
<1>1. NoEscrow \in Escrow
  BY DEF NoEscrow, Escrow, State, AWAITING_PAYMENT
<1>2. escrows \in [Keys -> Escrow]
  BY <1>1 DEF Init
<1>3. admin \in Accounts /\ pendingAdmin \in Parties \cup {NoOne}
  BY AddressAssumption DEF Init
<1>4. balance \in [Parties -> Nat] /\ allowance \in [Accounts -> Nat]
  BY AmountAssumption DEF Init
<1> QED
  BY <1>2, <1>3, <1>4 DEF TypeOK

\* A pay-out of an existing escrow keeps the types.
LEMMA PayOutType ==
  ASSUME TypeOK, NEW k \in Keys, NEW p \in Parties,
         NEW final \in State, PayOut(k, p, final)
  PROVE  TypeOK'
<1>1. escrows[k] \in Escrow /\ Contract \in Parties
  BY DEF TypeOK, Parties
<1>2. balance' \in [Parties -> Nat]
  BY <1>1, MovedType DEF PayOut, Escrow
<1>3. escrows' \in [Keys -> Escrow]
  BY <1>1 DEF PayOut, TypeOK, Escrow
<1> QED
  BY <1>2, <1>3 DEF PayOut, TypeOK

\* Money is only paid out to parties that exist.
LEMMA Named ==
  ASSUME TypeOK, FundedIffOpen, NEW k \in Keys, escrows[k].state \in Open
  PROVE  /\ escrows[k].buyer \in Parties
         /\ escrows[k].seller \in Parties
<1>1. escrows[k] \in Escrow
  BY DEF TypeOK
<1>2. escrows[k].state # AWAITING_PAYMENT
  BY DEF Open, AWAITING_PAYMENT, AWAITING_DELIVERY, DISPUTED
<1>3. escrows[k].buyer # NoOne /\ escrows[k].seller # NoOne
  BY <1>2 DEF FundedIffOpen
<1> QED
  BY <1>1, <1>3 DEF Escrow, Parties

\* Each function keeps the types.
LEMMA TypeStep == TypeOK /\ FundedIffOpen /\ [Next]_vars => TypeOK'
<1> SUFFICES ASSUME TypeOK, FundedIffOpen, [Next]_vars PROVE TypeOK'
  OBVIOUS
<1>0. {AWAITING_DELIVERY, DISPUTED, COMPLETE, REFUNDED} \subseteq State
  BY DEF State
<1>1. ASSUME NEW who \in Accounts, NEW amt \in Amounts, approve(who, amt)
      PROVE  TypeOK'
  BY <1>1, AmountAssumption DEF approve, TypeOK
<1>2. ASSUME NEW who \in Accounts, NEW to \in Parties, NEW amt \in Amounts,
             transfer(who, to, amt)
      PROVE  TypeOK'
  <2>1. balance' \in [Parties -> Nat]
    BY <1>2, MovedType, AmountAssumption DEF transfer, Parties
  <2> QED
    BY <1>2, <2>1 DEF transfer, TypeOK
<1>3. ASSUME NEW who \in Accounts, NEW k \in Keys,
             NEW seller \in Parties \cup {NoOne}, NEW amt \in Amounts,
             createEscrow(who, k, seller, amt)
      PROVE  TypeOK'
  <2>1. amt \in Nat /\ who \in Parties /\ Contract \in Parties
    BY AmountAssumption DEF Parties
  <2>2. balance' \in [Parties -> Nat]
    BY <1>3, <2>1, MovedType DEF createEscrow
  <2>3. allowance' \in [Accounts -> Nat]
    BY <1>3, <2>1 DEF createEscrow, TypeOK
  <2>4. escrows' \in [Keys -> Escrow]
    BY <1>0, <1>3, <2>1 DEF createEscrow, TypeOK, Escrow
  <2> QED
    BY <1>3, <2>2, <2>3, <2>4 DEF createEscrow, TypeOK, roles
<1>4. ASSUME NEW who \in Accounts, NEW k \in Keys, releaseFunds(who, k)
      PROVE  TypeOK'
  <2>1. escrows[k].seller \in Parties
    BY <1>4, Named DEF releaseFunds, Open
  <2> QED
    BY <1>0, <1>4, <2>1, PayOutType DEF releaseFunds
<1>5. ASSUME NEW who \in Accounts, NEW k \in Keys, raiseDispute(who, k)
      PROVE  TypeOK'
  BY <1>0, <1>5 DEF raiseDispute, TypeOK, Escrow
<1>6. ASSUME NEW who \in Accounts, NEW k \in Keys, NEW toBuyer \in BOOLEAN,
             resolveDispute(who, k, toBuyer)
      PROVE  TypeOK'
  <2>1. escrows[k].seller \in Parties /\ escrows[k].buyer \in Parties
    BY <1>6, Named DEF resolveDispute, Open
  <2> QED
    BY <1>0, <1>6, <2>1, PayOutType DEF resolveDispute
<1>7. ASSUME NEW who \in Accounts, NEW k \in Keys, refund(who, k)
      PROVE  TypeOK'
  <2>1. escrows[k].buyer \in Parties
    BY <1>7, Named DEF refund, Open
  <2> QED
    BY <1>0, <1>7, <2>1, PayOutType DEF refund
<1>8. ASSUME NEW who \in Accounts,
             NEW newAdmin \in Accounts \cup {NoOne, Contract},
             nominateAdmin(who, newAdmin)
      PROVE  TypeOK'
  BY <1>8 DEF nominateAdmin, TypeOK, Parties
<1>9. ASSUME NEW who \in Accounts, acceptAdmin(who)
      PROVE  TypeOK'
  BY <1>9 DEF acceptAdmin, TypeOK
<1>10. CASE UNCHANGED vars
  BY <1>10 DEF vars, TypeOK
<1> QED
  BY <1>1, <1>2, <1>3, <1>4, <1>5, <1>6, <1>7, <1>8, <1>9, <1>10 DEF Next

-----------------------------------------------------------------------------
(* The fields of an escrow agree.                                          *)

\* Settling closes the escrow and empties it.
LEMMA PayOutFunded ==
  ASSUME TypeOK, FundedIffOpen, NEW k \in Keys, NEW p \in Parties,
         escrows[k].state \in Open,
         NEW final \in {COMPLETE, REFUNDED}, PayOut(k, p, final)
  PROVE  FundedIffOpen'
<1>1. /\ escrows'[k].state = final /\ escrows'[k].amount = 0
      /\ escrows'[k].buyer = escrows[k].buyer
      /\ escrows'[k].seller = escrows[k].seller
      /\ \A j \in Keys \ {k} : escrows'[j] = escrows[j]
  BY DEF PayOut, TypeOK, Escrow
<1>2. final \notin Open /\ final # AWAITING_PAYMENT
  BY DEF Open, AWAITING_PAYMENT, AWAITING_DELIVERY, COMPLETE, DISPUTED,
         REFUNDED
<1>3. escrows[k].buyer # NoOne /\ escrows[k].seller # NoOne
  BY DEF FundedIffOpen, Open, AWAITING_PAYMENT, AWAITING_DELIVERY, DISPUTED
<1> QED
  BY <1>1, <1>2, <1>3 DEF FundedIffOpen

\* Each function keeps amount, state and parties of every escrow in step.
LEMMA FundedStep == TypeOK /\ FundedIffOpen /\ [Next]_vars => FundedIffOpen'
<1> SUFFICES ASSUME TypeOK, FundedIffOpen, [Next]_vars PROVE FundedIffOpen'
  OBVIOUS
<1>0. AWAITING_DELIVERY \in Open /\ DISPUTED \in Open
  BY DEF Open
<1>1. ASSUME UNCHANGED escrows PROVE FundedIffOpen'
  BY <1>1 DEF FundedIffOpen
<1>2. ASSUME NEW who \in Accounts, NEW k \in Keys,
             NEW seller \in Parties \cup {NoOne}, NEW amt \in Amounts,
             createEscrow(who, k, seller, amt)
      PROVE  FundedIffOpen'
  <2>1. /\ escrows'[k] = [buyer |-> who, seller |-> seller, amount |-> amt,
                          state |-> AWAITING_DELIVERY]
        /\ \A j \in Keys \ {k} : escrows'[j] = escrows[j]
    BY <1>2 DEF createEscrow, TypeOK
  <2>2. amt > 0 /\ who # NoOne /\ seller # NoOne
    BY <1>2, AddressAssumption DEF createEscrow
  <2>3. AWAITING_DELIVERY # AWAITING_PAYMENT
    BY DEF AWAITING_DELIVERY, AWAITING_PAYMENT
  <2> QED
    BY <1>0, <2>1, <2>2, <2>3 DEF FundedIffOpen
<1>3. ASSUME NEW who \in Accounts, NEW k \in Keys, releaseFunds(who, k)
      PROVE  FundedIffOpen'
  BY <1>0, <1>3, Named, PayOutFunded DEF releaseFunds
<1>4. ASSUME NEW who \in Accounts, NEW k \in Keys, raiseDispute(who, k)
      PROVE  FundedIffOpen'
  <2>1. /\ escrows'[k].state = DISPUTED
        /\ escrows'[k].amount = escrows[k].amount
        /\ escrows'[k].buyer = escrows[k].buyer
        /\ escrows'[k].seller = escrows[k].seller
        /\ \A j \in Keys \ {k} : escrows'[j] = escrows[j]
    BY <1>4 DEF raiseDispute, TypeOK, Escrow
  <2>2. DISPUTED # AWAITING_PAYMENT /\ AWAITING_DELIVERY # AWAITING_PAYMENT
    BY DEF DISPUTED, AWAITING_DELIVERY, AWAITING_PAYMENT
  <2>3. escrows[k].state = AWAITING_DELIVERY
    BY <1>4 DEF raiseDispute
  <2> QED
    BY <1>0, <2>1, <2>2, <2>3 DEF FundedIffOpen
<1>5. ASSUME NEW who \in Accounts, NEW k \in Keys, NEW toBuyer \in BOOLEAN,
             resolveDispute(who, k, toBuyer)
      PROVE  FundedIffOpen'
  BY <1>0, <1>5, Named, PayOutFunded DEF resolveDispute
<1>6. ASSUME NEW who \in Accounts, NEW k \in Keys, refund(who, k)
      PROVE  FundedIffOpen'
  BY <1>0, <1>6, Named, PayOutFunded DEF refund
<1> QED
  BY <1>1, <1>2, <1>3, <1>4, <1>5, <1>6
  DEF Next, vars, approve, transfer, nominateAdmin, acceptAdmin

-----------------------------------------------------------------------------
(* The contract's balance and the running totals.                          *)

\* An open deal's money is there: the pay-outs' transfer cannot fail.
LEMMA Covered ==
  ASSUME TypeOK, Ledger, NEW k \in Keys
  PROVE  escrows[k].amount <= balance[Contract]
<1>1. PICK t \in [0..N -> 0..balance[Contract]] :
        RunningTotal(t) /\ NeverDecreases(t)
  BY DEF Ledger
<1>2. k \in 0..N /\ k - 1 \in 0..N
  BY NAssumption DEF Keys
<1>3. t[k] = t[k - 1] + escrows[k].amount
  BY <1>1 DEF RunningTotal
<1>4. t[k] \in 0..balance[Contract] /\ t[k - 1] \in 0..balance[Contract]
  BY <1>1, <1>2
<1>5. balance[Contract] \in Nat /\ escrows[k].amount \in Nat
  BY DEF TypeOK, Parties, Escrow
<1> QED
  BY <1>3, <1>4, <1>5

\* The one step of the ledger: the amount of key k becomes b, the contract's
\* balance follows it (or stays above), and the totals shift from k on.
LEMMA LedgerShift ==
  ASSUME TypeOK, TypeOK', Ledger, NEW k \in Keys,
         \A j \in Keys \ {k} : escrows'[j].amount = escrows[j].amount,
         balance'[Contract] - balance[Contract]
           >= escrows'[k].amount - escrows[k].amount
  PROVE  Ledger'
<1>1. PICK t \in [0..N -> 0..balance[Contract]] :
        RunningTotal(t) /\ NeverDecreases(t)
  BY DEF Ledger
<1> DEFINE d == escrows'[k].amount - escrows[k].amount
           u == [i \in 0..N |-> IF i < k THEN t[i] ELSE t[i] + d]
<1>2. N \in Nat /\ Keys = 1..N /\ k \in 1..N /\ k - 1 \in 0..N /\ N \in 0..N
  BY NAssumption DEF Keys
<1>3. /\ \A j \in Keys : escrows[j].amount \in Nat /\ escrows'[j].amount \in Nat
      /\ balance[Contract] \in Nat /\ balance'[Contract] \in Nat
  BY DEF TypeOK, Escrow, Parties
<1>4. \A i \in 0..N : t[i] \in Int /\ 0 <= t[i] /\ t[i] <= balance[Contract]
  BY <1>1, <1>3
<1>5. t[k] = t[k - 1] + escrows[k].amount
  BY <1>1 DEF RunningTotal
<1>6. d \in Int /\ balance'[Contract] >= balance[Contract] + d
  BY <1>3
<1>7. \A i, j \in 0..N : i <= j => t[i] <= t[j]
  BY <1>1 DEF NeverDecreases
<1> HIDE DEF d
<1>8. \A i \in 0..N : i >= k => t[i] >= t[k]
  BY <1>2, <1>7
<1>9. t[k] + d >= t[k - 1]
  BY <1>2, <1>3, <1>4, <1>5 DEF d
<1>10. \A i \in 0..N : u[i] \in 0..balance'[Contract]
  <2> SUFFICES ASSUME NEW i \in 0..N PROVE u[i] \in 0..balance'[Contract]
    OBVIOUS
  <2>1. CASE i < k
    <3>1. t[i] <= t[k - 1]
      BY <1>2, <1>7, <2>1
    <3>2. t[k - 1] <= t[k] + d /\ t[k] <= balance[Contract]
      BY <1>2, <1>4, <1>9
    <3> QED
      BY <1>2, <1>3, <1>4, <1>6, <2>1, <3>1, <3>2
  <2>2. CASE ~(i < k)
    <3>1. t[i] >= t[k] /\ t[k] + d >= 0
      BY <1>2, <1>4, <1>6, <1>8, <1>9, <2>2
    <3> QED
      BY <1>2, <1>3, <1>4, <1>6, <2>2, <3>1
  <2> QED
    BY <2>1, <2>2
<1>11. NeverDecreases(u)
  <2> SUFFICES ASSUME NEW i \in 0..N, NEW j \in 0..N, i <= j
               PROVE  u[i] <= u[j]
    BY DEF NeverDecreases
  <2>1. CASE j < k \/ i >= k
    BY <1>2, <1>4, <1>6, <1>7, <2>1
  <2>2. CASE i < k /\ j >= k
    <3>1. t[i] <= t[k - 1] /\ t[j] >= t[k]
      BY <1>2, <1>7, <1>8, <2>2
    <3> QED
      BY <1>2, <1>4, <1>6, <1>9, <2>2, <3>1
  <2> QED
    BY <1>2, <2>1, <2>2
<1>12. u[0] = 0 /\ \A j \in Keys : u[j] = u[j - 1] + escrows'[j].amount
  <2>1. u[0] = 0
    BY <1>1, <1>2 DEF RunningTotal
  <2>2. ASSUME NEW j \in Keys PROVE u[j] = u[j - 1] + escrows'[j].amount
    <3>1. j \in 0..N /\ j - 1 \in 0..N /\ t[j] = t[j - 1] + escrows[j].amount
      BY <1>1, <1>2 DEF RunningTotal
    <3>2. CASE j = k
      <4>1. u[k] = t[k] + d /\ u[k - 1] = t[k - 1]
        BY <1>2
      <4> QED
        BY <1>2, <1>3, <1>4, <1>5, <3>2, <4>1 DEF d
    <3>3. CASE j < k
      <4>1. u[j] = t[j] /\ u[j - 1] = t[j - 1]
        BY <1>2, <3>1, <3>3
      <4>2. escrows'[j].amount = escrows[j].amount
        BY <3>3, <1>2
      <4> QED
        BY <3>1, <4>1, <4>2
    <3>4. CASE j > k
      <4>1. u[j] = t[j] + d /\ u[j - 1] = t[j - 1] + d
        BY <1>2, <3>1, <3>4
      <4>2. escrows'[j].amount = escrows[j].amount /\ j \in Keys
        BY <3>4, <1>2
      <4>3. t[j] \in Int /\ t[j - 1] \in Int /\ escrows[j].amount \in Int
        BY <1>3, <1>4, <3>1
      <4> HIDE DEF u
      <4> QED
        BY <1>6, <3>1, <4>1, <4>2, <4>3
    <3> QED
      BY <1>2, <3>2, <3>3, <3>4
  <2> QED
    BY <2>1, <2>2
<1>13. u \in [0..N -> 0..balance'[Contract]]
  BY <1>10
<1> QED
  BY <1>11, <1>12, <1>13 DEF Ledger, RunningTotal, NeverDecreases

\* A step that leaves all amounts and does not lower the contract's balance.
LEMMA LedgerStays ==
  ASSUME TypeOK, TypeOK', Ledger,
         \A j \in Keys : escrows'[j].amount = escrows[j].amount,
         balance'[Contract] >= balance[Contract]
  PROVE  Ledger'
<1>1. PICK t \in [0..N -> 0..balance[Contract]] :
        RunningTotal(t) /\ NeverDecreases(t)
  BY DEF Ledger
<1>2. balance[Contract] \in Nat /\ balance'[Contract] \in Nat
  BY DEF TypeOK, Parties
<1>3. t \in [0..N -> 0..balance'[Contract]]
  BY <1>1, <1>2
<1> QED
  BY <1>1, <1>3 DEF Ledger, RunningTotal, NeverDecreases

\* A pay-out takes no more from the contract than the deal's own money.
LEMMA PayOutLedger ==
  ASSUME TypeOK, TypeOK', Ledger, NEW k \in Keys, NEW p \in Parties,
         NEW final, PayOut(k, p, final)
  PROVE  Ledger'
<1>1. /\ escrows'[k].amount = 0
      /\ \A j \in Keys \ {k} : escrows'[j].amount = escrows[j].amount
  BY DEF PayOut, TypeOK, Escrow
<1>2. escrows[k].amount \in Nat /\ balance[Contract] \in Nat
  BY DEF TypeOK, Escrow, Parties
<1>3. Contract \in Parties
  BY DEF Parties
<1>4. balance'[Contract] = IF p = Contract THEN balance[Contract]
                           ELSE balance[Contract] - escrows[k].amount
  BY <1>2, <1>3, MovedValue DEF PayOut
<1> QED
  BY <1>1, <1>2, <1>4, LedgerShift

\* A deployed contract holds nothing and owes nothing.
LEMMA InitLedger == Init => Ledger
<1> SUFFICES ASSUME Init PROVE Ledger
  OBVIOUS
<1> DEFINE z == [i \in 0..N |-> 0]
<1>1. N \in Nat /\ Keys = 1..N
  BY NAssumption DEF Keys
<1>2. balance[Contract] = 0 /\ \A k \in Keys : escrows[k].amount = 0
  BY DEF Init, NoEscrow
<1>3. z \in [0..N -> 0..balance[Contract]]
  BY <1>2
<1>4. RunningTotal(z) /\ NeverDecreases(z)
  BY <1>1, <1>2 DEF RunningTotal, NeverDecreases
<1> QED
  BY <1>3, <1>4 DEF Ledger

\* Each function keeps the balance above what the open deals are owed.
LEMMA LedgerStep == IInv /\ [Next]_vars => Ledger'
<1> SUFFICES ASSUME IInv, [Next]_vars PROVE Ledger'
  OBVIOUS
<1>0. TypeOK /\ FundedIffOpen /\ Ledger /\ TypeOK' /\ Contract \in Parties
  BY TypeStep DEF IInv, Parties
<1>1. balance[Contract] \in Nat
  BY <1>0 DEF TypeOK
<1>2. ASSUME UNCHANGED escrows, UNCHANGED balance PROVE Ledger'
  BY <1>2, <1>0, <1>1, LedgerStays
<1>3. ASSUME NEW who \in Accounts, NEW to \in Parties, NEW amt \in Amounts,
             transfer(who, to, amt)
      PROVE  Ledger'
  <2>1. amt \in Nat /\ who \in Parties /\ who # Contract
    BY AmountAssumption, AddressAssumption DEF Parties
  <2>2. balance'[Contract] >= balance[Contract]
    BY <1>0, <1>1, <1>3, <2>1, MovedValue DEF transfer
  <2>3. UNCHANGED escrows
    BY <1>3 DEF transfer
  <2> QED
    BY <1>0, <2>2, <2>3, LedgerStays
<1>4. ASSUME NEW who \in Accounts, NEW k \in Keys,
             NEW seller \in Parties \cup {NoOne}, NEW amt \in Amounts,
             createEscrow(who, k, seller, amt)
      PROVE  Ledger'
  <2>1. amt \in Nat /\ who \in Parties /\ who # Contract
    BY AmountAssumption, AddressAssumption DEF Parties
  <2>2. balance'[Contract] = balance[Contract] + amt
    BY <1>0, <1>4, <2>1, MovedValue DEF createEscrow
  <2>3. /\ escrows'[k].amount = amt
        /\ \A j \in Keys \ {k} : escrows'[j].amount = escrows[j].amount
    BY <1>0, <1>4 DEF createEscrow, TypeOK
  <2>4. escrows[k].amount = 0
    <3>1. escrows[k].state \notin Open /\ escrows[k].amount \in Nat
      BY <1>0, <1>4 DEF createEscrow, FundedIffOpen, TypeOK, Escrow, Open,
                        AWAITING_PAYMENT, AWAITING_DELIVERY, DISPUTED
    <3> QED
      BY <1>0, <3>1 DEF FundedIffOpen
  <2> QED
    BY <1>0, <1>1, <2>1, <2>2, <2>3, <2>4, LedgerShift
<1>5. ASSUME NEW who \in Accounts, NEW k \in Keys, releaseFunds(who, k)
      PROVE  Ledger'
  BY <1>0, <1>5, Named, PayOutLedger DEF releaseFunds, Open
<1>6. ASSUME NEW who \in Accounts, NEW k \in Keys, raiseDispute(who, k)
      PROVE  Ledger'
  <2>1. \A j \in Keys : escrows'[j].amount = escrows[j].amount
    BY <1>0, <1>6 DEF raiseDispute, TypeOK, Escrow
  <2>2. UNCHANGED balance
    BY <1>6 DEF raiseDispute
  <2> QED
    BY <1>0, <1>1, <2>1, <2>2, LedgerStays
<1>7. ASSUME NEW who \in Accounts, NEW k \in Keys, NEW toBuyer \in BOOLEAN,
             resolveDispute(who, k, toBuyer)
      PROVE  Ledger'
  BY <1>0, <1>7, Named, PayOutLedger DEF resolveDispute, Open
<1>8. ASSUME NEW who \in Accounts, NEW k \in Keys, refund(who, k)
      PROVE  Ledger'
  BY <1>0, <1>8, Named, PayOutLedger DEF refund, Open
<1> QED
  BY <1>2, <1>3, <1>4, <1>5, <1>6, <1>7, <1>8
  DEF Next, vars, approve, nominateAdmin, acceptAdmin

-----------------------------------------------------------------------------
(* The invariants.                                                         *)

\* The constructor establishes the invariant.
LEMMA InitIInv == Init => IInv
<1>1. Init => FundedIffOpen
  BY DEF Init, FundedIffOpen, NoEscrow, Open, AWAITING_PAYMENT,
         AWAITING_DELIVERY, DISPUTED
<1> QED
  BY <1>1, InitType, InitLedger DEF IInv

\* Every function keeps the invariant.
LEMMA StepIInv == IInv /\ [Next]_vars => IInv'
  BY TypeStep, FundedStep, LedgerStep DEF IInv

\* The inductive invariant holds of every reachable state.
THEOREM InductiveInvariant == Spec => []IInv
  BY InitIInv, StepIInv, PTL DEF Spec

\* Type correctness: in particular no balance is ever driven below zero and
\* the contract always has an admin to resolve its disputes.
THEOREM TypeCorrect == Spec => []TypeOK
<1>1. IInv => TypeOK
  BY DEF IInv
<1> QED
  BY <1>1, InductiveInvariant, PTL

\* Amount, state and parties of every escrow agree for ever.
THEOREM Funded == Spec => []FundedIffOpen
<1>1. IInv => FundedIffOpen
  BY DEF IInv
<1> QED
  BY <1>1, InductiveInvariant, PTL

\* The contract's balance covers all open deals of all trades at once.
THEOREM Solvency == Spec => []Solvent
<1>1. IInv => Solvent
  BY DEF IInv, Ledger, Solvent
<1> QED
  BY <1>1, InductiveInvariant, PTL
-----------------------------------------------------------------------------
(* The contract implements the promise.                                    *)

\* Names for the state the refinement mapping shows of the contract.
Deal(k) == [stage |-> Stage(escrows[k].state), payer |-> escrows[k].buyer,
            payee |-> escrows[k].seller, owed |-> escrows[k].amount]
Deals == [k \in Keys |-> Deal(k)]
Purse == [a \in Accounts |-> balance[a]]

\* The abstract stage of each contract state.
LEMMA StageValue ==
  /\ Stage(AWAITING_PAYMENT) = "none"
  /\ Stage(AWAITING_DELIVERY) = "held"
  /\ Stage(DISPUTED) = "disputed"
  /\ Stage(COMPLETE) = "settled"
  /\ Stage(REFUNDED) = "settled"
  BY DEF Stage, AWAITING_PAYMENT, AWAITING_DELIVERY, DISPUTED, COMPLETE,
         REFUNDED

\* A pay-out from an open deal is the abstract settlement of that deal.
LEMMA PayOutSettles ==
  ASSUME TypeOK, NEW k \in Keys, NEW p \in Parties,
         NEW final \in {COMPLETE, REFUNDED}, PayOut(k, p, final),
         \/ escrows[k].state \in Open /\ p = escrows[k].seller
         \/ escrows[k].state = DISPUTED /\ p = escrows[k].buyer
  PROVE  Promise!Settle(k, p)
<1>1. escrows[k] \in Escrow /\ Contract \in Parties /\ Contract \notin Accounts
  BY AddressAssumption DEF TypeOK, Parties
<1>2. Deals[k].stage = Stage(escrows[k].state) /\ Deals[k].payer = escrows[k].buyer
      /\ Deals[k].payee = escrows[k].seller /\ Deals[k].owed = escrows[k].amount
  BY DEF Deals, Deal
<1>3. \/ Deals[k].stage \in {"held", "disputed"} /\ p = Deals[k].payee
      \/ Deals[k].stage = "disputed" /\ p = Deals[k].payer
  BY <1>2, StageValue DEF Open
<1>4. Purse' = [q \in Accounts |-> IF q = p THEN Purse[q] + Deals[k].owed
                                   ELSE Purse[q]]
  <2>1. escrows[k].amount \in Nat
    BY <1>1 DEF Escrow
  <2>2. \A a \in Accounts : Purse'[a] = IF a = p THEN Purse[a] + escrows[k].amount
                                        ELSE Purse[a]
    BY <1>1, <2>1, MovedValue DEF PayOut, Purse, Parties
  <2> QED
    BY <1>2, <2>2 DEF Purse
<1>5. Deals' = [Deals EXCEPT ![k].stage = "settled", ![k].owed = 0]
  <2>1. Stage(final) = "settled"
    BY StageValue
  <2>2. Deal(k)' = [stage |-> "settled", payer |-> escrows[k].buyer,
                    payee |-> escrows[k].seller, owed |-> 0]
    BY <1>1, <2>1 DEF PayOut, TypeOK, Deal, Escrow
  <2>3. \A j \in Keys \ {k} : Deal(j)' = Deal(j)
    BY DEF PayOut, TypeOK, Deal
  <2> QED
    BY <2>2, <2>3 DEF Deals, Deal
<1> QED
  BY <1>3, <1>4, <1>5 DEF Promise!Settle, Promise!Credit, Deals, Purse, Deal

\* createEscrow is the abstract lock of the deal.
LEMMA CreateLocks ==
  ASSUME TypeOK, FundedIffOpen, NEW who \in Accounts, NEW k \in Keys,
         NEW seller \in Parties \cup {NoOne}, NEW amt \in Amounts,
         createEscrow(who, k, seller, amt)
  PROVE  Promise!Lock(k, who, seller, amt) /\ seller \in Parties
<1>1. /\ amt \in Nat /\ who \in Parties /\ Contract \in Parties
      /\ Contract \notin Accounts /\ who # Contract
  BY AddressAssumption, AmountAssumption DEF Parties
<1>2. Deals[k].stage = "none"
  BY StageValue DEF createEscrow, FundedIffOpen, Deals, Deal
<1>3. Purse[who] >= amt /\ amt > 0
  BY DEF Purse, createEscrow
<1>4. Purse' = [q \in Accounts |-> IF q = who THEN Purse[q] + (-amt)
                                   ELSE Purse[q]]
  <2>1. \A a \in Accounts : balance'[a] = IF a = who THEN balance[a] - amt
                                          ELSE balance[a]
    BY <1>1, MovedValue DEF createEscrow, Parties
  <2>2. \A a \in Accounts : balance[a] \in Nat
    BY DEF TypeOK, Parties
  <2> QED
    BY <1>1, <2>1, <2>2 DEF Purse
<1>5. Deals' = [Deals EXCEPT ![k] = [stage |-> "held", payer |-> who,
                                     payee |-> seller, owed |-> amt]]
  <2>1. Stage(AWAITING_DELIVERY) = "held"
    BY StageValue
  <2>2. Deal(k)' = [stage |-> "held", payer |-> who, payee |-> seller,
                    owed |-> amt]
    BY <2>1 DEF createEscrow, TypeOK, Deal
  <2>3. \A j \in Keys \ {k} : Deal(j)' = Deal(j)
    BY DEF createEscrow, TypeOK, Deal
  <2> QED
    BY <2>2, <2>3 DEF Deals
<1>6. seller \in Parties
  BY DEF createEscrow
<1> QED
  BY <1>2, <1>3, <1>4, <1>5, <1>6
  DEF Promise!Lock, Promise!Credit, Deals, Purse, Deal

\* A payment beside the escrow is one in the abstract specification too.
LEMMA TransferOutside ==
  ASSUME TypeOK, NEW who \in Accounts, NEW to \in Parties, NEW amt \in Amounts,
         transfer(who, to, amt)
  PROVE  Promise!Outside(who, to, amt)
<1>1. amt \in Nat /\ who \in Parties /\ \A a \in Accounts : a \in Parties
  BY AmountAssumption DEF Parties
<1>2. \A a \in Accounts : balance[a] \in Nat
  BY DEF TypeOK, Parties
<1>3. \A a \in Accounts : balance'[a] =
        IF who = to THEN balance[a]
        ELSE IF a = who THEN balance[a] - amt
        ELSE IF a = to THEN balance[a] + amt
        ELSE balance[a]
  BY <1>1, MovedValue DEF transfer
<1> DEFINE debited == [q \in Accounts |-> IF q = who THEN Purse[q] + (-amt)
                                          ELSE Purse[q]]
<1>4. Purse' = [q \in Accounts |-> IF q = to THEN debited[q] + amt
                                   ELSE debited[q]]
  BY <1>1, <1>2, <1>3 DEF Purse
<1>5. Purse[who] >= amt /\ Deals' = Deals
  BY DEF Purse, transfer, Deals, Deal
<1> QED
  BY <1>4, <1>5 DEF Promise!Outside, Promise!Credit, Deals, Purse, Deal

\* raiseDispute is the abstract dispute.
LEMMA RaiseDisputes ==
  ASSUME TypeOK, NEW who \in Accounts, NEW k \in Keys, raiseDispute(who, k)
  PROVE  Promise!Dispute(k)
<1>1. Deals[k].stage = "held"
  BY StageValue DEF raiseDispute, Deals, Deal
<1>2. Deals' = [Deals EXCEPT ![k].stage = "disputed"]
  <2>1. Stage(DISPUTED) = "disputed"
    BY StageValue
  <2>2. Deal(k)' = [Deal(k) EXCEPT !.stage = "disputed"]
    BY <2>1 DEF raiseDispute, TypeOK, Deal, Escrow
  <2>3. \A j \in Keys \ {k} : Deal(j)' = Deal(j)
    BY DEF raiseDispute, TypeOK, Deal
  <2> QED
    BY <2>2, <2>3 DEF Deals, Deal
<1>3. Purse' = Purse
  BY DEF Purse, raiseDispute
<1> QED
  BY <1>1, <1>2, <1>3 DEF Promise!Dispute, Deals, Purse, Deal

\* Every step of the contract is a step of the promise or a stutter.
LEMMA PromiseStep ==
  TypeOK /\ FundedIffOpen /\ [Next]_vars => [Promise!Next]_(Promise!vars)
<1> SUFFICES ASSUME TypeOK, FundedIffOpen, [Next]_vars
             PROVE  [Promise!Next]_(Promise!vars)
  OBVIOUS
<1>1. ASSUME UNCHANGED escrows, UNCHANGED balance
      PROVE  UNCHANGED Promise!vars
  BY <1>1 DEF Promise!vars
<1>2. ASSUME NEW who \in Accounts, NEW to \in Parties, NEW amt \in Amounts,
             transfer(who, to, amt)
      PROVE  Promise!Next
  BY <1>2, TransferOutside DEF Promise!Next
<1>3. ASSUME NEW who \in Accounts, NEW k \in Keys,
             NEW seller \in Parties \cup {NoOne}, NEW amt \in Amounts,
             createEscrow(who, k, seller, amt)
      PROVE  Promise!Next
  BY <1>3, CreateLocks DEF Promise!Next
<1>4. ASSUME NEW who \in Accounts, NEW k \in Keys, releaseFunds(who, k)
      PROVE  Promise!Next
  <2>1. escrows[k].seller \in Parties /\ escrows[k].state \in Open
    BY <1>4, Named DEF releaseFunds, Open
  <2> QED
    BY <1>4, <2>1, PayOutSettles DEF releaseFunds, Promise!Next
<1>5. ASSUME NEW who \in Accounts, NEW k \in Keys, raiseDispute(who, k)
      PROVE  Promise!Next
  BY <1>5, RaiseDisputes DEF Promise!Next
<1>6. ASSUME NEW who \in Accounts, NEW k \in Keys, NEW toBuyer \in BOOLEAN,
             resolveDispute(who, k, toBuyer)
      PROVE  Promise!Next
  <2>1. /\ escrows[k].seller \in Parties /\ escrows[k].buyer \in Parties
        /\ escrows[k].state \in Open /\ escrows[k].state = DISPUTED
    BY <1>6, Named DEF resolveDispute, Open
  <2>2. CASE toBuyer
    BY <1>6, <2>1, <2>2, PayOutSettles DEF resolveDispute, Promise!Next
  <2>3. CASE ~toBuyer
    BY <1>6, <2>1, <2>3, PayOutSettles DEF resolveDispute, Promise!Next
  <2> QED
    BY <2>2, <2>3
<1>7. ASSUME NEW who \in Accounts, NEW k \in Keys, refund(who, k)
      PROVE  Promise!Next
  <2>1. escrows[k].buyer \in Parties
    BY <1>7, Named DEF refund, Open
  <2> QED
    BY <1>7, <2>1, PayOutSettles DEF refund, Promise!Next
<1> QED
  BY <1>1, <1>2, <1>3, <1>4, <1>5, <1>6, <1>7
  DEF Next, vars, approve, nominateAdmin, acceptAdmin

\* The escrow contract implements the escrow promise.
THEOREM Refinement == Spec => KeepsPromise
<1>1. Init => Promise!Init
  <2> SUFFICES ASSUME Init PROVE Promise!Init
    OBVIOUS
  <2>1. \A k \in Keys : Deals[k].stage = "none" /\ Deals[k].owed = 0
    BY StageValue DEF Init, NoEscrow, Deals, Deal
  <2>2. Purse \in [Accounts -> Nat]
    BY InitType DEF Purse, TypeOK, Parties
  <2> QED
    BY <2>1, <2>2 DEF Promise!Init, Deals, Deal, Purse
<1>2. IInv => TypeOK /\ FundedIffOpen
  BY DEF IInv
<1> QED
  BY <1>1, <1>2, InductiveInvariant, PromiseStep, PTL
  DEF Spec, KeepsPromise, Promise!Spec
=============================================================================
