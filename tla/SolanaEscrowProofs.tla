------------------------- MODULE SolanaEscrowProofs -------------------------
(***************************************************************************)
(* What TLAPS proves of the Solana program for any trades, wallets and     *)
(* amounts.  Every trade has its own vault, so that, unlike on Celo, no sum *)
(* over the trades is needed: VaultsCover is inductive with TypeOK.  What  *)
(* it needs beyond the amounts is that nobody can pay into a vault before  *)
(* it exists, since create_escrow would then meet it.                      *)
(*                                                                         *)
(* The second half is about the swaps of the investments, which MCSolana   *)
(* instantiates beside the program: any positions, trades and failures.    *)
(***************************************************************************)
EXTENDS MCSolana, FiniteSetTheorems, TLAPS

IInv == TypeOK /\ VaultsCover

\* What a balance is after somebody has received tokens.
LEMMA ReceivedValue ==
  ASSUME NEW S, NEW t \in [S -> Nat], NEW to, NEW amount \in Nat
  PROVE  /\ Received(t, to, amount) \in [S -> Nat]
         /\ \A p \in S : Received(t, to, amount)[p] =
                           IF p = to THEN t[p] + amount ELSE t[p]
  BY DEF Received

\* Nothing has happened before the first instruction.
LEMMA InitIInv == Init => IInv
<1> SUFFICES ASSUME Init PROVE IInv
  OBVIOUS
<1>1. NoEscrow \in Escrow
  BY DEF NoEscrow, Escrow, State
<1>2. TypeOK
  BY <1>1, AmountAssumption DEF Init, TypeOK
<1>3. ASSUME NEW k \in Keys
      PROVE  /\ escrows[k].amount = 0 /\ escrows[k].state = "AwaitingPayment"
             /\ vault[k] = 0
  BY DEF Init, NoEscrow
<1>4. VaultsCover
  <2> SUFFICES ASSUME NEW k \in Keys
               PROVE  /\ vault[k] >= escrows[k].amount
                      /\ (escrows[k].amount > 0) <=> (escrows[k].state \in Open)
                      /\ ~Exists(k) => vault[k] = 0
    BY DEF VaultsCover
  <2>1. /\ escrows[k].amount = 0 /\ escrows[k].state = "AwaitingPayment"
        /\ vault[k] = 0
    BY <1>3
  <2> QED
    BY <2>1 DEF Open
<1> QED
  BY <1>2, <1>4 DEF IInv

\* What a pay-out does to the accounts it touches.
LEMMA PayOutEffect ==
  ASSUME TypeOK, NEW k \in Keys, NEW named, NEW recipient,
         NEW final \in State, PayOut(k, named, recipient, final)
  PROVE  /\ escrows[k] \in Escrow /\ escrows[k].amount \in Nat
         /\ escrows' \in [Keys -> Escrow]
         /\ escrows'[k] = [buyer |-> escrows[k].buyer, seller |-> escrows[k].seller,
                           amount |-> 0, state |-> final]
         /\ \A j \in Keys \ {k} : escrows'[j] = escrows[j]
         /\ vault' \in [Keys -> Nat] /\ tokens' \in [Parties -> Nat]
         /\ \A j \in Keys \ {k} : vault'[j] >= vault[j]
         /\ \A j \in Keys \ {k} : ~Exists(j) => vault'[j] = vault[j]
         /\ \A p \in Parties : tokens'[p] =
              IF p = recipient THEN tokens[p] + escrows[k].amount ELSE tokens[p]
<1>1. escrows[k] \in Escrow /\ escrows[k].amount \in Nat
  BY DEF TypeOK, Escrow
<1> DEFINE amount == escrows[k].amount
           rest == [vault EXCEPT ![k] = @ - amount]
<1>2. rest \in [Keys -> Nat] /\ \A j \in Keys \ {k} : rest[j] = vault[j]
  BY <1>1 DEF TypeOK, PayOut
<1>3. /\ escrows'[k] = [buyer |-> escrows[k].buyer, seller |-> escrows[k].seller,
                         amount |-> 0, state |-> final]
      /\ \A j \in Keys \ {k} : escrows'[j] = escrows[j]
  BY <1>1 DEF PayOut, TypeOK, Escrow
<1>4. escrows' \in [Keys -> Escrow]
  <2>1. escrows'[k] \in Escrow
    BY <1>1, <1>3 DEF Escrow
  <2>2. DOMAIN escrows' = Keys /\ escrows' = [j \in Keys |-> escrows'[j]]
    BY DEF PayOut, TypeOK
  <2>3. \A j \in Keys : escrows'[j] \in Escrow
    BY <1>3, <2>1 DEF TypeOK
  <2> QED
    BY <2>2, <2>3
<1>5. recipient \in Keys => Exists(recipient)
  BY DEF PayOut
<1>6. /\ vault' \in [Keys -> Nat]
      /\ \A j \in Keys : vault'[j] = IF j = recipient THEN rest[j] + amount ELSE rest[j]
  <2>1. vault' = Received(rest, recipient, amount)
    BY DEF PayOut
  <2> HIDE DEF rest, amount
  <2> QED
    BY <1>1, <1>2, <2>1 DEF Received, amount
<1>7. \A j \in Keys \ {k} : vault'[j] >= vault[j] /\ (~Exists(j) => vault'[j] = vault[j])
  BY <1>1, <1>2, <1>5, <1>6 DEF TypeOK
<1>8. /\ tokens' \in [Parties -> Nat]
      /\ \A p \in Parties : tokens'[p] =
           IF p = recipient THEN tokens[p] + amount ELSE tokens[p]
  BY <1>1 DEF TypeOK, PayOut, Received
<1> QED
  BY <1>1, <1>3, <1>4, <1>6, <1>7, <1>8 DEF TypeOK

\* A pay-out of an open deal keeps the invariant.
LEMMA PayOutIInv ==
  ASSUME IInv, NEW k \in Keys, NEW named, NEW recipient,
         NEW final \in {"Complete", "Refunded"}, escrows[k].state \in Open,
         PayOut(k, named, recipient, final)
  PROVE  IInv'
<1>0. TypeOK /\ VaultsCover /\ final \in State
  BY DEF IInv, State
<1>1. TypeOK'
  BY <1>0, PayOutEffect DEF TypeOK, PayOut
<1>2. VaultsCover'
  <2> SUFFICES ASSUME NEW j \in Keys
               PROVE  /\ vault'[j] >= escrows'[j].amount
                      /\ escrows'[j].amount > 0 <=> escrows'[j].state \in Open
                      /\ ~Exists(j)' => vault'[j] = 0
    BY DEF VaultsCover
  <2>1. CASE j = k
    <3>1. escrows'[k].amount = 0 /\ escrows'[k].state = final
      <4>1. escrows'[k] = [buyer |-> escrows[k].buyer, seller |-> escrows[k].seller,
                           amount |-> 0, state |-> final]
        BY <1>0, PayOutEffect
      <4> QED
        BY <4>1
    <3>2. vault'[k] \in Nat
      BY <1>1 DEF TypeOK
    <3> QED
      BY <2>1, <3>1, <3>2 DEF Open, Exists
  <2>2. CASE j # k
    <3>1. /\ escrows'[j] = escrows[j] /\ vault'[j] >= vault[j]
          /\ ~Exists(j) => vault'[j] = vault[j]
      BY <1>0, <2>2, PayOutEffect
    <3>2. vault[j] \in Nat /\ vault'[j] \in Nat /\ escrows[j].amount \in Nat
      BY <1>0, <1>1 DEF TypeOK, Escrow
    <3> QED
      BY <1>0, <3>1, <3>2 DEF VaultsCover, Exists
  <2> QED
    BY <2>1, <2>2
<1> QED
  BY <1>1, <1>2 DEF IInv

\* Every instruction keeps the invariant.
LEMMA StepIInv == IInv /\ [Next]_vars => IInv'
<1> SUFFICES ASSUME IInv, [Next]_vars PROVE IInv'
  OBVIOUS
<1>0. TypeOK /\ VaultsCover
  BY DEF IInv
<1>1. ASSUME UNCHANGED <<escrows, vault, tokens, derived>>, config' \in
             [admin : Parties \cup {Default}, pending : Parties \cup {Default}]
      PROVE  IInv'
  BY <1>0, <1>1 DEF IInv, TypeOK, VaultsCover, Exists
<1>2. ASSUME NEW who \in Accounts, initialize(who) PROVE IInv'
  BY <1>1, <1>2 DEF initialize, Parties
<1>3. ASSUME NEW who \in Accounts, NEW newAdmin \in Parties \cup {Default},
             nominate_admin(who, newAdmin)
      PROVE  IInv'
  BY <1>0, <1>1, <1>3 DEF nominate_admin, TypeOK
<1>4. ASSUME NEW who \in Accounts, accept_admin(who) PROVE IInv'
  BY <1>0, <1>1, <1>4 DEF accept_admin, TypeOK
<1>5. ASSUME NEW who \in Accounts, NEW to \in Parties \cup Keys,
             NEW amount \in Amounts, transfer(who, to, amount)
      PROVE  IInv'
  <2>1. amount \in Nat /\ who \in Parties
    BY AmountAssumption DEF Parties
  <2>2. [tokens EXCEPT ![who] = @ - amount] \in [Parties -> Nat]
    BY <1>0, <1>5, <2>1 DEF transfer, TypeOK
  <2>3. tokens' \in [Parties -> Nat]
    BY <1>5, <2>1, <2>2, ReceivedValue DEF transfer
  <2>4. /\ vault' \in [Keys -> Nat]
        /\ \A j \in Keys : vault'[j] = IF j = to THEN vault[j] + amount ELSE vault[j]
    BY <1>0, <1>5, <2>1, ReceivedValue DEF transfer, TypeOK
  <2>5. \A j \in Keys : escrows[j].amount \in Nat /\ vault[j] \in Nat
    BY <1>0 DEF TypeOK, Escrow
  <2>6. TypeOK'
    BY <1>0, <1>5, <2>3, <2>4 DEF transfer, TypeOK
  <2>7. VaultsCover'
    BY <1>0, <1>5, <2>1, <2>4, <2>5 DEF transfer, VaultsCover, Exists
  <2> QED
    BY <2>6, <2>7 DEF IInv
<1>6. ASSUME NEW who \in Accounts, NEW k \in Keys, NEW seller \in Parties,
             NEW amount \in Amounts, create_escrow(who, k, seller, amount)
      PROVE  IInv'
  <2>1. amount \in Nat /\ amount > 0 /\ who \in Parties
    BY <1>6, AmountAssumption DEF Parties, create_escrow
  <2> DEFINE new == [buyer |-> who, seller |-> seller, amount |-> amount,
                     state |-> "AwaitingDelivery"]
  <2>2. new \in Escrow
    BY <2>1 DEF Escrow, State
  <2>3. escrows' = [escrows EXCEPT ![k] = new] /\ escrows' \in [Keys -> Escrow]
    BY <1>0, <1>6, <2>2 DEF create_escrow, TypeOK
  <2>4. /\ tokens' \in [Parties -> Nat]
        /\ vault' = [vault EXCEPT ![k] = @ + amount] /\ vault' \in [Keys -> Nat]
    BY <1>0, <1>6, <2>1 DEF create_escrow, TypeOK
  <2>5. TypeOK'
    BY <1>0, <1>6, <2>3, <2>4 DEF create_escrow, TypeOK
  <2>6. vault[k] = 0
    BY <1>0, <1>6 DEF create_escrow, VaultsCover
  <2>7. escrows'[k] = new /\ vault'[k] = amount
    BY <1>0, <2>1, <2>3, <2>4, <2>6 DEF TypeOK
  <2>8. \A j \in Keys \ {k} : escrows'[j] = escrows[j] /\ vault'[j] = vault[j]
    BY <1>0, <2>3, <2>4 DEF TypeOK
  <2>9. VaultsCover'
    BY <1>0, <2>1, <2>7, <2>8 DEF VaultsCover, Exists, Open
  <2> QED
    BY <2>5, <2>9 DEF IInv
<1>7. ASSUME NEW who \in Accounts, NEW k \in Keys, raise_dispute(who, k)
      PROVE  IInv'
  <2>1. escrows[k] \in Escrow
    BY <1>0 DEF TypeOK
  <2>2. /\ escrows' \in [Keys -> Escrow]
        /\ \A j \in Keys \ {k} : escrows'[j] = escrows[j]
        /\ escrows'[k].amount = escrows[k].amount /\ escrows'[k].state = "Disputed"
    BY <1>0, <1>7, <2>1 DEF raise_dispute, TypeOK, Escrow, State
  <2>3. TypeOK'
    BY <1>0, <1>7, <2>2 DEF raise_dispute, TypeOK
  <2>4. VaultsCover'
    BY <1>0, <1>7, <2>2 DEF raise_dispute, VaultsCover, Exists, Open
  <2> QED
    BY <2>3, <2>4 DEF IInv
<1>8. ASSUME NEW who \in Accounts, NEW k \in Keys,
             NEW recipient \in Parties \cup Keys,
             \/ release_funds(who, k, recipient)
             \/ \E toBuyer \in BOOLEAN : resolve_dispute(who, k, toBuyer, recipient)
             \/ refund(who, k, recipient)
      PROVE  IInv'
  BY <1>8, PayOutIInv DEF release_funds, resolve_dispute, refund, Open
<1>9. CASE UNCHANGED vars
  BY <1>0, <1>1, <1>9 DEF vars, TypeOK
<1> QED
  BY <1>2, <1>3, <1>4, <1>5, <1>6, <1>7, <1>8, <1>9 DEF Next

\* The inductive invariant holds of every reachable state.
THEOREM InductiveInvariant == Spec => []IInv
  BY InitIInv, StepIInv, PTL DEF Spec

\* Whoever is paid, every vault holds the money of its own open deal.
THEOREM VaultsSafe == Spec => []VaultsCover
<1>1. IInv => VaultsCover
  BY DEF IInv
<1> QED
  BY <1>1, InductiveInvariant, PTL
-----------------------------------------------------------------------------
(* As long as pay-outs follow the record, the program implements the       *)
(* promise.                                                                *)

\* Names for the state the refinement mapping shows of the program.
Deal(k) == [stage |-> Stage(escrows[k].state), payer |-> escrows[k].buyer,
            payee |-> escrows[k].seller, owed |-> escrows[k].amount]
Deals == [k \in Keys |-> Deal(k)]
Purse == [a \in Accounts |-> tokens[a]]

\* The abstract stage of each state of the program.
LEMMA StageValue ==
  /\ Stage("AwaitingPayment") = "none"
  /\ Stage("AwaitingDelivery") = "held"
  /\ Stage("Disputed") = "disputed"
  /\ Stage("Complete") = "settled"
  /\ Stage("Refunded") = "settled"
  BY DEF Stage

\* A pay-out to the party the escrow names is the abstract settlement.
LEMMA PayOutSettles ==
  ASSUME TypeOK, NEW k \in Keys, NEW p \in Parties \cup {Default},
         NEW recipient, NEW final \in {"Complete", "Refunded"},
         PayOut(k, p, recipient, final), recipient = p,
         \/ escrows[k].state \in Open /\ p = escrows[k].seller
         \/ escrows[k].state = "Disputed" /\ p = escrows[k].buyer
  PROVE  Promise!Settle(k, p)
<1>1. Deals[k].stage = Stage(escrows[k].state) /\ Deals[k].payer = escrows[k].buyer
      /\ Deals[k].payee = escrows[k].seller /\ Deals[k].owed = escrows[k].amount
  BY DEF Deals, Deal
<1>2. \/ Deals[k].stage \in {"held", "disputed"} /\ p = Deals[k].payee
      \/ Deals[k].stage = "disputed" /\ p = Deals[k].payer
  BY <1>1, StageValue DEF Open
<1>3. final \in State
  BY DEF State
<1>4. Purse' = [q \in Accounts |-> IF q = p THEN Purse[q] + Deals[k].owed
                                   ELSE Purse[q]]
  <2>1. \A a \in Accounts : Purse'[a] = IF a = p THEN Purse[a] + escrows[k].amount
                                        ELSE Purse[a]
    <3>1. \A q \in Parties : tokens'[q] =
            IF q = recipient THEN tokens[q] + escrows[k].amount ELSE tokens[q]
      BY DEF PayOut, Received, TypeOK
    <3> QED
      BY <3>1 DEF Purse, Parties
  <2> QED
    BY <1>1, <2>1 DEF Purse
<1>5. Deals' = [Deals EXCEPT ![k].stage = "settled", ![k].owed = 0]
  <2>1. Deal(k)' = [stage |-> "settled", payer |-> escrows[k].buyer,
                    payee |-> escrows[k].seller, owed |-> 0]
    <3>1. escrows'[k] = [buyer |-> escrows[k].buyer, seller |-> escrows[k].seller,
                         amount |-> 0, state |-> final]
      BY <1>3, PayOutEffect
    <3> QED
      BY <3>1, StageValue DEF Deal
  <2>2. \A j \in Keys \ {k} : Deal(j)' = Deal(j)
    <3>1. \A j \in Keys \ {k} : escrows'[j] = escrows[j]
      BY <1>3, PayOutEffect
    <3> QED
      BY <3>1 DEF Deal
  <2> QED
    BY <2>1, <2>2 DEF Deals, Deal
<1> QED
  BY <1>2, <1>4, <1>5 DEF Promise!Settle, Promise!Credit, Deals, Purse, Deal

\* create_escrow is the abstract lock of the deal.
LEMMA CreateLocks ==
  ASSUME TypeOK, NEW who \in Accounts, NEW k \in Keys,
         NEW seller \in Parties, NEW amount \in Amounts,
         create_escrow(who, k, seller, amount)
  PROVE  Promise!Lock(k, who, seller, amount)
<1>1. amount \in Nat /\ who \in Parties
  BY AmountAssumption DEF Parties
<1>2. Deals[k].stage = "none"
  BY StageValue DEF create_escrow, Exists, Deals, Deal
<1>3. Purse[who] >= amount /\ amount > 0
  BY DEF Purse, create_escrow
<1>4. Purse' = [q \in Accounts |-> IF q = who THEN Purse[q] + (-amount)
                                   ELSE Purse[q]]
  <2>1. \A a \in Accounts : tokens'[a] = IF a = who THEN tokens[a] - amount
                                         ELSE tokens[a]
    BY <1>1 DEF create_escrow, TypeOK, Parties
  <2>2. \A a \in Accounts : tokens[a] \in Nat
    BY DEF TypeOK, Parties
  <2> QED
    BY <1>1, <2>1, <2>2 DEF Purse
<1>5. Deals' = [Deals EXCEPT ![k] = [stage |-> "held", payer |-> who,
                                     payee |-> seller, owed |-> amount]]
  <2>1. Deal(k)' = [stage |-> "held", payer |-> who, payee |-> seller,
                    owed |-> amount]
    BY StageValue DEF create_escrow, TypeOK, Deal
  <2>2. \A j \in Keys \ {k} : Deal(j)' = Deal(j)
    BY DEF create_escrow, TypeOK, Deal
  <2> QED
    BY <2>1, <2>2 DEF Deals
<1> QED
  BY <1>2, <1>3, <1>4, <1>5
  DEF Promise!Lock, Promise!Credit, Deals, Purse, Deal

\* A payment beside the program is one beside the escrow; one into a vault
\* is one to an address outside.
LEMMA TransferOutside ==
  ASSUME TypeOK, NEW who \in Accounts, NEW to \in Parties \cup Keys,
         NEW amount \in Amounts, transfer(who, to, amount)
  PROVE  \E p \in Parties : Promise!Outside(who, p, amount)
<1> DEFINE p == IF to \in Parties THEN to ELSE Elsewhere
<1>1. /\ amount \in Nat /\ who \in Parties /\ p \in Parties
      /\ \A a \in Accounts : a \in Parties /\ (a = to <=> a = p)
  BY AmountAssumption, AddressAssumption DEF Parties
<1>2. \A a \in Accounts : tokens[a] \in Nat
  BY DEF TypeOK, Parties
<1> DEFINE debited == [q \in Accounts |-> IF q = who THEN Purse[q] + (-amount)
                                          ELSE Purse[q]]
<1>3. \A a \in Accounts :
        tokens'[a] = IF a = p THEN debited[a] + amount ELSE debited[a]
  <2>1. \A a \in Accounts : tokens'[a] =
          IF a = to THEN [tokens EXCEPT ![who] = @ - amount][a] + amount
          ELSE [tokens EXCEPT ![who] = @ - amount][a]
    BY <1>1 DEF transfer, Received, TypeOK
  <2>2. \A a \in Accounts : [tokens EXCEPT ![who] = @ - amount][a] = debited[a]
    BY <1>1, <1>2 DEF TypeOK, Purse
  <2> QED
    BY <1>1, <2>1, <2>2
<1>4. Purse' = [q \in Accounts |-> IF q = p THEN debited[q] + amount
                                   ELSE debited[q]]
  BY <1>3 DEF Purse
<1>5. Purse[who] >= amount /\ Deals' = Deals
  BY DEF Purse, transfer, Deals, Deal
<1>6. Promise!Outside(who, p, amount)
  BY <1>4, <1>5 DEF Promise!Outside, Promise!Credit, Deals, Purse, Deal
<1> QED
  BY <1>1, <1>6

\* raise_dispute is the abstract dispute.
LEMMA RaiseDisputes ==
  ASSUME TypeOK, NEW who \in Accounts, NEW k \in Keys, raise_dispute(who, k)
  PROVE  Promise!Dispute(k)
<1>1. Deals[k].stage = "held"
  BY StageValue DEF raise_dispute, Deals, Deal
<1>2. Deals' = [Deals EXCEPT ![k].stage = "disputed"]
  <2>1. Deal(k)' = [Deal(k) EXCEPT !.stage = "disputed"]
    BY StageValue DEF raise_dispute, TypeOK, Deal, Escrow
  <2>2. \A j \in Keys \ {k} : Deal(j)' = Deal(j)
    BY DEF raise_dispute, TypeOK, Deal
  <2> QED
    BY <2>1, <2>2 DEF Deals, Deal
<1>3. Purse' = Purse
  BY DEF Purse, raise_dispute
<1> QED
  BY <1>1, <1>2, <1>3 DEF Promise!Dispute, Deals, Purse, Deal

\* The parties of an escrow that exists are addresses.
Named == \A k \in Keys : Exists(k) =>
           escrows[k].buyer \in Parties /\ escrows[k].seller \in Parties

\* create_escrow is the only instruction that writes the parties.
LEMMA NamedStep == TypeOK /\ Named /\ [Next]_vars => Named'
<1> SUFFICES ASSUME TypeOK, Named, [Next]_vars PROVE Named'
  OBVIOUS
<1>1. ASSUME UNCHANGED escrows PROVE Named'
  BY <1>1 DEF Named, Exists
<1>2. ASSUME NEW who \in Accounts, NEW k \in Keys, NEW seller \in Parties,
             NEW amount \in Amounts, create_escrow(who, k, seller, amount)
      PROVE  Named'
  BY <1>2 DEF create_escrow, Named, Exists, TypeOK, Parties
<1>3. ASSUME NEW k \in Keys, escrows[k].state \in Open,
             /\ escrows'[k].buyer = escrows[k].buyer
             /\ escrows'[k].seller = escrows[k].seller,
             \A j \in Keys \ {k} : escrows'[j] = escrows[j]
      PROVE  Named'
  BY <1>3 DEF Named, Exists, Open
<1>4. ASSUME NEW who \in Accounts, NEW k \in Keys, raise_dispute(who, k)
      PROVE  Named'
  <2>1. /\ escrows'[k].buyer = escrows[k].buyer
        /\ escrows'[k].seller = escrows[k].seller
        /\ \A j \in Keys \ {k} : escrows'[j] = escrows[j]
    BY <1>4 DEF raise_dispute, TypeOK, Escrow
  <2> QED
    BY <1>3, <1>4, <2>1 DEF raise_dispute, Open
<1>5. ASSUME NEW k \in Keys, NEW named, NEW recipient, escrows[k].state \in Open,
             NEW final \in {"Complete", "Refunded"},
             PayOut(k, named, recipient, final)
      PROVE  Named'
  <2>1. final \in State
    BY DEF State
  <2>2. /\ escrows'[k] = [buyer |-> escrows[k].buyer, seller |-> escrows[k].seller,
                          amount |-> 0, state |-> final]
        /\ \A j \in Keys \ {k} : escrows'[j] = escrows[j]
    BY <1>5, <2>1, PayOutEffect
  <2> QED
    BY <1>3, <1>5, <2>2
<1>6. ASSUME NEW who \in Accounts, NEW k \in Keys,
             NEW recipient \in Parties \cup Keys,
             \/ release_funds(who, k, recipient)
             \/ \E toBuyer \in BOOLEAN : resolve_dispute(who, k, toBuyer, recipient)
             \/ refund(who, k, recipient)
      PROVE  Named'
  BY <1>5, <1>6 DEF release_funds, resolve_dispute, refund, Open
<1> QED
  BY <1>1, <1>2, <1>4, <1>6
  DEF Next, vars, initialize, nominate_admin, accept_admin, transfer

\* Every step that pays the party it should is a step of the promise.
LEMMA PromiseStep ==
  TypeOK /\ Named /\ [Next]_vars /\ derived' => [Promise!Next]_(Promise!vars)
<1> SUFFICES ASSUME TypeOK, Named, [Next]_vars, derived'
             PROVE  [Promise!Next]_(Promise!vars)
  OBVIOUS
<1>1. ASSUME UNCHANGED escrows, UNCHANGED tokens
      PROVE  UNCHANGED Promise!vars
  BY <1>1 DEF Promise!vars
<1>2. ASSUME NEW who \in Accounts, NEW to \in Parties \cup Keys,
             NEW amount \in Amounts, transfer(who, to, amount)
      PROVE  Promise!Next
  BY <1>2, TransferOutside DEF Promise!Next
<1>3. ASSUME NEW who \in Accounts, NEW k \in Keys, NEW seller \in Parties,
             NEW amount \in Amounts, create_escrow(who, k, seller, amount)
      PROVE  Promise!Next
  BY <1>3, CreateLocks DEF Promise!Next
<1>4. ASSUME NEW who \in Accounts, NEW k \in Keys, raise_dispute(who, k)
      PROVE  Promise!Next
  BY <1>4, RaiseDisputes DEF Promise!Next
<1>5. ASSUME NEW k \in Keys, NEW named, NEW recipient, escrows[k].state \in Open,
             NEW final \in {"Complete", "Refunded"},
             PayOut(k, named, recipient, final),
             \/ named = escrows[k].seller
             \/ escrows[k].state = "Disputed" /\ named = escrows[k].buyer
      PROVE  Promise!Next
  <2>1. named \in Parties
    BY <1>5 DEF Named, Exists, Open
  <2>2. recipient = named
    BY <1>5 DEF PayOut
  <2>3. Promise!Settle(k, named)
    BY <1>5, <2>1, <2>2, PayOutSettles
  <2> QED
    BY <2>1, <2>3 DEF Promise!Next
<1>6. ASSUME NEW who \in Accounts, NEW k \in Keys,
             NEW toBuyer \in BOOLEAN, NEW recipient \in Parties \cup Keys,
             resolve_dispute(who, k, toBuyer, recipient)
      PROVE  Promise!Next
  <2>1. CASE toBuyer
    BY <1>5, <1>6, <2>1 DEF resolve_dispute, Open
  <2>2. CASE ~toBuyer
    BY <1>5, <1>6, <2>2 DEF resolve_dispute, Open
  <2> QED
    BY <2>1, <2>2
<1>7. ASSUME NEW who \in Accounts, NEW k \in Keys,
             NEW recipient \in Parties \cup Keys,
             release_funds(who, k, recipient) \/ refund(who, k, recipient)
      PROVE  Promise!Next
  BY <1>5, <1>7 DEF release_funds, refund, Open
<1> QED
  BY <1>1, <1>2, <1>3, <1>4, <1>6, <1>7
  DEF Next, vars, initialize, nominate_admin, accept_admin

\* Whatever the callers of other trades do, an escrow program whose callers
\* derive the paid account from the record keeps the promise.
THEOREM Refinement == Spec => KeepsPromise
<1>1. Init => Named
  BY DEF Init, Named, Exists, NoEscrow
<1>2. IInv => TypeOK
  BY DEF IInv
<1>3. TypeOK /\ Named /\ [Next]_vars
        => [derived' => [Promise!Next]_(Promise!vars)]_vars
  BY PromiseStep
<1> QED
  BY <1>1, <1>2, <1>3, NamedStep, InductiveInvariant, PTL
  DEF Spec, KeepsPromise

-----------------------------------------------------------------------------
(***************************************************************************)
(* The swaps of the platform's wallet (Investments), for any positions and *)
(* trades.                                                                 *)
(***************************************************************************)
Running == {"create", "quote", "broadcast", "confirm", "execute", "fail"}
SwapTypeOK ==
  /\ position \in [Positions -> {"none", "PENDING", "EXECUTED", "FAILED"}]
  /\ calls \in [Positions -> [pc : Running \cup {"unused", "returned"},
                              trade : Keys \cup {NoTrade}]]
  /\ calm \in BOOLEAN

\* Until a call is over it may rely on what it found when it began: it is the
\* only one of its trade, and no position of the trade is EXECUTED.
Exclusive(t) ==
  /\ \A p, q \in Swaps!Of(t) : ~Swaps!Over(p) /\ ~Swaps!Over(q) => p = q
  /\ \A p \in Swaps!Of(t) : ~Swaps!Over(p) => Swaps!Executed(t) = {}
  /\ \A p, q \in Swaps!Executed(t) : p = q

\* A call that has not begun has no row.
NoRowYet == \A p \in Positions : calls[p].pc = "unused" => position[p] = "none"

SwapInv == SwapTypeOK /\ NoRowYet /\ (calm => \A t \in Keys : Exclusive(t))

\* A call goes on or ends, with its row as it was or with a failure on it.
LEMMA SwapGoesOn ==
  ASSUME SwapInv, NEW p \in Positions, calls[p].pc \in Running,
         NEW pc \in Running \cup {"returned"}, Swaps!Goto(p, pc),
         \/ UNCHANGED position
         \/ \E status \in {"PENDING", "FAILED"} :
              position' = [position EXCEPT ![p] = status],
         UNCHANGED calm
  PROVE  SwapInv'
<1>1. /\ calls' \in [Positions -> [pc : Running \cup {"unused", "returned"},
                                   trade : Keys \cup {NoTrade}]]
      /\ calls'[p].pc = pc
      /\ \A q \in Positions : /\ calls'[q].trade = calls[q].trade
                              /\ q # p => calls'[q] = calls[q]
  BY DEF SwapInv, SwapTypeOK, Swaps!Goto
<1>2. /\ position' \in [Positions -> {"none", "PENDING", "EXECUTED", "FAILED"}]
      /\ \A q \in Positions : position'[q] = "EXECUTED" => position[q] = "EXECUTED"
  BY DEF SwapInv, SwapTypeOK
<1>3. ASSUME NEW t \in Keys
      PROVE  /\ Swaps!Of(t)' = Swaps!Of(t)
             /\ Swaps!Executed(t)' \subseteq Swaps!Executed(t)
             /\ \A q \in Swaps!Of(t) : ~Swaps!Over(q)' => ~Swaps!Over(q)
  BY <1>1, <1>2 DEF Swaps!Of, Swaps!Executed, Swaps!Over, Running
<1>4. calm => \A t \in Keys : Exclusive(t)'
  BY <1>3 DEF SwapInv, Exclusive
<1>5. NoRowYet'
  BY <1>1 DEF SwapInv, SwapTypeOK, NoRowYet, Running
<1> QED BY <1>1, <1>2, <1>4, <1>5 DEF SwapInv, SwapTypeOK

\* A call begins: the query for an EXECUTED position decides whether it runs.
LEMMA SwapBegins ==
  ASSUME SwapInv, NEW p \in Positions, NEW t \in Keys \cup {NoTrade},
         Swaps!executeSwap(p, t)
  PROVE  SwapInv'
<1> DEFINE pc == IF t = NoTrade \/ Swaps!isNew(t) THEN "create" ELSE "returned"
<1>1. /\ calls[p] = [pc |-> "unused", trade |-> NoTrade]
      /\ calls' = [calls EXCEPT ![p] = [pc |-> pc, trade |-> t]]
      /\ calm' = (calm /\ \A q \in Swaps!Of(t) : Swaps!Over(q))
      /\ UNCHANGED position
  BY DEF Swaps!executeSwap, Swaps!Begin, Swaps!Unused
<1>2. SwapTypeOK'
  BY <1>1 DEF SwapInv, SwapTypeOK, Running
<1>3. ASSUME calm', NEW u \in Keys
      PROVE  Exclusive(u)'
  <2>1. Exclusive(u) /\ \A q \in Swaps!Of(t) : Swaps!Over(q)
    BY <1>1, <1>3 DEF SwapInv
  <2>2. \A q \in Positions : /\ q # p => calls'[q] = calls[q]
                             /\ q = p => calls'[q] = [pc |-> pc, trade |-> t]
    BY <1>1 DEF SwapInv, SwapTypeOK
  <2>3. CASE u # t
    <3>1. Swaps!Of(u)' = Swaps!Of(u) /\ p \notin Swaps!Of(u)
      BY <1>1, <2>2, <2>3, NoTradeAssumption DEF Swaps!Of
    <3>2. Swaps!Executed(u)' = Swaps!Executed(u)
      BY <1>1, <3>1 DEF Swaps!Executed
    <3>3. \A q \in Swaps!Of(u) : Swaps!Over(q)' <=> Swaps!Over(q)
      BY <2>2, <3>1 DEF Swaps!Of, Swaps!Over
    <3> QED BY <2>1, <3>1, <3>2, <3>3 DEF Exclusive
  <2>4. CASE u = t
    <3>1. Swaps!Of(u)' = Swaps!Of(u) \cup {p} /\ u # NoTrade
      BY <2>2, <2>4, NoTradeAssumption DEF Swaps!Of
    <3>2. \A q \in Swaps!Of(u)' : ~Swaps!Over(q)' => q = p /\ pc = "create"
      BY <2>1, <2>2, <2>4, <3>1 DEF Swaps!Of, Swaps!Over
    <3>3. pc = "create" => Swaps!Executed(u) = {}
      BY <2>4, <3>1 DEF Swaps!isNew
    <3>4. Swaps!Executed(u)' = Swaps!Executed(u)
      <4>1. position[p] = "none"
        BY <1>1 DEF SwapInv, NoRowYet
      <4> QED BY <1>1, <3>1, <4>1 DEF Swaps!Executed
    <3> QED BY <2>1, <3>2, <3>3, <3>4 DEF Exclusive
  <2> QED BY <2>3, <2>4
<1>4. NoRowYet'
  BY <1>1 DEF SwapInv, SwapTypeOK, NoRowYet
<1> QED BY <1>2, <1>3, <1>4 DEF SwapInv

\* A call writes the outcome: no position of its trade is EXECUTED before.
LEMMA SwapExecuted ==
  ASSUME SwapInv, NEW p \in Positions, Swaps!executed(p)
  PROVE  SwapInv'
<1>1. /\ calls[p].pc = "execute"
      /\ position' = [position EXCEPT ![p] = "EXECUTED"]
      /\ calls' = [calls EXCEPT ![p].pc = "returned"]
      /\ UNCHANGED calm
  BY DEF Swaps!executed, Swaps!Goto
<1>2. /\ calls' \in [Positions -> [pc : Running \cup {"unused", "returned"},
                                   trade : Keys \cup {NoTrade}]]
      /\ calls'[p].pc = "returned"
      /\ \A q \in Positions : /\ calls'[q].trade = calls[q].trade
                              /\ q # p => calls'[q] = calls[q]
  BY <1>1 DEF SwapInv, SwapTypeOK
<1>3. SwapTypeOK' /\ NoRowYet'
  BY <1>1, <1>2 DEF SwapInv, SwapTypeOK, NoRowYet
<1>4. ASSUME calm', NEW t \in Keys
      PROVE  Exclusive(t)'
  <2>1. Swaps!Of(t)' = Swaps!Of(t) /\ Exclusive(t)
    BY <1>1, <1>2, <1>4 DEF Swaps!Of, SwapInv
  <2>2. \A q \in Swaps!Of(t) : ~Swaps!Over(q)' => ~Swaps!Over(q) /\ q # p
    BY <1>2 DEF Swaps!Of, Swaps!Over
  <2>3. CASE p \in Swaps!Of(t)
    <3>1. ~Swaps!Over(p)
      BY <1>1 DEF Swaps!Over
    <3>2. Swaps!Executed(t) = {} /\ \A q \in Swaps!Of(t) : Swaps!Over(q)'
      BY <2>1, <2>2, <2>3, <3>1 DEF Exclusive
    <3>3. \A q \in Swaps!Executed(t)' : q = p
      BY <1>1, <2>1, <3>2 DEF Swaps!Executed, SwapInv, SwapTypeOK, Swaps!Of
    <3> QED BY <2>1, <3>2, <3>3 DEF Exclusive
  <2>4. CASE p \notin Swaps!Of(t)
    <3>1. Swaps!Executed(t)' = Swaps!Executed(t)
      BY <1>1, <2>1, <2>4 DEF Swaps!Executed, SwapInv, SwapTypeOK, Swaps!Of
    <3> QED BY <2>1, <2>2, <3>1 DEF Exclusive
  <2> QED BY <2>3, <2>4
<1> QED BY <1>3, <1>4 DEF SwapInv

\* Calls that a restart cuts off are over, and their rows stay.
LEMMA SwapRestart ==
  ASSUME SwapInv, Swaps!restart
  PROVE  SwapInv'
<1>1. /\ calls' = [p \in Positions |-> IF ~Swaps!Over(p)
                     THEN [calls[p] EXCEPT !.pc = "returned"] ELSE calls[p]]
      /\ UNCHANGED <<position, calm>>
  BY DEF Swaps!restart
<1>2. \A p \in Positions : /\ calls'[p].trade = calls[p].trade
                           /\ calls'[p].pc \in {calls[p].pc, "returned"}
                           /\ Swaps!Over(p)'
  BY <1>1 DEF SwapInv, SwapTypeOK, Swaps!Over
<1>3. SwapTypeOK' /\ NoRowYet'
  BY <1>1, <1>2 DEF SwapInv, SwapTypeOK, NoRowYet
<1>4. ASSUME NEW t \in Keys
      PROVE  Swaps!Of(t)' = Swaps!Of(t) /\ Swaps!Executed(t)' = Swaps!Executed(t)
  BY <1>1, <1>2 DEF Swaps!Of, Swaps!Executed
<1>5. calm => \A t \in Keys : Exclusive(t)'
  BY <1>2, <1>4 DEF SwapInv, Exclusive, Swaps!Of
<1> QED BY <1>1, <1>3, <1>5 DEF SwapInv

\* One step per action.
LEMMA SwapStep == SwapInv /\ [Swaps!Next]_swapVars => SwapInv'
<1> SUFFICES ASSUME SwapInv, [Swaps!Next]_swapVars PROVE SwapInv'
  OBVIOUS
<1>1. CASE UNCHANGED swapVars
  BY <1>1 DEF swapVars, SwapInv, SwapTypeOK, NoRowYet, Exclusive, Swaps!Of,
              Swaps!Executed, Swaps!Over
<1>2. ASSUME NEW p \in Positions, NEW t \in Keys \cup {NoTrade}, Swaps!executeSwap(p, t)
      PROVE  SwapInv'
  BY <1>2, SwapBegins
<1>3. ASSUME NEW p \in Positions,
             \/ Swaps!create(p) \/ Swaps!getQuote(p) \/ Swaps!broadcastSwap(p)
             \/ Swaps!confirmed(p) \/ Swaps!failed(p)
      PROVE  SwapInv'
  BY <1>3, SwapGoesOn DEF Running, Swaps!create, Swaps!getQuote,
     Swaps!broadcastSwap, Swaps!confirmed, Swaps!failed
<1>4. ASSUME NEW p \in Positions,
             Swaps!throws(p) \/ Swaps!sentAndThrows(p) \/ Swaps!queryFails(p)
      PROVE  SwapInv'
  BY <1>4, SwapGoesOn DEF Running, Swaps!throws, Swaps!sentAndThrows,
     Swaps!queryFails
<1>5. ASSUME NEW p \in Positions, Swaps!settles(p)
      PROVE  SwapInv'
  BY <1>5 DEF Swaps!settles, SwapInv, SwapTypeOK, NoRowYet, Exclusive, Swaps!Of,
              Swaps!Executed, Swaps!Over
<1> QED BY <1>1, <1>2, <1>3, <1>4, <1>5, SwapExecuted, SwapRestart
        DEF Swaps!Next, Swaps!Proceed, Swaps!Throw

LEMMA SameCardinality ==
  ASSUME NEW X PROVE Swaps!Cardinality(X) = Cardinality(X)
BY DEF Swaps!Cardinality, Cardinality

\* A trade is swapped for once, whatever fails or is cut off, as long as no
\* two calls for it overlap.
THEOREM SwappedOnce == Swaps!Spec => []OneExecuted
<1>1. Swaps!Init => SwapInv
  BY DEF Swaps!Init, Swaps!Unused, SwapInv, SwapTypeOK, NoRowYet, Running,
         Exclusive, Swaps!Of, Swaps!Executed, Swaps!Over
<1>2. SwapInv => OneExecuted
  <2> SUFFICES ASSUME SwapInv, calm, NEW t \in Keys
               PROVE  Cardinality(Swaps!Executed(t)) <= 1
    BY SameCardinality DEF OneExecuted, Swaps!OneExecuted
  <2>1. \A p, q \in Swaps!Executed(t) : p = q
    BY DEF SwapInv, Exclusive
  <2>2. CASE Swaps!Executed(t) = {}
    BY <2>2, FS_EmptySet
  <2>3. ASSUME NEW p, Swaps!Executed(t) = {p}
        PROVE  Cardinality(Swaps!Executed(t)) <= 1
    <3>1. Cardinality({p}) = 1
      BY FS_Singleton
    <3> QED BY <2>3, <3>1
  <2> QED BY <2>1, <2>2, <2>3
<1> QED BY <1>1, <1>2, SwapStep, PTL DEF Swaps!Spec, swapVars, Swaps!vars
=============================================================================
