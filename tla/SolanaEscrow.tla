---------------------------- MODULE SolanaEscrow ----------------------------
(***************************************************************************)
(* The Solana escrow program, contracts-solana/programs/agro-escrow.  One  *)
(* action per instruction; an instruction that fails changes nothing, so   *)
(* its checks are guards.  Unlike the Celo contract every trade has a vault*)
(* of its own, there is no admin until somebody calls initialize, and the  *)
(* account that is paid is chosen by whoever sends the instruction: the    *)
(* program checks its mint, not its owner.  One mint is modelled, the one  *)
(* the platform is configured with, and one token account for each wallet. *)
(***************************************************************************)
EXTENDS Integers

CONSTANTS Keys,       \* trade ids; each derives an escrow and a vault address
          Accounts,   \* wallets that can sign
          Elsewhere,  \* any other address
          Default,    \* Pubkey::default()
          Amounts     \* token amounts an instruction may name

ASSUME AddressAssumption ==
  /\ Elsewhere \notin Accounts /\ Default \notin Accounts
  /\ Elsewhere # Default
  /\ Keys \cap (Accounts \cup {Elsewhere, Default}) = {}
ASSUME AmountAssumption == Amounts \subseteq Nat

Parties == Accounts \cup {Elsewhere}
State == {"AwaitingPayment", "AwaitingDelivery", "Complete", "Disputed",
          "Refunded"}
Open == {"AwaitingDelivery", "Disputed"}

VARIABLES config,    \* config PDA: admin and pending admin, Default before it exists
          escrows,   \* escrow PDA of every trade; AwaitingPayment: no account yet
          vault,     \* tokens in the vault of every trade
          tokens,    \* tokens of every wallet
          derived    \* history: all pay-outs so far went to an account of the
                     \* party that the escrow names

vars == <<config, escrows, vault, tokens, derived>>

Escrow == [buyer : Parties \cup {Default}, seller : Parties \cup {Default},
           amount : Nat, state : State]
NoEscrow == [buyer |-> Default, seller |-> Default, amount |-> 0,
             state |-> "AwaitingPayment"]
Exists(k) == escrows[k].state # "AwaitingPayment"
ConfigExists == config.admin # Default

(***************************************************************************)
(* The admin.                                                              *)
(***************************************************************************)
\* The deployer, or whoever comes first.
initialize(who) ==
  /\ ~ConfigExists
  /\ config' = [admin |-> who, pending |-> Default]
  /\ UNCHANGED <<escrows, vault, tokens, derived>>

nominate_admin(who, newAdmin) ==
  /\ ConfigExists /\ who = config.admin
  /\ newAdmin # Default
  /\ config' = [config EXCEPT !.pending = newAdmin]
  /\ UNCHANGED <<escrows, vault, tokens, derived>>

accept_admin(who) ==
  /\ ConfigExists /\ who = config.pending
  /\ config' = [admin |-> config.pending, pending |-> Default]
  /\ UNCHANGED <<escrows, vault, tokens, derived>>

(***************************************************************************)
(* The tokens.                                                             *)
(***************************************************************************)
Received(t, to, amount) ==
  [p \in DOMAIN t |-> IF p = to THEN t[p] + amount ELSE t[p]]

\* A payment beside the program, to a vault included once it is there.
transfer(who, to, amount) ==
  /\ tokens[who] >= amount
  /\ to \in Keys => Exists(to)
  /\ tokens' = Received([tokens EXCEPT ![who] = @ - amount], to, amount)
  /\ vault' = Received(vault, to, amount)
  /\ UNCHANGED <<config, escrows, derived>>

(***************************************************************************)
(* The escrow.                                                             *)
(***************************************************************************)
\* The seller is any address; the platform checks it beforehand.
create_escrow(who, k, seller, amount) ==
  /\ amount > 0
  /\ ~Exists(k)
  /\ tokens[who] >= amount
  /\ tokens' = [tokens EXCEPT ![who] = @ - amount]
  /\ vault' = [vault EXCEPT ![k] = @ + amount]
  /\ escrows' = [escrows EXCEPT ![k] =
       [buyer |-> who, seller |-> seller, amount |-> amount,
        state |-> "AwaitingDelivery"]]
  /\ UNCHANGED <<config, derived>>

\* Mutant of PayOut: the amount is not reset.
PayOutUncleared(k, named, recipient, final) ==
  /\ ConfigExists
  /\ vault[k] >= escrows[k].amount
  /\ vault' = Received([vault EXCEPT ![k] = @ - escrows[k].amount], recipient,
                       escrows[k].amount)
  /\ tokens' = Received(tokens, recipient, escrows[k].amount)
  /\ escrows' = [escrows EXCEPT ![k].state = final]
  /\ derived' = (derived /\ recipient = named)
  /\ UNCHANGED config

\* The common end of release_funds, resolve_dispute and refund, which all read
\* the config account.  The recipient is an account of the mint, a vault
\* included; named is the party that escrow.service.ts derives it from.
PayOut(k, named, recipient, final) ==
  /\ ConfigExists
  /\ recipient \in Keys => Exists(recipient)
  /\ vault[k] >= escrows[k].amount
  /\ vault' = Received([vault EXCEPT ![k] = @ - escrows[k].amount], recipient,
                       escrows[k].amount)
  /\ tokens' = Received(tokens, recipient, escrows[k].amount)
  /\ escrows' = [escrows EXCEPT ![k].state = final, ![k].amount = 0]
  /\ derived' = (derived /\ recipient = named)
  /\ UNCHANGED config

release_funds(who, k, recipient) ==
  /\ who \in {escrows[k].buyer, config.admin}
  /\ escrows[k].state = "AwaitingDelivery"
  /\ PayOut(k, escrows[k].seller, recipient, "Complete")

raise_dispute(who, k) ==
  /\ ConfigExists
  /\ who \in {escrows[k].buyer, escrows[k].seller, config.admin}
  /\ escrows[k].state = "AwaitingDelivery"
  /\ escrows' = [escrows EXCEPT ![k].state = "Disputed"]
  /\ UNCHANGED <<config, vault, tokens, derived>>

resolve_dispute(who, k, release_to_buyer, recipient) ==
  /\ who = config.admin
  /\ escrows[k].state = "Disputed"
  /\ PayOut(k, IF release_to_buyer THEN escrows[k].buyer ELSE escrows[k].seller,
            recipient, "Complete")

\* Mutant of refund: a deal nobody disputed is paid back.
refund_undisputed(who, k, recipient) ==
  /\ who = config.admin
  /\ escrows[k].state \in Open
  /\ PayOut(k, escrows[k].buyer, recipient, "Refunded")

refund(who, k, recipient) ==
  /\ who = config.admin
  /\ escrows[k].state = "Disputed"
  /\ PayOut(k, escrows[k].buyer, recipient, "Refunded")

Init ==
  /\ config = [admin |-> Default, pending |-> Default]
  /\ escrows = [k \in Keys |-> NoEscrow]
  /\ vault = [k \in Keys |-> 0]
  /\ tokens \in [Parties -> Amounts]
  /\ derived = TRUE

Next ==
  \E who \in Accounts :
    \/ initialize(who)
    \/ \E newAdmin \in Parties \cup {Default} : nominate_admin(who, newAdmin)
    \/ accept_admin(who)
    \/ \E to \in Parties \cup Keys, amount \in Amounts :
         transfer(who, to, amount)
    \/ \E k \in Keys, seller \in Parties, amount \in Amounts :
         create_escrow(who, k, seller, amount)
    \/ \E k \in Keys : raise_dispute(who, k)
    \/ \E k \in Keys, recipient \in Parties \cup Keys :
         \/ release_funds(who, k, recipient)
         \/ \E toBuyer \in BOOLEAN : resolve_dispute(who, k, toBuyer, recipient)
         \/ refund(who, k, recipient)

Spec == Init /\ [][Next]_vars

(***************************************************************************)
(* Properties.                                                             *)
(***************************************************************************)
\* Every account keeps its type: no balance below zero, no admin that is
\* nobody once there is one.
TypeOK ==
  /\ config \in [admin : Parties \cup {Default}, pending : Parties \cup {Default}]
  /\ escrows \in [Keys -> Escrow]
  /\ vault \in [Keys -> Nat]
  /\ tokens \in [Parties -> Nat]
  /\ derived \in BOOLEAN

\* Whoever the instructions pay, and whatever is sent past the program: the
\* vault of an open deal holds the deal's money, so no deal is paid with the
\* money of another, and a settled or an unused one is owed nothing.
VaultsCover == \A k \in Keys :
  /\ vault[k] >= escrows[k].amount
  /\ escrows[k].amount > 0 <=> escrows[k].state \in Open
  /\ ~Exists(k) => vault[k] = 0

Stage(s) == CASE s = "AwaitingPayment"  -> "none"
              [] s = "AwaitingDelivery" -> "held"
              [] s = "Disputed"         -> "disputed"
              [] OTHER                  -> "settled"

Promise == INSTANCE EscrowPromise WITH
  Wallets <- Accounts,
  Sums    <- Amounts,
  deals   <- [k \in Keys |-> [stage |-> Stage(escrows[k].state),
                              payer |-> escrows[k].buyer,
                              payee |-> escrows[k].seller,
                              owed  |-> escrows[k].amount]],
  wallet  <- [a \in Accounts |-> tokens[a]]

\* As long as callers derive the paid account from the escrow, as the backend
\* does, the program keeps the promise of an escrow like the contract on Celo:
\* money enters a deal once and leaves it once, whole, to the party it names.
KeepsPromise == [][derived' => [Promise!Next]_(Promise!vars)]_vars
=============================================================================
