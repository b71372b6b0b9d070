--------------------------- MODULE PlantationRound ---------------------------
(***************************************************************************)
(* The contract contracts/src/PlantationRound.sol: rounds in which a farmer *)
(* sells shares of a harvest, the ERC-721 tokens that stand for the shares, *)
(* and one cUSD balance for all rounds.  One action per external function;  *)
(* a function that reverts changes nothing, so its require lines are guards.*)
(* Allowances and token approvals are left out: who wants a call to pass    *)
(* gives them first.                                                        *)
(***************************************************************************)
EXTENDS Integers

CONSTANTS R,         \* bound: rounds that are ever created
          T,         \* bound: shares that are ever minted
          Wallets,   \* accounts that send transactions
          Staking,   \* the other contract that may hold shares
          This,      \* address(this)
          NoOne,     \* address(0)
          Deployer,  \* msg.sender of the constructor
          Prices,    \* cUSD a share may cost
          Sales,     \* cUSD a harvest may bring
          FeeBps, BpsScale,   \* PROTOCOL_FEE_BPS of 10000
          Funds      \* cUSD the wallets may start with, and may give away

ASSUME BoundAssumption == R \in Nat /\ T \in Nat
ASSUME AddressAssumption ==
  /\ Deployer \in Wallets
  /\ This \notin Wallets /\ Staking \notin Wallets /\ NoOne \notin Wallets
  /\ This # Staking /\ NoOne # This /\ NoOne # Staking
ASSUME AmountAssumption ==
  /\ Prices \subseteq Nat \ {0} /\ Sales \subseteq Nat \ {0}
  /\ Funds \subseteq Nat
  /\ FeeBps \in Nat /\ BpsScale \in Nat \ {0} /\ FeeBps <= BpsScale

Rounds == 1..R
Tokens == 1..T
Parties == Wallets \cup {Staking, This}
RoundStatus == {"OPEN", "FUNDED", "ACTIVE", "DISTRIBUTING", "CLOSED"}
Sharing == {"DISTRIBUTING", "CLOSED"}

VARIABLES rounds, tokenInfo, yieldPool, admin,   \* storage of the contract
          nextRoundId, nextTokenId,
          owner,                                 \* its ERC-721 part
          balance,                               \* cUSD
          paid          \* history: cUSD paid out of the harvest of a round

shares == <<tokenInfo, owner, nextTokenId>>
vars == <<rounds, yieldPool, admin, nextRoundId, shares, balance, paid>>

Round == [farmer : Wallets \cup {NoOne}, price : Nat, total : Nat, sold : Nat,
          status : RoundStatus, sale : Nat, claims : Nat]
TokenInfo == [round : 0..R, claimed : Nat]

\* What the mappings hold before anything is written.
NoRound == [farmer |-> NoOne, price |-> 0, total |-> 0, sold |-> 0,
            status |-> "OPEN", sale |-> 0, claims |-> 0]
NoToken == [round |-> 0, claimed |-> 0]

Moved(from, to, amt) ==
  LET debited == [balance EXCEPT ![from] = @ - amt]
  IN  [debited EXCEPT ![to] = @ + amt]

\* PROTOCOL_FEE_BPS, rounded down.
Fee(gross) == (gross * FeeBps) \div BpsScale

(***************************************************************************)
(* Raising money.                                                          *)
(***************************************************************************)
\* targetCUSD is a multiple of the price: total is the quotient.
createRound(who, price, total) ==
  /\ nextRoundId <= R /\ total > 0
  /\ rounds' = [rounds EXCEPT ![nextRoundId] =
       [NoRound EXCEPT !.farmer = who, !.price = price, !.total = total]]
  /\ nextRoundId' = nextRoundId + 1
  /\ UNCHANGED <<yieldPool, admin, shares, balance, paid>>

\* Mutant of Accrued: the fee is rounded up.
AccruedUp(r, gross) == [yieldPool EXCEPT ![r] = @ + (gross * FeeBps + BpsScale - 1) \div BpsScale]
Accrued(r, gross) == [yieldPool EXCEPT ![r] = @ + Fee(gross)]

Minted(k) == nextTokenId..(nextTokenId + k - 1)

invest(who, r, k) ==
  LET gross == rounds[r].price * k
  IN  /\ rounds[r].status = "OPEN"
      /\ k > 0 /\ rounds[r].sold + k <= rounds[r].total
      /\ nextTokenId + k - 1 <= T
      /\ balance[who] >= gross
      /\ balance' = Moved(who, This, gross)
      /\ yieldPool' = Accrued(r, gross)
      /\ rounds' = [rounds EXCEPT ![r].sold = @ + k,
           ![r].status = IF rounds[r].sold + k = rounds[r].total
                         THEN "FUNDED" ELSE @]
      /\ tokenInfo' = [t \in Tokens |->
           IF t \in Minted(k) THEN [round |-> r, claimed |-> 0]
           ELSE tokenInfo[t]]
      /\ owner' = [t \in Tokens |-> IF t \in Minted(k) THEN who ELSE owner[t]]
      /\ nextTokenId' = nextTokenId + k
      /\ UNCHANGED <<admin, nextRoundId, paid>>

unlockCapital(who, r) ==
  LET amount == rounds[r].price * rounds[r].total
      toFarmer == amount - Fee(amount)
  IN  /\ who = admin
      /\ rounds[r].status = "FUNDED"
      /\ balance[This] >= toFarmer
      /\ rounds' = [rounds EXCEPT ![r].status = "ACTIVE"]
      /\ balance' = Moved(This, rounds[r].farmer, toFarmer)
      /\ UNCHANGED <<yieldPool, admin, nextRoundId, shares, paid>>

withdrawFees(who, r, recipient) ==
  /\ who = admin
  /\ yieldPool[r] > 0
  /\ balance[This] >= yieldPool[r]
  /\ yieldPool' = [yieldPool EXCEPT ![r] = 0]
  /\ balance' = Moved(This, recipient, yieldPool[r])
  /\ UNCHANGED <<rounds, admin, nextRoundId, shares, paid>>

(***************************************************************************)
(* Sharing the harvest.                                                    *)
(***************************************************************************)
distributeHarvest(who, r, sale) ==
  /\ who = rounds[r].farmer
  /\ rounds[r].status = "ACTIVE"
  /\ sale > 0
  /\ balance[who] >= sale
  /\ rounds' = [rounds EXCEPT ![r].status = "DISTRIBUTING", ![r].sale = sale]
  /\ balance' = Moved(who, This, sale)
  /\ UNCHANGED <<yieldPool, admin, nextRoundId, shares, paid>>

Base(r) == rounds[r].sale \div rounds[r].total
Dust(r) == rounds[r].sale - Base(r) * rounds[r].total

\* Mutant of Entitled: nobody gets the remainder.
EntitledEven(t, r) == Base(r)

\* What the token may have claimed after this claim; the last claim takes
\* the remainder of the division.
Entitled(t, r) ==
  IF rounds[r].claims + 1 = rounds[r].total
  THEN rounds[r].sale - Base(r) * (rounds[r].total - 1)
  ELSE Base(r)

\* Mutant of Owed: what the token has had is not taken off.
OwedAgain(t) == Entitled(t, tokenInfo[t].round)

\* What a claim would pay.  Nothing and less than nothing both revert.
Owed(t) == Entitled(t, tokenInfo[t].round) - tokenInfo[t].claimed

claimDistribution(who, t) ==
  LET r == tokenInfo[t].round
  IN  /\ owner[t] = who
      /\ rounds[r].status \in Sharing
      /\ Owed(t) > 0
      /\ balance[This] >= Owed(t)
      /\ rounds' = [rounds EXCEPT ![r].claims = @ + 1]
      /\ tokenInfo' = [tokenInfo EXCEPT ![t].claimed = @ + Owed(t)]
      /\ balance' = Moved(This, who, Owed(t))
      /\ paid' = [paid EXCEPT ![r] = @ + Owed(t)]
      /\ UNCHANGED <<yieldPool, admin, nextRoundId, nextTokenId, owner>>

closeRound(who, r) ==
  /\ who = admin
  /\ rounds[r].status = "DISTRIBUTING"
  /\ rounds' = [rounds EXCEPT ![r].status = "CLOSED"]
  /\ UNCHANGED <<yieldPool, admin, nextRoundId, shares, balance, paid>>

(***************************************************************************)
(* The admin, and the two tokens in the hands of their holders.            *)
(***************************************************************************)
setAdmin(who, newAdmin) ==
  /\ who = admin
  /\ admin' = newAdmin
  /\ UNCHANGED <<rounds, yieldPool, nextRoundId, shares, balance, paid>>

\* A share is sold or given away; a contract that is merely sent one keeps it.
transferShare(who, t, to) ==
  /\ owner[t] = who
  /\ owner' = [owner EXCEPT ![t] = to]
  /\ UNCHANGED <<rounds, yieldPool, admin, nextRoundId, nextTokenId,
                 tokenInfo, balance, paid>>

\* A payment to the other contract, which is paid for yield in no other way.
\* Payments among wallets would only change who can afford a call.
fund(who, amt) ==
  /\ balance[who] >= amt
  /\ balance' = Moved(who, Staking, amt)
  /\ UNCHANGED <<rounds, yieldPool, admin, nextRoundId, shares, paid>>

Init ==
  /\ rounds = [r \in Rounds |-> NoRound]
  /\ tokenInfo = [t \in Tokens |-> NoToken]
  /\ owner = [t \in Tokens |-> NoOne]
  /\ yieldPool = [r \in Rounds |-> 0]
  /\ paid = [r \in Rounds |-> 0]
  /\ admin = Deployer
  /\ nextRoundId = 1 /\ nextTokenId = 1
  /\ \E funds \in Funds :
       balance = [p \in Parties |-> IF p \in Wallets THEN funds ELSE 0]

Next == \E who \in Wallets :
  \/ \E price \in Prices, total \in Tokens : createRound(who, price, total)
  \/ \E r \in Rounds, k \in Tokens : invest(who, r, k)
  \/ \E r \in Rounds : unlockCapital(who, r)
  \/ \E r \in Rounds, to \in Parties \ {This} : withdrawFees(who, r, to)
  \/ \E r \in Rounds, sale \in Sales : distributeHarvest(who, r, sale)
  \/ \E t \in Tokens : claimDistribution(who, t)
  \/ \E r \in Rounds : closeRound(who, r)
  \/ \E newAdmin \in Wallets : setAdmin(who, newAdmin)
  \/ \E t \in Tokens, to \in Parties \ {This} : transferShare(who, t, to)
  \/ \E amt \in Funds : fund(who, amt)

Spec == Init /\ [][Next]_vars

(***************************************************************************)
(* Properties.                                                             *)
(***************************************************************************)
\* Every field keeps its type: no balance below zero, no admin lost.
TypeOK ==
  /\ rounds \in [Rounds -> Round]
  /\ tokenInfo \in [Tokens -> TokenInfo]
  /\ owner \in [Tokens -> Parties \cup {NoOne}]
  /\ yieldPool \in [Rounds -> Nat] /\ paid \in [Rounds -> Nat]
  /\ admin \in Wallets
  /\ nextRoundId \in 1..(R + 1) /\ nextTokenId \in 1..(T + 1)
  /\ balance \in [Parties -> Nat]

\* What round r may still take from the contract: the fees set aside and,
\* before the capital is unlocked, the capital without the fee on all of it;
\* after the harvest, what is not yet claimed.
Capital(r) == rounds[r].price * rounds[r].sold
Due(r) == yieldPool[r] +
  (IF rounds[r].status \in {"OPEN", "FUNDED"} THEN Capital(r) - Fee(Capital(r))
   ELSE IF rounds[r].status = "ACTIVE" THEN 0 ELSE rounds[r].sale - paid[r])

RunningTotal(total) ==
  /\ total[0] = 0
  /\ \A r \in Rounds : total[r] = total[r - 1] + Due(r)

\* The one balance covers what all rounds are due at the same time, although
\* fees are rounded for each purchase and paid out for the whole round: no
\* unlock, claim or withdrawal is made with the money of another round.
Solvent == \E total \in [0..R -> 0..balance[This]] : RunningTotal(total)

TokensOf(r) == {t \in Tokens : tokenInfo[t].round = r}

\* However claims and repeated claims are ordered and shares change hands,
\* a share gets its even part once, and one share at most the dust on top.
DividendsFair == \A r \in Rounds : rounds[r].status \in Sharing =>
  /\ \A t \in TokensOf(r) :
       tokenInfo[t].claimed \in {0, Base(r), Base(r) + Dust(r)}
  /\ \A t, u \in TokensOf(r) :
       tokenInfo[t].claimed > Base(r) /\ tokenInfo[u].claimed > Base(r) => t = u

\* As long as part of a harvest is unclaimed, a claim of some share would
\* pay, unless the harvest brought less than one unit for each share.
NothingStranded == \A r \in Rounds :
  (rounds[r].status \in Sharing /\ paid[r] < rounds[r].sale /\ Base(r) > 0) =>
    \E t \in TokensOf(r) : Owed(t) > 0
=============================================================================
