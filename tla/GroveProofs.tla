----------------------------- MODULE GroveProofs -----------------------------
(***************************************************************************)
(* What TLAPS proves of the two contracts of the grove, for any number of  *)
(* rounds and shares, any prices, harvests, fee and yield rates: the       *)
(* balance covers what all rounds are due, dividends are shared fairly and *)
(* to the last unit, and a staked share can be given back.                 *)
(*                                                                         *)
(* The invariant counts: a round has as many tokens as shares sold, and    *)
(* what was paid out of a harvest is the even part for each token that     *)
(* claimed, and the dust for one of them once it was taken (Book).         *)
(***************************************************************************)
EXTENDS Grove, FiniteSetTheorems, TLAPS

\* Tokens are handed out in order, and each belongs to a round that exists.
Numbered == \A t \in Tokens :
  /\ t < nextTokenId <=> tokenInfo[t].round # 0
  /\ t < nextTokenId <=> owner[t] # NoOne
  /\ tokenInfo[t].round < nextRoundId

\* How far a round has come: its shares are sold out once it is not OPEN, and
\* there is one token for each share sold.
Life(r) ==
  /\ r >= nextRoundId => rounds[r] = NoRound
  /\ r < nextRoundId => rounds[r].total > 0 /\ rounds[r].farmer \in Wallets
  /\ rounds[r].sold <= rounds[r].total
  /\ rounds[r].status # "OPEN" => /\ rounds[r].total > 0
                                  /\ rounds[r].sold = rounds[r].total
  /\ rounds[r].status \in Sharing => rounds[r].sale > 0
  /\ Cardinality(TokensOf(r)) = rounds[r].sold

\* Tokens that had a dividend, and whether one of them had the dust as well.
Takers(r) == {t \in TokensOf(r) : tokenInfo[t].claimed # 0}
DustTaken(r) == \E t \in TokensOf(r) : tokenInfo[t].claimed > Base(r)

\* What was paid out of the harvest of a round that is shared.
Book(r) ==
  /\ \A t \in TokensOf(r) :
       tokenInfo[t].claimed \in {0, Base(r), Base(r) + Dust(r)}
  /\ \A t, u \in TokensOf(r) :
       tokenInfo[t].claimed > Base(r) /\ tokenInfo[u].claimed > Base(r) => t = u
  /\ paid[r] = Base(r) * Cardinality(Takers(r))
               + (IF DustTaken(r) THEN Dust(r) ELSE 0)
  /\ DustTaken(r) => rounds[r].claims >= rounds[r].total
  /\ ~DustTaken(r) => rounds[r].claims = Cardinality(Takers(r))
  /\ rounds[r].claims >= rounds[r].total => DustTaken(r) \/ Dust(r) = 0
  /\ Base(r) = 0 => Takers(r) = {} /\ rounds[r].claims = 0

Unshared(r) == paid[r] = 0 /\ rounds[r].claims = 0 /\ Takers(r) = {}

Claims(r) == IF rounds[r].status \in Sharing THEN Book(r) ELSE Unshared(r)

NeverDecreases(total) == \A i, j \in 0..R : i <= j => total[i] <= total[j]

Ledger == \E total \in [0..R -> 0..balance[This]] :
            RunningTotal(total) /\ NeverDecreases(total)

\* What no block is paid for before it has passed needs.
Accruals == \A t \in Tokens :
  positions[t].stakedAtBlock <= block /\ rewarded[t] <= block

RoundsInv == /\ TypeOK /\ Numbered
             /\ \A r \in Rounds : Life(r) /\ Claims(r)
             /\ Ledger

StakingInv == Grove!TypeOK /\ StakedIsHeld /\ EachBlockOnce /\ Accruals

IInv == RoundsInv /\ StakingInv

-----------------------------------------------------------------------------
(* Arithmetic of the fee and of the division of a harvest.                 *)

\* Division rounds down.
LEMMA Division ==
  ASSUME NEW a \in Nat, NEW n \in Nat \ {0}
  PROVE  /\ a \div n \in Nat
         /\ n * (a \div n) <= a
         /\ a < n * (a \div n) + n
OBVIOUS

\* The quotient is the largest number whose multiple fits.
LEMMA LargestQuotient ==
  ASSUME NEW a \in Nat, NEW n \in Nat \ {0}, NEW q \in Nat, q * n <= a
  PROVE  q <= a \div n
<1>1. a \div n \in Nat /\ a < n * (a \div n) + n
  BY Division
<1>2. ASSUME NEW p \in Nat, q >= p + 1 PROVE q * n >= n * p + n
  <2>1. PICK e \in Nat : q = p + 1 + e
    <3>1. q - (p + 1) \in Nat /\ q = p + 1 + (q - (p + 1))
      BY <1>2
    <3> QED
      BY <3>1
  <2>2. q * n = n * p + n + e * n /\ e * n >= 0
    BY <2>1
  <2> QED
    BY <2>2
<1> QED
  BY <1>1, <1>2

\* The fee on two purchases is not more than the fee on both together, and
\* the fee is never more than what it is taken from.
LEMMA FeeType == ASSUME NEW a \in Nat PROVE Fee(a) \in Nat
  BY AmountAssumption, Division, a * FeeBps \in Nat DEF Fee

LEMMA FeeSuperadditive ==
  ASSUME NEW a \in Nat, NEW b \in Nat
  PROVE  Fee(a) + Fee(b) <= Fee(a + b)
<1>1. FeeBps \in Nat /\ BpsScale \in Nat \ {0}
  BY AmountAssumption
<1>2. a * FeeBps \in Nat /\ b * FeeBps \in Nat /\ (a + b) * FeeBps \in Nat
      /\ (a + b) * FeeBps = a * FeeBps + b * FeeBps
  BY <1>1
<1>3. /\ BpsScale * Fee(a) <= a * FeeBps
      /\ BpsScale * Fee(b) <= b * FeeBps
  BY <1>1, <1>2, Division DEF Fee
<1>4. Fee(a) \in Nat /\ Fee(b) \in Nat
  BY FeeType
<1>5. (Fee(a) + Fee(b)) * BpsScale = BpsScale * Fee(a) + BpsScale * Fee(b)
  BY <1>1, <1>4
<1>6. BpsScale * Fee(a) \in Nat /\ BpsScale * Fee(b) \in Nat
      /\ Fee(a) + Fee(b) \in Nat
  BY <1>1, <1>4
<1>7. (Fee(a) + Fee(b)) * BpsScale <= (a + b) * FeeBps
  BY <1>2, <1>3, <1>5, <1>6
<1> QED
  BY <1>1, <1>2, <1>6, <1>7, LargestQuotient DEF Fee

LEMMA FeeAtMost == ASSUME NEW a \in Nat PROVE Fee(a) <= a
<1>1. FeeBps \in Nat /\ BpsScale \in Nat \ {0} /\ FeeBps <= BpsScale
  BY AmountAssumption
<1>2. a * FeeBps \in Nat /\ a * FeeBps <= a * BpsScale
  <2>1. PICK e \in Nat : BpsScale = FeeBps + e
    <3>1. BpsScale - FeeBps \in Nat /\ BpsScale = FeeBps + (BpsScale - FeeBps)
      BY <1>1
    <3> QED
      BY <3>1
  <2>2. a * BpsScale = a * FeeBps + a * e /\ a * e >= 0 /\ a * FeeBps \in Nat
    BY <1>1, <2>1
  <2> QED
    BY <2>2
<1>3. Fee(a) \in Nat /\ BpsScale * Fee(a) <= a * FeeBps
  BY <1>1, <1>2, Division, FeeType DEF Fee
<1>4. ASSUME Fee(a) >= a + 1 PROVE FALSE
  <2>1. PICK e \in Nat : Fee(a) = a + 1 + e
    <3>1. Fee(a) - (a + 1) \in Nat /\ Fee(a) = a + 1 + (Fee(a) - (a + 1))
      BY <1>3, <1>4
    <3> QED
      BY <3>1
  <2>2. BpsScale * Fee(a) = a * BpsScale + BpsScale + BpsScale * e
        /\ BpsScale * e >= 0
    BY <1>1, <2>1
  <2>3. a * BpsScale \in Nat
    BY <1>1
  <2> QED
    BY <1>1, <1>2, <1>3, <2>2, <2>3
<1> QED
  BY <1>3, <1>4

\* A harvest is the even parts of all shares and the dust.
LEMMA Harvest ==
  ASSUME TypeOK, NEW r \in Rounds, rounds[r].total > 0
  PROVE  /\ Base(r) \in Nat /\ Dust(r) \in Nat /\ Dust(r) < rounds[r].total
         /\ rounds[r].sale = Base(r) * rounds[r].total + Dust(r)
         /\ rounds[r].sale - Base(r) * (rounds[r].total - 1) = Base(r) + Dust(r)
<1> DEFINE sale == rounds[r].sale
           total == rounds[r].total
           b == Base(r)
<1>1. sale \in Nat /\ total \in Nat \ {0}
  BY DEF TypeOK, Round
<1>2. b = sale \div total
  BY DEF Base
<1> HIDE DEF b, sale, total
<1>3. b \in Nat /\ total * b <= sale /\ sale < total * b + total
  BY <1>1, <1>2, Division
<1>4. /\ total * b = b * total /\ total * b \in Nat
      /\ b * (total - 1) = b * total - b
  BY <1>1, <1>3
<1>5. Dust(r) = sale - b * total
  BY DEF Dust, sale, total, b
<1> QED
  BY <1>1, <1>3, <1>4, <1>5 DEF sale, total, b

-----------------------------------------------------------------------------
(* What a step moves and what it leaves.                                   *)

\* A payment that its payer can afford.
LEMMA Payment ==
  ASSUME TypeOK, NEW from \in Parties, NEW to \in Parties, from # to,
         NEW amt \in Nat, balance[from] >= amt, balance' = Moved(from, to, amt)
  PROVE  /\ balance' \in [Parties -> Nat]
         /\ balance'[from] = balance[from] - amt
         /\ balance'[to] = balance[to] + amt
         /\ \A p \in Parties \ {from, to} : balance'[p] = balance[p]
<1>1. balance \in [Parties -> Nat]
  BY DEF TypeOK
<1> QED
  BY <1>1 DEF Moved

\* The parties of a payment.
LEMMA PartyNames ==
  /\ Wallets \subseteq Parties /\ This \in Parties /\ Staking \in Parties
  /\ This \notin Wallets /\ Staking \notin Wallets /\ This # Staking
  /\ NoOne \notin Parties
  BY AddressAssumption DEF Parties

\* The tokens of a round are finitely many.
LEMMA FiniteTokens ==
  ASSUME NEW r
  PROVE  /\ IsFiniteSet(TokensOf(r)) /\ Cardinality(TokensOf(r)) \in Nat
         /\ IsFiniteSet(Takers(r)) /\ Cardinality(Takers(r)) \in Nat
         /\ Cardinality(Takers(r)) <= Cardinality(TokensOf(r))
         /\ Cardinality(Takers(r)) = Cardinality(TokensOf(r)) =>
              Takers(r) = TokensOf(r)
<1>1. IsFiniteSet(Tokens)
  BY BoundAssumption, FS_Interval DEF Tokens
<1>2. TokensOf(r) \in SUBSET Tokens /\ Takers(r) \in SUBSET TokensOf(r)
  BY DEF TokensOf, Takers
<1>3. IsFiniteSet(TokensOf(r))
  BY <1>1, <1>2, FS_Subset
<1> QED
  BY <1>2, <1>3, FS_Subset, FS_CardinalityType

\* What is unclaimed of a harvest is never less than nothing.
LEMMA PaidAtMost ==
  ASSUME TypeOK, NEW r \in Rounds, Life(r), Claims(r),
         rounds[r].status \in Sharing
  PROVE  /\ paid[r] <= rounds[r].sale
         /\ paid[r] = rounds[r].sale =>
              Base(r) = 0 \/ Cardinality(Takers(r)) = rounds[r].total
<1> DEFINE b == Base(r)
           d == Dust(r)
           n == Cardinality(Takers(r))
           total == rounds[r].total
<1>1. /\ total > 0 /\ rounds[r].sold = total
      /\ Cardinality(TokensOf(r)) = total
  BY DEF Life, Sharing
<1>2. /\ b \in Nat /\ d \in Nat /\ d < total
      /\ rounds[r].sale = b * total + d
  BY <1>1, Harvest
<1>3. n \in Nat /\ n <= total /\ total \in Nat
  BY <1>1, FiniteTokens DEF TypeOK, Round
<1>4. paid[r] = b * n + (IF DustTaken(r) THEN d ELSE 0)
  BY DEF Claims, Book
<1> HIDE DEF b, d, n, total
<1>5. PICK e \in Nat : total = n + e
  <2>1. total - n \in Nat /\ total = n + (total - n)
    BY <1>3
  <2> QED
    BY <2>1
<1>6. b * total = b * n + b * e /\ b * e \in Nat /\ b * n \in Nat
  BY <1>2, <1>3, <1>5
<1>7. paid[r] <= rounds[r].sale
  BY <1>2, <1>4, <1>6
<1>8. ASSUME paid[r] = rounds[r].sale PROVE b = 0 \/ n = total
  <2>1. b * e <= 0
    BY <1>2, <1>4, <1>6, <1>8
  <2>2. b = 0 \/ e = 0
    <3>1. ASSUME b >= 1, e >= 1 PROVE b * e >= 1
      BY <1>2, <1>5, <3>1
    <3> QED
      BY <1>2, <1>5, <1>6, <2>1, <3>1
  <2> QED
    BY <1>3, <1>5, <2>2
<1> QED
  BY <1>7, <1>8 DEF b, n, total

\* What a round is due is a natural number.
LEMMA DueType ==
  ASSUME TypeOK, NEW r \in Rounds, Life(r), Claims(r)
  PROVE  Due(r) \in Nat /\ Capital(r) \in Nat
<1>1. /\ rounds[r] \in Round /\ yieldPool[r] \in Nat /\ paid[r] \in Nat
      /\ rounds[r].sale \in Nat /\ rounds[r].status \in RoundStatus
  BY DEF TypeOK, Round
<1>2. Capital(r) \in Nat
  BY <1>1 DEF Capital, Round
<1>3. Fee(Capital(r)) \in Nat /\ Fee(Capital(r)) <= Capital(r)
  BY <1>2, FeeType, FeeAtMost
<1>4. rounds[r].status \in Sharing => paid[r] <= rounds[r].sale
  BY PaidAtMost
<1>5. \/ rounds[r].status \in {"OPEN", "FUNDED"} \/ rounds[r].status = "ACTIVE"
      \/ rounds[r].status \in Sharing
  BY <1>1 DEF RoundStatus, Sharing
<1> QED
  BY <1>1, <1>2, <1>3, <1>4, <1>5 DEF Due, Sharing

\* A round whose row and tokens are left alone.
LEMMA LifeKept ==
  ASSUME NEW r \in Rounds, Life(r), rounds'[r] = rounds[r],
         TokensOf(r)' = TokensOf(r), nextRoundId' = nextRoundId
  PROVE  Life(r)'
  BY DEF Life

\* A round of whose harvest nothing is claimed.
LEMMA ClaimsKept ==
  ASSUME NEW r \in Rounds, Claims(r), paid'[r] = paid[r],
         TokensOf(r)' = TokensOf(r),
         \A t \in TokensOf(r) : tokenInfo'[t].claimed = tokenInfo[t].claimed,
         rounds'[r].sale = rounds[r].sale, rounds'[r].total = rounds[r].total,
         rounds'[r].claims = rounds[r].claims,
         rounds'[r].status \in Sharing <=> rounds[r].status \in Sharing
  PROVE  Claims(r)'
<1>1. Base(r)' = Base(r) /\ Dust(r)' = Dust(r)
  BY DEF Base, Dust
<1>2. Takers(r)' = Takers(r)
  BY DEF Takers
<1>3. DustTaken(r)' = DustTaken(r)
  BY <1>1 DEF DustTaken
<1>4. CASE rounds[r].status \in Sharing
  BY <1>1, <1>2, <1>3, <1>4 DEF Claims, Book
<1>5. CASE rounds[r].status \notin Sharing
  BY <1>2, <1>5 DEF Claims, Unshared
<1> QED
  BY <1>4, <1>5

\* What is due to a round changes with its row, its fees and its pay-outs.
LEMMA DueKept ==
  ASSUME NEW r, rounds'[r] = rounds[r], yieldPool'[r] = yieldPool[r],
         paid'[r] = paid[r]
  PROVE  Due(r)' = Due(r)
  BY DEF Due, Capital

-----------------------------------------------------------------------------
(* The balance and the running totals.                                     *)

\* f[q] is the sum of the first q summands.
Sums(f, a) == f[0] = 0 /\ \A q \in Rounds : f[q] = f[q - 1] + a[q]

\* The summands differ in k at most.
SameBut(k, a, b) == \A q \in Rounds \ {k} : b[q] = a[q]

\* A covers the running totals of the summands a.
Covers(A, a) == \E f \in [0..R -> 0..A] : Sums(f, a) /\ NeverDecreases(f)

\* One summand of a running total changes, what covers the total follows it
\* or stays above, and the totals shift from that summand on.
LEMMA TotalsShift ==
  ASSUME NEW k \in Rounds, NEW A \in Nat, NEW B \in Nat,
         NEW a \in [Rounds -> Nat], NEW b \in [Rounds -> Nat],
         SameBut(k, a, b), B - A >= b[k] - a[k], Covers(A, a)
  PROVE  Covers(B, b)
<1> PICK f \in [0..R -> 0..A] : Sums(f, a) /\ NeverDecreases(f)
  BY DEF Covers
<1> DEFINE d == b[k] - a[k]
           u == [i \in 0..R |-> IF i < k THEN f[i] ELSE f[i] + d]
<1>0. R \in Nat /\ k \in 1..R
  BY BoundAssumption DEF Rounds
<1>1. k - 1 \in 0..R /\ k \in 0..R /\ 0 \in 0..R
  BY <1>0
<1>2. \A i \in 0..R : f[i] \in Int /\ 0 <= f[i] /\ f[i] <= A
  OBVIOUS
<1>3. d \in Int /\ B >= A + d /\ b[k] = a[k] + d /\ a[k] \in Nat /\ b[k] \in Nat
  OBVIOUS
<1>4. f[k] = f[k - 1] + a[k]
  BY DEF Sums
<1> HIDE DEF d
<1>5. f[k] + d >= f[k - 1]
  BY <1>1, <1>2, <1>3, <1>4
<1> DEFINE x == f[k - 1]
           y == f[k]
<1>6. /\ x \in Int /\ y \in Int /\ x >= 0 /\ y <= A /\ x <= y + d
      /\ \A i \in 0..R : (i < k => f[i] <= x) /\ (i >= k => y <= f[i])
  BY <1>0, <1>1, <1>2, <1>5 DEF NeverDecreases
<1> HIDE DEF x, y
<1>7. ASSUME NEW i \in 0..R
      PROVE  u[i] \in 0..B
  <2> DEFINE v == f[i]
  <2>1. v \in Int /\ 0 <= v /\ v <= A /\ u[i] = IF i < k THEN v ELSE v + d
    BY <1>2
  <2>2. (i < k => v <= x) /\ (i >= k => y <= v) /\ (i < k \/ i >= k)
    BY <1>0, <1>6
  <2> HIDE DEF v, u
  <2>3. CASE i < k
    BY <1>3, <1>6, <2>1, <2>2, <2>3
  <2>4. CASE i >= k /\ ~(i < k)
    BY <1>3, <1>6, <2>1, <2>2, <2>4
  <2> QED
    BY <2>2, <2>3, <2>4
<1>11. ASSUME NEW i \in 0..R, NEW j \in 0..R, i <= j
      PROVE  u[i] <= u[j]
  <2> DEFINE v == f[i]
             w == f[j]
  <2>1. /\ v \in Int /\ w \in Int /\ v <= w
        /\ u[i] = (IF i < k THEN v ELSE v + d)
        /\ u[j] = (IF j < k THEN w ELSE w + d)
    BY <1>2, <1>11 DEF NeverDecreases
  <2>2. (i < k => v <= x) /\ (j >= k => y <= w) /\ (j < k => i < k)
        /\ (j < k \/ j >= k)
    BY <1>0, <1>6, <1>11
  <2> HIDE DEF v, w, u
  <2>3. CASE j < k
    BY <2>1, <2>2, <2>3
  <2>4. CASE j >= k /\ ~(j < k) /\ i < k
    BY <1>3, <1>6, <2>1, <2>2, <2>4
  <2>5. CASE j >= k /\ ~(j < k) /\ ~(i < k)
    BY <1>3, <2>1, <2>5
  <2> QED
    BY <2>2, <2>3, <2>4, <2>5
<1>8. ASSUME NEW q \in Rounds
      PROVE  u[q] = u[q - 1] + b[q]
  <2>1. /\ q \in 1..R /\ q \in 0..R /\ q - 1 \in 0..R
        /\ f[q] = f[q - 1] + a[q] /\ a[q] \in Nat
    BY <1>0 DEF Rounds, Sums
  <2>2. CASE q = k
    <3>1. u[q] = f[q] + d /\ u[q - 1] = f[q - 1]
      BY <1>0, <2>1, <2>2
    <3> HIDE DEF u
    <3> QED
      BY <1>2, <1>3, <2>1, <2>2, <3>1
  <2>3. CASE q < k
    <3>1. u[q] = f[q] /\ u[q - 1] = f[q - 1] /\ b[q] = a[q]
      BY <1>0, <2>1, <2>3 DEF SameBut
    <3> HIDE DEF u
    <3> QED
      BY <2>1, <3>1
  <2>4. CASE q > k
    <3>1. u[q] = f[q] + d /\ u[q - 1] = f[q - 1] + d /\ b[q] = a[q]
      BY <1>0, <2>1, <2>4 DEF SameBut
    <3> HIDE DEF u
    <3> QED
      BY <1>2, <1>3, <2>1, <3>1
  <2> QED
    BY <1>0, <2>1, <2>2, <2>3, <2>4
<1>9. u \in [0..R -> 0..B]
  BY <1>7
<1>10. u[0] = 0
  BY <1>0, <1>1 DEF Sums
<1> HIDE DEF u
<1> QED
  BY <1>8, <1>9, <1>10, <1>11 DEF Covers, Sums, NeverDecreases

\* The one step of the ledger: what round r is due changes, and the balance
\* follows it or stays above.
LEMMA LedgerShift ==
  ASSUME Ledger, NEW r \in Rounds,
         balance[This] \in Nat, balance'[This] \in Nat,
         \A q \in Rounds : Due(q) \in Nat, \A q \in Rounds : Due(q)' \in Nat,
         \A q \in Rounds \ {r} : Due(q)' = Due(q),
         balance'[This] - balance[This] >= Due(r)' - Due(r)
  PROVE  Ledger'
<1> DEFINE a == [q \in Rounds |-> Due(q)]
           b == [q \in Rounds |-> Due(q)']
<1>1. a \in [Rounds -> Nat] /\ b \in [Rounds -> Nat]
  OBVIOUS
<1>2. SameBut(r, a, b) /\ balance'[This] - balance[This] >= b[r] - a[r]
  BY DEF SameBut
<1>3. \A q \in Rounds : a[q] = Due(q) /\ b[q] = Due(q)'
  OBVIOUS
<1> HIDE DEF a, b
<1>4. Covers(balance[This], a)
  BY <1>3 DEF Ledger, Covers, RunningTotal, Sums
<1>5. Covers(balance'[This], b)
  BY <1>1, <1>2, <1>4, TotalsShift
<1>6. PICK u \in [0..R -> 0..balance'[This]] : Sums(u, b) /\ NeverDecreases(u)
  BY <1>5 DEF Covers
<1>7. RunningTotal(u)' /\ NeverDecreases(u)'
  BY <1>3, <1>6 DEF RunningTotal, Sums, NeverDecreases
<1> QED
  BY <1>6, <1>7 DEF Ledger

\* What every round is due is a natural number.
AllDueNat ==
  TypeOK /\ (\A p \in Rounds : Life(p) /\ Claims(p))
    => balance[This] \in Nat /\ \A p \in Rounds : Due(p) \in Nat

LEMMA DueTypes == AllDueNat
<1> SUFFICES ASSUME TypeOK, \A p \in Rounds : Life(p) /\ Claims(p)
             PROVE  balance[This] \in Nat /\ \A p \in Rounds : Due(p) \in Nat
  BY DEF AllDueNat
<1>1. balance[This] \in Nat
  BY PartyNames DEF TypeOK
<1> QED
  BY <1>1, DueType

\* A step that changes at most what round r is due, and the balance with it.
LEMMA RoundsStep ==
  ASSUME RoundsInv, TypeOK', Numbered',
         \A q \in Rounds : Life(q)' /\ Claims(q)',
         NEW r \in Rounds, \A q \in Rounds \ {r} : Due(q)' = Due(q),
         balance'[This] - balance[This] >= Due(r)' - Due(r)
  PROVE  RoundsInv'
<1>1. balance[This] \in Nat /\ \A q \in Rounds : Due(q) \in Nat
  BY DueTypes DEF RoundsInv, AllDueNat
<1>2. balance'[This] \in Nat /\ \A q \in Rounds : Due(q)' \in Nat
  <2>1. AllDueNat'
    BY DueTypes, PTL
  <2> QED
    BY <2>1 DEF AllDueNat
<1>3. Ledger'
  BY <1>1, <1>2, LedgerShift DEF RoundsInv
<1> QED
  BY <1>3 DEF RoundsInv

\* A step that changes nothing a round is due and does not lower the balance.
LEMMA LedgerKept ==
  ASSUME Ledger, \A q \in Rounds : Due(q)' = Due(q),
         balance[This] \in Nat, balance'[This] \in Nat,
         balance'[This] >= balance[This]
  PROVE  Ledger'
<1>1. PICK f \in [0..R -> 0..balance[This]] :
        RunningTotal(f) /\ NeverDecreases(f)
  BY DEF Ledger
<1>2. f \in [0..R -> 0..balance'[This]]
  BY <1>1
<1>3. RunningTotal(f)'
  BY <1>1 DEF RunningTotal
<1>4. NeverDecreases(f)'
  BY <1>1 DEF NeverDecreases
<1> QED
  BY <1>2, <1>3, <1>4 DEF Ledger

\* A round that a step leaves alone.
SameRound(q) ==
  /\ rounds'[q] = rounds[q] /\ yieldPool'[q] = yieldPool[q] /\ paid'[q] = paid[q]
  /\ TokensOf(q)' = TokensOf(q)
  /\ \A t \in TokensOf(q) : tokenInfo'[t].claimed = tokenInfo[t].claimed
  /\ q >= nextRoundId' <=> q >= nextRoundId
  /\ q < nextRoundId' <=> q < nextRoundId

LEMMA SameRoundKept ==
  ASSUME NEW q \in Rounds, Life(q), Claims(q), SameRound(q)
  PROVE  Life(q)' /\ Claims(q)' /\ Due(q)' = Due(q)
<1>1. Life(q)'
  BY DEF SameRound, Life
<1>2. Claims(q)'
  BY ClaimsKept DEF SameRound
<1>3. Due(q)' = Due(q)
  BY DueKept DEF SameRound
<1> QED
  BY <1>1, <1>2, <1>3

\* A step for one round.
LEMMA OneRound ==
  ASSUME RoundsInv, TypeOK', Numbered', NEW r \in Rounds,
         \A q \in Rounds \ {r} : SameRound(q), Life(r)', Claims(r)',
         balance'[This] - balance[This] >= Due(r)' - Due(r)
  PROVE  RoundsInv'
<1>1. ASSUME NEW q \in Rounds \ {r}
      PROVE  Life(q)' /\ Claims(q)' /\ Due(q)' = Due(q)
  BY SameRoundKept DEF RoundsInv
<1>2. \A q \in Rounds : Life(q)' /\ Claims(q)'
  BY <1>1
<1>3. \A q \in Rounds \ {r} : Due(q)' = Due(q)
  BY <1>1
<1> QED
  BY <1>2, <1>3, RoundsStep

\* A step for no round.
LEMMA OtherStep ==
  ASSUME RoundsInv, TypeOK', Numbered', \A q \in Rounds : SameRound(q),
         balance'[This] >= balance[This]
  PROVE  RoundsInv'
<1>1. ASSUME NEW q \in Rounds
      PROVE  Life(q)' /\ Claims(q)' /\ Due(q)' = Due(q)
  BY SameRoundKept DEF RoundsInv
<1>2. \A q \in Rounds : Life(q)' /\ Claims(q)'
  BY <1>1
<1>3. \A q \in Rounds : Due(q)' = Due(q)
  BY <1>1
<1>4. balance[This] \in Nat /\ balance'[This] \in Nat
  BY PartyNames DEF RoundsInv, TypeOK
<1>5. Ledger'
  BY <1>3, <1>4, LedgerKept DEF RoundsInv
<1> QED
  BY <1>2, <1>5 DEF RoundsInv

-----------------------------------------------------------------------------
(* Raising money.                                                          *)

\* A new round has sold nothing.
LEMMA CreateStep ==
  ASSUME RoundsInv, NEW who \in Wallets, NEW price \in Prices,
         NEW total \in Tokens, createRound(who, price, total)
  PROVE  RoundsInv'
<1> DEFINE row == [NoRound EXCEPT !.farmer = who, !.price = price, !.total = total]
<1>1. PICK r \in Rounds : r = nextRoundId
  BY BoundAssumption DEF createRound, RoundsInv, TypeOK, Rounds
<1>2. /\ rounds' = [rounds EXCEPT ![r] = row] /\ nextRoundId' = nextRoundId + 1
      /\ yieldPool' = yieldPool /\ admin' = admin /\ balance' = balance
      /\ paid' = paid /\ tokenInfo' = tokenInfo /\ owner' = owner
      /\ nextTokenId' = nextTokenId
  BY <1>1 DEF createRound, shares
<1>3. /\ row \in Round /\ row.sold = 0 /\ row.status = "OPEN"
      /\ row.total = total /\ row.farmer = who /\ row.sale = 0
      /\ row.claims = 0 /\ row.price = price
      /\ total \in Nat /\ total > 0 /\ price \in Nat
  <2> DEFINE named == [NoRound EXCEPT !.farmer = who]
             priced == [named EXCEPT !.price = price]
  <2>1. total \in Nat /\ total > 0 /\ price \in Nat
    BY BoundAssumption, AmountAssumption DEF Tokens
  <2>2. /\ named \in Round /\ named.farmer = who /\ named.sold = 0
        /\ named.status = "OPEN" /\ named.sale = 0 /\ named.claims = 0
    BY DEF NoRound, Round, RoundStatus
  <2>3. row = [priced EXCEPT !.total = total]
    OBVIOUS
  <2> HIDE DEF named, row
  <2>4. /\ priced \in Round /\ priced.farmer = who /\ priced.sold = 0
        /\ priced.status = "OPEN" /\ priced.sale = 0 /\ priced.claims = 0
        /\ priced.price = price
    BY <2>1, <2>2 DEF Round
  <2> HIDE DEF priced
  <2> QED
    BY <2>1, <2>3, <2>4 DEF Round
<1> HIDE DEF row
<1>4. rounds'[r] = row /\ \A q \in Rounds \ {r} : rounds'[q] = rounds[q]
  BY <1>2 DEF RoundsInv, TypeOK
<1>5. rounds[r] = NoRound /\ Life(r) /\ Claims(r) /\ r \in 1..R /\ R \in Nat
  BY <1>1, BoundAssumption DEF RoundsInv, Life, Rounds
<1>6. /\ rounds[r].status = "OPEN" /\ rounds[r].sold = 0
      /\ rounds[r].price = 0 /\ NoRound.sale = 0
  BY <1>5 DEF NoRound
<1>7. TypeOK'
  <2>1. rounds' \in [Rounds -> Round]
    BY <1>2, <1>3 DEF RoundsInv, TypeOK
  <2>2. nextRoundId' \in 1..(R + 1)
    BY <1>1, <1>2, <1>5
  <2> QED
    BY <1>2, <2>1, <2>2 DEF RoundsInv, TypeOK
<1>8. Numbered'
  <2> SUFFICES ASSUME NEW t \in Tokens
               PROVE  tokenInfo[t].round < nextRoundId + 1
    BY <1>2 DEF RoundsInv, Numbered
  <2> QED
    BY <1>1, <1>5 DEF RoundsInv, Numbered, TypeOK, TokenInfo
<1>9. \A q : TokensOf(q)' = TokensOf(q)
  BY <1>2 DEF TokensOf
<1>10. ASSUME NEW q \in Rounds \ {r} PROVE SameRound(q)
  <2>1. q \in Int /\ r \in Int /\ q # r
    BY <1>5 DEF Rounds
  <2>2. /\ q >= nextRoundId' <=> q >= nextRoundId
        /\ q < nextRoundId' <=> q < nextRoundId
    BY <1>1, <1>2, <2>1
  <2> QED
    BY <1>2, <1>4, <1>9, <2>2 DEF SameRound
<1>11. Life(r)'
  <2>1. Cardinality(TokensOf(r)') = 0
    BY <1>5, <1>6, <1>9 DEF Life
  <2>2. r < nextRoundId' /\ ~(r >= nextRoundId')
    BY <1>1, <1>2, <1>5
  <2> QED
    BY <1>3, <1>4, <2>1, <2>2 DEF Life, Sharing
<1>12. Claims(r)'
  <2>1. Unshared(r)
    BY <1>5, <1>6 DEF Claims, Sharing
  <2>2. Takers(r)' = Takers(r)
    BY <1>2, <1>9 DEF Takers
  <2> QED
    BY <1>2, <1>3, <1>4, <2>1, <2>2 DEF Claims, Unshared, Sharing
<1>13. Due(r)' = Due(r)
  <2>1. Capital(r)' = 0 /\ Capital(r) = 0
    BY <1>3, <1>4, <1>6 DEF Capital
  <2> QED
    BY <1>2, <1>3, <1>4, <1>6, <2>1 DEF Due
<1>14. balance'[This] - balance[This] >= Due(r)' - Due(r)
  BY <1>2, <1>13, DueTypes DEF RoundsInv, AllDueNat
<1> QED
  BY <1>7, <1>8, <1>10, <1>11, <1>12, <1>14, OneRound

\* The frame of a step that changes the row of one round and no share.
LEMMA RowStep ==
  ASSUME RoundsInv, NEW r \in Rounds, rounds' \in [Rounds -> Round],
         balance' \in [Parties -> Nat], yieldPool' \in [Rounds -> Nat],
         UNCHANGED <<shares, nextRoundId, admin, paid>>,
         \A q \in Rounds \ {r} :
           rounds'[q] = rounds[q] /\ yieldPool'[q] = yieldPool[q],
         Life(r)', Claims(r)',
         balance'[This] - balance[This] >= Due(r)' - Due(r)
  PROVE  RoundsInv'
<1>1. TypeOK'
  BY DEF RoundsInv, TypeOK, shares
<1>2. Numbered'
  BY DEF RoundsInv, Numbered, shares
<1>3. \A q \in Rounds \ {r} : SameRound(q)
  BY DEF SameRound, TokensOf, shares
<1> QED
  BY <1>1, <1>2, <1>3, OneRound

\* A round that has left OPEN was created.
LEMMA Created ==
  ASSUME RoundsInv, NEW r \in Rounds,
         rounds[r].status # "OPEN" \/ rounds[r].total # 0
  PROVE  /\ r < nextRoundId /\ ~(r >= nextRoundId) /\ rounds[r].total > 0
         /\ rounds[r].farmer \in Wallets
<1>1. Life(r) /\ r \in Int /\ nextRoundId \in Int
  BY BoundAssumption DEF RoundsInv, Rounds, TypeOK
<1>2. ~(r >= nextRoundId)
  BY <1>1 DEF Life, NoRound
<1> QED
  BY <1>1, <1>2 DEF Life

\* The capital goes to the farmer, less the fee on all of it.
LEMMA UnlockStep ==
  ASSUME RoundsInv, NEW who \in Wallets, NEW r \in Rounds, unlockCapital(who, r)
  PROVE  RoundsInv'
<1> DEFINE amount == rounds[r].price * rounds[r].total
           toFarmer == amount - Fee(amount)
<1>1. /\ rounds' = [rounds EXCEPT ![r].status = "ACTIVE"]
      /\ balance' = Moved(This, rounds[r].farmer, toFarmer)
      /\ balance[This] >= toFarmer
      /\ rounds[r].status = "FUNDED" /\ UNCHANGED <<shares, nextRoundId, admin, paid>>
      /\ yieldPool' = yieldPool
  BY DEF unlockCapital
<1>2. /\ Life(r) /\ Claims(r) /\ TypeOK /\ rounds[r] \in Round
      /\ rounds[r].farmer \in Wallets /\ rounds[r].sold = rounds[r].total
  BY <1>1, Created DEF RoundsInv, TypeOK, Life
<1>3. amount = Capital(r) /\ amount \in Nat
  BY <1>2 DEF Capital, Round
<1> HIDE DEF amount
<1>4. toFarmer \in Nat
  BY <1>3, FeeType, FeeAtMost
<1>5. /\ rounds' \in [Rounds -> Round]
      /\ rounds'[r] = [rounds[r] EXCEPT !.status = "ACTIVE"]
      /\ \A q \in Rounds \ {r} : rounds'[q] = rounds[q]
  BY <1>1, <1>2 DEF TypeOK, Round, RoundStatus
<1> DEFINE farmer == rounds[r].farmer
<1>6. farmer \in Parties /\ This \in Parties /\ This # farmer
  BY <1>2, PartyNames
<1> HIDE DEF toFarmer
<1>7. balance' \in [Parties -> Nat] /\ balance'[This] = balance[This] - toFarmer
  BY <1>1, <1>2, <1>4, <1>6, Payment
<1>8. /\ rounds'[r].status = "ACTIVE" /\ rounds'[r].sold = rounds[r].sold
      /\ rounds'[r].total = rounds[r].total /\ rounds'[r].price = rounds[r].price
      /\ rounds'[r].sale = rounds[r].sale /\ rounds'[r].claims = rounds[r].claims
      /\ rounds'[r].farmer = rounds[r].farmer
  BY <1>2, <1>5 DEF Round
<1>9. TokensOf(r)' = TokensOf(r) /\ Takers(r)' = Takers(r)
  BY <1>1 DEF TokensOf, Takers, shares
<1>10. Life(r)'
  <2>1. r < nextRoundId /\ ~(r >= nextRoundId) /\ rounds[r].total > 0
    BY <1>1, Created
  <2> QED
    BY <1>1, <1>2, <1>8, <1>9, <2>1 DEF Life, Sharing
<1>11. Claims(r)'
  BY <1>1, <1>2, <1>8, <1>9 DEF Claims, Unshared, Sharing
<1>12. Due(r)' = yieldPool[r] + 0 /\ Due(r) = yieldPool[r] + toFarmer
  BY <1>1, <1>3, <1>8 DEF Due, toFarmer
<1>13. yieldPool[r] \in Nat /\ balance[This] \in Nat
  BY <1>2, <1>6 DEF TypeOK
<1>14. balance'[This] - balance[This] >= Due(r)' - Due(r)
  BY <1>4, <1>7, <1>12, <1>13
<1> QED
  BY <1>1, <1>2, <1>5, <1>7, <1>10, <1>11, <1>14, RowStep DEF TypeOK

\* The fees of a round go to the admin's recipient.
LEMMA WithdrawStep ==
  ASSUME RoundsInv, NEW who \in Wallets, NEW r \in Rounds,
         NEW to \in Parties \ {This}, withdrawFees(who, r, to)
  PROVE  RoundsInv'
<1> DEFINE fees == yieldPool[r]
<1>1. /\ yieldPool' = [yieldPool EXCEPT ![r] = 0]
      /\ balance' = Moved(This, to, fees) /\ balance[This] >= fees
      /\ rounds' = rounds /\ UNCHANGED <<shares, nextRoundId, admin, paid>>
  BY DEF withdrawFees
<1>2. TypeOK /\ fees \in Nat /\ This \in Parties
      /\ Life(r) /\ Claims(r)
  BY PartyNames DEF RoundsInv, TypeOK
<1>3. balance' \in [Parties -> Nat] /\ balance'[This] = balance[This] - fees
  BY <1>1, <1>2, Payment
<1>4. /\ yieldPool' \in [Rounds -> Nat] /\ yieldPool'[r] = 0
      /\ \A q \in Rounds \ {r} : yieldPool'[q] = yieldPool[q]
  BY <1>1, <1>2 DEF TypeOK
<1>5. TokensOf(r)' = TokensOf(r)
  BY <1>1 DEF TokensOf, shares
<1>6. Life(r)'
  BY <1>1, <1>2, <1>5, LifeKept
<1>7. Claims(r)'
  BY <1>1, <1>2, <1>5, ClaimsKept DEF shares
<1> DEFINE rest ==
      IF rounds[r].status \in {"OPEN", "FUNDED"} THEN Capital(r) - Fee(Capital(r))
      ELSE IF rounds[r].status = "ACTIVE" THEN 0 ELSE rounds[r].sale - paid[r]
<1>8. Due(r) = fees + rest
  BY DEF Due
<1>9. Due(r)' = 0 + rest
  BY <1>1, <1>4 DEF Due, Capital
<1>10. rest \in Int
  <2>1. rounds[r] \in Round /\ paid[r] \in Nat
    BY <1>2 DEF TypeOK
  <2>2. Capital(r) \in Nat
    BY <2>1 DEF Capital, Round
  <2>3. Fee(Capital(r)) \in Nat /\ rounds[r].sale \in Nat
    BY <2>1, <2>2, FeeType DEF Round
  <2> QED
    BY <2>1, <2>2, <2>3
<1> HIDE DEF rest, fees
<1>11. balance[This] \in Nat
  BY <1>2 DEF TypeOK
<1>12. balance'[This] - balance[This] >= Due(r)' - Due(r)
  BY <1>2, <1>3, <1>8, <1>9, <1>10, <1>11
<1> QED
  BY <1>1, <1>2, <1>3, <1>4, <1>6, <1>7, <1>12, RowStep DEF TypeOK

\* The shares sold are new tokens of the round, and the buyer pays for them.
LEMMA InvestStep ==
  ASSUME RoundsInv, NEW who \in Wallets, NEW r \in Rounds, NEW k \in Tokens,
         invest(who, r, k)
  PROVE  RoundsInv'
<1> DEFINE price == rounds[r].price
           sold == rounds[r].sold
           total == rounds[r].total
           gross == price * k
           status == IF sold + k = total THEN "FUNDED" ELSE rounds[r].status
<1>1. /\ rounds' = [rounds EXCEPT ![r].sold = @ + k, ![r].status = status]
      /\ balance' = Moved(who, This, gross) /\ balance[who] >= gross
      /\ yieldPool' = [yieldPool EXCEPT ![r] = @ + Fee(gross)]
      /\ rounds[r].status = "OPEN" /\ sold + k <= total
      /\ nextTokenId' = nextTokenId + k /\ nextTokenId + k - 1 <= T
      /\ tokenInfo' = [t \in Tokens |->
           IF t \in Minted(k) THEN [round |-> r, claimed |-> 0] ELSE tokenInfo[t]]
      /\ owner' = [t \in Tokens |-> IF t \in Minted(k) THEN who ELSE owner[t]]
      /\ admin' = admin /\ nextRoundId' = nextRoundId /\ paid' = paid
  BY DEF invest, Accrued
<1>2. /\ TypeOK /\ Numbered /\ Life(r) /\ Claims(r) /\ rounds[r] \in Round
      /\ R \in Nat /\ T \in Nat /\ r \in 1..R /\ k \in Nat /\ k > 0
      /\ nextTokenId \in Nat /\ nextTokenId >= 1
  BY BoundAssumption DEF RoundsInv, TypeOK, Rounds, Tokens
<1>3. /\ price \in Nat /\ sold \in Nat /\ total \in Nat /\ total > 0
      /\ status \in {"OPEN", "FUNDED"} /\ (status # "OPEN" => sold + k = total)
  BY <1>1, <1>2 DEF Round
<1>4. gross \in Nat /\ price * sold \in Nat
      /\ price * (sold + k) = price * sold + gross
  BY <1>2, <1>3
<1> HIDE DEF price, sold, total, gross, status
<1>5. /\ rounds' \in [Rounds -> Round]
      /\ \A q \in Rounds \ {r} : rounds'[q] = rounds[q]
      /\ rounds'[r].price = price /\ rounds'[r].sold = sold + k
      /\ rounds'[r].total = total /\ rounds'[r].status = status
      /\ rounds'[r].sale = rounds[r].sale /\ rounds'[r].claims = rounds[r].claims
      /\ rounds'[r].farmer = rounds[r].farmer
  <2>0. rounds \in [Rounds -> Round]
    BY <1>2 DEF TypeOK
  <2> DEFINE first == [rounds[r] EXCEPT !.sold = @ + k]
  <2>1. first \in Round /\ first.price = price /\ first.sold = sold + k
        /\ first.total = total /\ first.sale = rounds[r].sale
        /\ first.claims = rounds[r].claims /\ first.farmer = rounds[r].farmer
    BY <1>2, <1>3 DEF Round, price, sold, total
  <2>2. rounds'[r] = [first EXCEPT !.status = status]
    BY <1>1, <2>0
  <2>3. rounds' = [rounds EXCEPT ![r] = [first EXCEPT !.status = status]]
    BY <1>1, <2>0
  <2> HIDE DEF first
  <2>4. [first EXCEPT !.status = status] \in Round
    BY <1>3, <2>1 DEF Round, RoundStatus
  <2>5. \A q \in Rounds \ {r} : rounds'[q] = rounds[q]
    BY <2>0, <2>3
  <2>6. rounds' \in [Rounds -> Round]
    BY <2>0, <2>3, <2>4
  <2> QED
    BY <1>3, <2>1, <2>2, <2>5, <2>6 DEF Round
<1>6. /\ Minted(k) = nextTokenId..(nextTokenId + k - 1) /\ Minted(k) \subseteq Tokens
      /\ \A t \in Minted(k) : tokenInfo[t].round = 0
  <2>1. Minted(k) \subseteq Tokens
    BY <1>1, <1>2 DEF Minted, Tokens
  <2>2. ASSUME NEW t \in Minted(k) PROVE tokenInfo[t].round = 0
    <3>1. t \in Tokens /\ ~(t < nextTokenId)
      BY <1>2, <2>1 DEF Minted, Tokens
    <3> QED
      BY <1>2, <3>1 DEF Numbered
  <2> QED
    BY <2>1, <2>2 DEF Minted
<1>7. tokenInfo' \in [Tokens -> TokenInfo] /\ owner' \in [Tokens -> Parties \cup {NoOne}]
  <2>1. [round |-> r, claimed |-> 0] \in TokenInfo /\ who \in Parties
    BY <1>2, PartyNames DEF TokenInfo
  <2> QED
    BY <1>1, <1>2, <2>1 DEF TypeOK
<1>8. balance' \in [Parties -> Nat] /\ balance'[This] = balance[This] + gross
  BY <1>1, <1>2, <1>4, PartyNames, Payment
<1>9. /\ yieldPool' \in [Rounds -> Nat] /\ yieldPool'[r] = yieldPool[r] + Fee(gross)
      /\ \A q \in Rounds \ {r} : yieldPool'[q] = yieldPool[q]
  BY <1>1, <1>2, <1>4, FeeType DEF TypeOK
<1>10. TypeOK'
  <2>1. nextTokenId' \in 1..(T + 1)
    BY <1>1, <1>2
  <2> QED
    BY <1>1, <1>2, <1>5, <1>7, <1>8, <1>9, <2>1 DEF TypeOK
<1>11. r < nextRoundId
  BY <1>2, <1>3, Created DEF total
<1>12. Numbered'
  <2> SUFFICES ASSUME NEW t \in Tokens
               PROVE  /\ t < nextTokenId' <=> tokenInfo'[t].round # 0
                      /\ t < nextTokenId' <=> owner'[t] # NoOne
                      /\ tokenInfo'[t].round < nextRoundId'
    BY DEF Numbered
  <2>1. CASE t \in Minted(k)
    <3>1. tokenInfo'[t].round = r /\ owner'[t] = who /\ t < nextTokenId'
      BY <1>1, <1>2, <2>1 DEF Minted
    <3> QED
      BY <1>1, <1>2, <1>11, <3>1, AddressAssumption
  <2>2. CASE t \notin Minted(k)
    <3>1. tokenInfo'[t] = tokenInfo[t] /\ owner'[t] = owner[t]
      BY <1>1, <2>2
    <3>2. t < nextTokenId' <=> t < nextTokenId
      BY <1>1, <1>2, <2>2 DEF Minted, Tokens
    <3> QED
      BY <1>1, <1>2, <3>1, <3>2 DEF Numbered
  <2> QED
    BY <2>1, <2>2
<1>13. ASSUME NEW q \in Rounds \ {r}
       PROVE  SameRound(q)
  <2>1. q # 0
    BY <1>2 DEF Rounds
  <2>2. TokensOf(q)' = TokensOf(q)
    BY <1>1, <1>6, <2>1 DEF TokensOf
  <2>3. ASSUME NEW t \in TokensOf(q)
        PROVE  tokenInfo'[t].claimed = tokenInfo[t].claimed
    BY <1>1, <1>6, <2>1 DEF TokensOf
  <2> QED
    BY <1>1, <1>5, <1>9, <2>2, <2>3 DEF SameRound
<1>14. TokensOf(r)' = TokensOf(r) \cup Minted(k) /\ TokensOf(r) \cap Minted(k) = {}
  <2>1. r # 0
    BY <1>2
  <2> QED
    BY <1>1, <1>6, <2>1 DEF TokensOf
<1>15. Cardinality(TokensOf(r)') = sold + k
  <2>1. IsFiniteSet(Minted(k)) /\ Cardinality(Minted(k)) = k
    <3> DEFINE first == nextTokenId
               last == nextTokenId + k - 1
    <3>1. /\ first \in Int /\ last \in Int /\ ~(first > last)
          /\ last - first + 1 = k
      BY <1>2
    <3>2. Minted(k) = first..last
      BY <1>6
    <3> HIDE DEF first, last
    <3>3. IsFiniteSet(first..last)
          /\ Cardinality(first..last) = IF first > last THEN 0 ELSE last - first + 1
      BY <3>1, FS_Interval
    <3> QED
      BY <3>1, <3>2, <3>3
  <2>2. IsFiniteSet(TokensOf(r)) /\ Cardinality(TokensOf(r)) = sold
    BY <1>2, FiniteTokens DEF Life, sold
  <2>3. Cardinality(TokensOf(r)') = sold + k - 0
    BY <1>14, <2>1, <2>2, FS_Union, FS_EmptySet
  <2> QED
    BY <1>2, <1>3, <2>3
<1>16. Life(r)'
  <2>1. ~(r >= nextRoundId) /\ rounds[r].farmer \in Wallets
    BY <1>2, <1>3, Created DEF total
  <2> QED
    BY <1>1, <1>3, <1>5, <1>11, <1>15, <2>1 DEF Life, Sharing
<1>17. Claims(r)'
  <2>1. Unshared(r)
    BY <1>1, <1>2 DEF Claims, Sharing
  <2>2. Takers(r)' = {}
    <3> SUFFICES ASSUME NEW t \in TokensOf(r)' PROVE tokenInfo'[t].claimed = 0
      BY DEF Takers
    <3>1. CASE t \in Minted(k)
      BY <1>1, <1>6, <3>1
    <3>2. CASE t \in TokensOf(r) /\ t \notin Minted(k)
      BY <1>1, <2>1, <3>2 DEF Unshared, Takers, TokensOf
    <3> QED
      BY <1>14, <3>1, <3>2
  <2> QED
    BY <1>1, <1>3, <1>5, <2>1, <2>2 DEF Claims, Unshared, Sharing
<1>18. balance'[This] - balance[This] >= Due(r)' - Due(r)
  <2> DEFINE c == price * sold
             y == yieldPool[r]
             x == balance[This]
  <2>1. Due(r) = y + (c - Fee(c))
    BY <1>1 DEF Due, Capital, price, sold
  <2>2. Capital(r)' = c + gross
    BY <1>4, <1>5 DEF Capital
  <2>3. Due(r)' = (y + Fee(gross)) + ((c + gross) - Fee(c + gross))
    BY <1>3, <1>5, <1>9, <2>2 DEF Due
  <2>4. /\ y \in Nat /\ c \in Nat /\ x \in Nat /\ Fee(c) \in Nat
        /\ Fee(gross) \in Nat /\ Fee(c + gross) \in Nat
        /\ Fee(c) + Fee(gross) <= Fee(c + gross)
    BY <1>2, <1>4, FeeType, FeeSuperadditive, PartyNames DEF TypeOK
  <2> HIDE DEF c, y, x
  <2>5. balance'[This] = x + gross
    BY <1>8 DEF x
  <2> DEFINE m == Fee(c)
             n == Fee(gross)
             l == Fee(c + gross)
  <2>6. /\ m \in Nat /\ n \in Nat /\ l \in Nat /\ m + n <= l
        /\ Due(r) = y + (c - m) /\ Due(r)' = (y + n) + ((c + gross) - l)
    BY <2>1, <2>3, <2>4
  <2> HIDE DEF m, n, l
  <2>7. balance'[This] - x >= Due(r)' - Due(r)
    BY <1>4, <2>4, <2>5, <2>6
  <2> QED
    BY <2>7 DEF x
<1> QED
  BY <1>10, <1>12, <1>13, <1>16, <1>17, <1>18, OneRound

-----------------------------------------------------------------------------
(* Sharing the harvest.                                                    *)

\* The harvest comes in, and nothing of it is claimed.
LEMMA DistributeStep ==
  ASSUME RoundsInv, NEW who \in Wallets, NEW r \in Rounds, NEW sale \in Sales,
         distributeHarvest(who, r, sale)
  PROVE  RoundsInv'
<1>1. /\ rounds' = [rounds EXCEPT ![r].status = "DISTRIBUTING", ![r].sale = sale]
      /\ balance' = Moved(who, This, sale) /\ balance[who] >= sale
      /\ rounds[r].status = "ACTIVE" /\ yieldPool' = yieldPool
      /\ UNCHANGED <<shares, nextRoundId, admin, paid>>
      /\ sale \in Nat /\ sale > 0
  BY AmountAssumption DEF distributeHarvest
<1>2. /\ TypeOK /\ Life(r) /\ Claims(r) /\ rounds[r] \in Round
      /\ rounds[r].farmer \in Wallets /\ rounds[r].total > 0
      /\ r < nextRoundId /\ ~(r >= nextRoundId)
  BY <1>1, Created DEF RoundsInv, TypeOK
<1> DEFINE first == [rounds[r] EXCEPT !.status = "DISTRIBUTING"]
           row == [first EXCEPT !.sale = sale]
<1>3. rounds' = [rounds EXCEPT ![r] = row]
  BY <1>1, <1>2 DEF TypeOK
<1>4. /\ row \in Round /\ row.status = "DISTRIBUTING" /\ row.sale = sale
      /\ row.sold = rounds[r].sold /\ row.total = rounds[r].total
      /\ row.claims = rounds[r].claims /\ row.farmer = rounds[r].farmer
  <2>1. /\ first \in Round /\ first.status = "DISTRIBUTING"
        /\ first.sold = rounds[r].sold /\ first.total = rounds[r].total
        /\ first.claims = rounds[r].claims /\ first.farmer = rounds[r].farmer
    BY <1>2 DEF Round, RoundStatus
  <2> HIDE DEF first
  <2> QED
    BY <1>1, <2>1 DEF Round
<1> HIDE DEF row
<1>5. /\ rounds' \in [Rounds -> Round] /\ rounds'[r] = row
      /\ \A q \in Rounds \ {r} : rounds'[q] = rounds[q]
  BY <1>2, <1>3, <1>4 DEF TypeOK
<1>6. balance' \in [Parties -> Nat] /\ balance'[This] = balance[This] + sale
  BY <1>1, <1>2, PartyNames, Payment
<1>7. TokensOf(r)' = TokensOf(r) /\ Takers(r)' = Takers(r) /\ tokenInfo' = tokenInfo
  BY <1>1 DEF TokensOf, Takers, shares
<1>8. Life(r)'
  BY <1>1, <1>2, <1>4, <1>5, <1>7 DEF Life, Sharing
<1>9. /\ Unshared(r) /\ \A t \in TokensOf(r) : tokenInfo[t].claimed = 0
  BY <1>1, <1>2 DEF Claims, Sharing, Unshared, Takers
<1>10. Base(r)' \in Nat /\ Dust(r)' \in Nat
  <2> DEFINE total == rounds[r].total
             b == sale \div total
  <2>1. total \in Nat \ {0} /\ Base(r)' = b /\ Dust(r)' = sale - b * total
    BY <1>2, <1>4, <1>5 DEF Base, Dust, Round
  <2> HIDE DEF total
  <2>2. b \in Nat /\ total * b <= sale
    BY <1>1, <2>1, Division
  <2> HIDE DEF b
  <2>3. total * b = b * total /\ b * total \in Nat
    BY <2>1, <2>2
  <2> QED
    BY <1>1, <2>1, <2>2, <2>3
<1>11. Claims(r)'
  <2>1. ~DustTaken(r)' /\ Cardinality(Takers(r)') = 0
    <3>1. ~(0 > Base(r)')
      BY <1>10
    <3> QED
      BY <1>7, <1>9, <3>1, FS_EmptySet DEF DustTaken, Unshared
  <2>2. \A t \in TokensOf(r)' : tokenInfo'[t].claimed = 0
    BY <1>7, <1>9
  <2>3. paid'[r] = 0 /\ rounds'[r].claims = 0 /\ Takers(r)' = {}
    BY <1>1, <1>4, <1>5, <1>7, <1>9 DEF Unshared
  <2>4. ~(rounds'[r].claims >= rounds'[r].total) /\ Base(r)' * 0 = 0
    BY <1>2, <1>4, <1>5, <1>10, <2>3 DEF Round
  <2>5. ~(0 > Base(r)')
    BY <1>10
  <2>6. Book(r)'
    BY <1>10, <2>1, <2>2, <2>3, <2>4, <2>5 DEF Book
  <2> QED
    BY <1>4, <1>5, <2>6 DEF Claims, Sharing
<1>12. balance'[This] - balance[This] >= Due(r)' - Due(r)
  <2> DEFINE y == yieldPool[r]
             x == balance[This]
  <2>1. Due(r) = y + 0 /\ Due(r)' = y + (sale - 0)
    BY <1>1, <1>4, <1>5, <1>9 DEF Due, Unshared
  <2>2. y \in Nat /\ x \in Nat
    BY <1>2, PartyNames DEF TypeOK
  <2> HIDE DEF x, y
  <2>3. balance'[This] - x >= Due(r)' - Due(r)
    BY <1>1, <1>6, <2>1, <2>2 DEF x
  <2> QED
    BY <2>3 DEF x
<1>13. yieldPool' \in [Rounds -> Nat]
  BY <1>1, <1>2 DEF TypeOK
<1> QED
  BY <1>1, <1>5, <1>6, <1>8, <1>11, <1>12, <1>13, RowStep

\* A round is closed with what is left to claim.
LEMMA CloseStep ==
  ASSUME RoundsInv, NEW who \in Wallets, NEW r \in Rounds, closeRound(who, r)
  PROVE  RoundsInv'
<1>1. /\ rounds' = [rounds EXCEPT ![r].status = "CLOSED"]
      /\ rounds[r].status = "DISTRIBUTING" /\ yieldPool' = yieldPool
      /\ balance' = balance /\ UNCHANGED <<shares, nextRoundId, admin, paid>>
  BY DEF closeRound
<1>2. TypeOK /\ Life(r) /\ Claims(r) /\ rounds[r] \in Round
  BY DEF RoundsInv, TypeOK
<1>3. /\ rounds' \in [Rounds -> Round]
      /\ \A q \in Rounds \ {r} : rounds'[q] = rounds[q]
      /\ rounds'[r] = [rounds[r] EXCEPT !.status = "CLOSED"]
  BY <1>1, <1>2 DEF TypeOK, Round, RoundStatus
<1>4. /\ rounds'[r].status = "CLOSED" /\ rounds'[r].sold = rounds[r].sold
      /\ rounds'[r].total = rounds[r].total /\ rounds'[r].price = rounds[r].price
      /\ rounds'[r].sale = rounds[r].sale /\ rounds'[r].claims = rounds[r].claims
      /\ rounds'[r].farmer = rounds[r].farmer
  BY <1>2, <1>3 DEF Round
<1>5. TokensOf(r)' = TokensOf(r) /\ tokenInfo' = tokenInfo
  BY <1>1 DEF TokensOf, shares
<1>6. Life(r)'
  <2>1. r < nextRoundId /\ ~(r >= nextRoundId)
    BY <1>1, Created
  <2> QED
    BY <1>1, <1>2, <1>4, <1>5, <2>1 DEF Life, Sharing
<1>7. Claims(r)'
  <2>1. rounds'[r].status \in Sharing /\ rounds[r].status \in Sharing
    BY <1>1, <1>4 DEF Sharing
  <2> QED
    BY <1>1, <1>2, <1>4, <1>5, <2>1, ClaimsKept
<1>8. Due(r)' = Due(r)
  BY <1>1, <1>4 DEF Due
<1>9. balance'[This] - balance[This] >= Due(r)' - Due(r)
  BY <1>1, <1>8, DueTypes DEF RoundsInv, AllDueNat
<1> QED
  BY <1>1, <1>2, <1>3, <1>6, <1>7, <1>9, RowStep DEF TypeOK

\* What a claim finds and leaves, in terms of the round r, its even part b,
\* its dust d, and what the token had (c) and has (e).
ClaimFrame(t, r, b, d, c, e) ==
  /\ r \in Rounds /\ t \in TokensOf(r) /\ rounds[r].status \in Sharing
  /\ b = Base(r) /\ d = Dust(r) /\ b \in Nat \ {0} /\ d \in Nat
  /\ c = tokenInfo[t].claimed /\ c \in {0, b, b + d}
  /\ e = (IF rounds[r].claims + 1 = rounds[r].total THEN b + d ELSE b) /\ e > c
  /\ tokenInfo'[t].claimed = e
  /\ \A u \in Tokens \ {t} : tokenInfo'[u] = tokenInfo[u]
  /\ TokensOf(r)' = TokensOf(r) /\ TokensOf(r) \subseteq Tokens
  /\ Base(r)' = b /\ Dust(r)' = d
  /\ rounds'[r].claims = rounds[r].claims + 1
  /\ rounds'[r].total = rounds[r].total
  /\ rounds[r].claims \in Nat /\ rounds[r].total \in Nat
  /\ paid[r] \in Nat /\ paid'[r] = paid[r] + (e - c)

\* A token that had nothing joins the ones that had a dividend.
LEMMA TakersGrow ==
  ASSUME NEW t, NEW r, NEW b, NEW d, NEW c, NEW e, ClaimFrame(t, r, b, d, c, e)
  PROVE  /\ c = 0 => Cardinality(Takers(r)') = Cardinality(Takers(r)) + 1
         /\ c # 0 => Takers(r)' = Takers(r)
         /\ Takers(r)' # {}
         /\ Cardinality(Takers(r)) \in Nat
<1>1. IsFiniteSet(Takers(r)) /\ Cardinality(Takers(r)) \in Nat
  BY FiniteTokens
<1>2. e # 0
  BY DEF ClaimFrame
<1>3. Takers(r)' = Takers(r) \cup {t}
  BY <1>2 DEF ClaimFrame, Takers
<1>4. c = 0 <=> t \notin Takers(r)
  BY DEF ClaimFrame, Takers
<1>5. CASE c = 0
  BY <1>1, <1>3, <1>4, <1>5, FS_AddElement
<1>6. CASE c # 0
  BY <1>1, <1>3, <1>4, <1>6
<1> QED
  BY <1>5, <1>6

\* The even part, for a token that had nothing.
LEMMA EvenClaim ==
  ASSUME NEW t, NEW r, NEW b, NEW d, NEW c, NEW e, ClaimFrame(t, r, b, d, c, e),
         Book(r), rounds[r].claims + 1 # rounds[r].total
  PROVE  Book(r)'
<1> DEFINE n == Cardinality(Takers(r))
           m == rounds[r].claims
           total == rounds[r].total
<1>1. e = b /\ c = 0 /\ b \in Nat \ {0} /\ d \in Nat
  BY DEF ClaimFrame
<1>2. n \in Nat /\ Cardinality(Takers(r)') = n + 1
  BY <1>1, TakersGrow
<1>3. ~(b > b) /\ ~(0 > b)
  BY <1>1
<1>4. t \in TokensOf(r) /\ tokenInfo[t].claimed = 0 /\ tokenInfo'[t].claimed = b
      /\ TokensOf(r)' = TokensOf(r) /\ b = Base(r) /\ Base(r)' = b
      /\ d = Dust(r) /\ Dust(r)' = d
      /\ \A u \in TokensOf(r) \ {t} : tokenInfo'[u].claimed = tokenInfo[u].claimed
  BY <1>1 DEF ClaimFrame
<1>5. DustTaken(r)' <=> DustTaken(r)
  BY <1>3, <1>4 DEF DustTaken
<1>6. \A u \in TokensOf(r)' :
        tokenInfo'[u].claimed \in {0, Base(r)', Base(r)' + Dust(r)'}
  BY <1>4 DEF Book
<1>7. \A u, v \in TokensOf(r)' :
        tokenInfo'[u].claimed > Base(r)' /\ tokenInfo'[v].claimed > Base(r)'
          => u = v
  BY <1>3, <1>4 DEF Book
<1>8. /\ paid'[r] = paid[r] + b /\ m \in Nat /\ total \in Nat /\ m + 1 # total
      /\ rounds'[r].claims = m + 1 /\ rounds'[r].total = total
      /\ paid[r] = b * n + (IF DustTaken(r) THEN d ELSE 0)
      /\ DustTaken(r) => m >= total
      /\ ~DustTaken(r) => m = n
      /\ m >= total => DustTaken(r) \/ d = 0
  BY <1>1, <1>4 DEF ClaimFrame, Book
<1>9. b * (n + 1) = b * n + b /\ b * n \in Nat
  BY <1>1, <1>2
<1>10. Base(r)' # 0
  BY <1>1, <1>4
<1> HIDE DEF n, m, total
<1>11. paid'[r] = b * (n + 1) + (IF DustTaken(r)' THEN d ELSE 0)
  BY <1>1, <1>5, <1>8, <1>9
<1>12. /\ DustTaken(r)' => m + 1 >= total
       /\ ~DustTaken(r)' => m + 1 = n + 1
       /\ m + 1 >= total => DustTaken(r)' \/ d = 0
  BY <1>2, <1>5, <1>8
<1> QED
  BY <1>2, <1>4, <1>6, <1>7, <1>8, <1>10, <1>11, <1>12 DEF Book

\* The even part and the dust, or the dust alone, for the claim that makes the
\* claims as many as the shares.
LEMMA DustClaim ==
  ASSUME NEW t, NEW r, NEW b, NEW d, NEW c, NEW e, ClaimFrame(t, r, b, d, c, e),
         Book(r), rounds[r].claims + 1 = rounds[r].total
  PROVE  Book(r)'
<1> DEFINE n == Cardinality(Takers(r))
           m == rounds[r].claims
           total == rounds[r].total
           k == Cardinality(Takers(r)')
<1>1. e = b + d /\ b \in Nat \ {0} /\ d \in Nat /\ c < b + d
      /\ (c = 0 \/ c = b)
  BY DEF ClaimFrame
<1>2. /\ n \in Nat /\ (c = 0 => k = n + 1) /\ (c # 0 => k = n)
  BY TakersGrow
<1>3. t \in TokensOf(r) /\ tokenInfo[t].claimed = c /\ tokenInfo'[t].claimed = b + d
      /\ TokensOf(r)' = TokensOf(r) /\ b = Base(r) /\ Base(r)' = b
      /\ d = Dust(r) /\ Dust(r)' = d
      /\ \A u \in TokensOf(r) \ {t} : tokenInfo'[u].claimed = tokenInfo[u].claimed
  BY <1>1 DEF ClaimFrame
<1>4. /\ paid'[r] = paid[r] + ((b + d) - c) /\ m \in Nat /\ total \in Nat
      /\ m + 1 = total /\ rounds'[r].claims = m + 1 /\ rounds'[r].total = total
  BY <1>1 DEF ClaimFrame
<1>5. ~DustTaken(r)
  <2>1. ~(m >= total)
    BY <1>4
  <2> QED
    BY <2>1 DEF Book
<1>6. paid[r] = b * n + 0 /\ m = n
  BY <1>3, <1>5 DEF Book
<1>7. \A u \in TokensOf(r) : ~(tokenInfo[u].claimed > b)
  BY <1>3, <1>5 DEF DustTaken
<1>8. b + d > b <=> d # 0
  BY <1>1
<1>9. DustTaken(r)' <=> d # 0
  BY <1>3, <1>7, <1>8 DEF DustTaken
<1>10. \A u \in TokensOf(r)' :
         tokenInfo'[u].claimed \in {0, Base(r)', Base(r)' + Dust(r)'}
  BY <1>3 DEF Book
<1>11. \A u, v \in TokensOf(r)' :
         tokenInfo'[u].claimed > Base(r)' /\ tokenInfo'[v].claimed > Base(r)'
           => u = v
  BY <1>3, <1>7
<1>12. b * (n + 1) = b * n + b /\ b * n \in Nat
  BY <1>1, <1>2
<1>13. Base(r)' # 0
  BY <1>1, <1>3
<1> HIDE DEF n, m, total, k
<1>14. paid'[r] = b * k + (IF DustTaken(r)' THEN d ELSE 0)
  <2>1. CASE c = 0
    <3>1. k = n + 1 /\ paid'[r] = b * n + b + d
      BY <1>1, <1>2, <1>4, <1>6, <1>12, <2>1
    <3> QED
      BY <1>1, <1>9, <1>12, <3>1
  <2>2. CASE c = b
    <3>1. k = n /\ d # 0
      BY <1>1, <1>2, <2>2
    <3>2. paid'[r] = b * n + d
      BY <1>1, <1>4, <1>6, <1>12, <2>2
    <3> QED
      BY <1>9, <3>1, <3>2
  <2> QED
    BY <1>1, <2>1, <2>2
<1>15. /\ DustTaken(r)' => m + 1 >= total
       /\ ~DustTaken(r)' => m + 1 = k
       /\ m + 1 >= total => DustTaken(r)' \/ d = 0
  <2>1. ASSUME d = 0 PROVE c = 0
    BY <1>1, <2>1
  <2> QED
    BY <1>2, <1>4, <1>6, <1>9, <2>1
<1> QED
  BY <1>3, <1>4, <1>10, <1>11, <1>13, <1>14, <1>15 DEF Book, k

\* A holder claims for one share.
LEMMA ClaimStep ==
  ASSUME RoundsInv, NEW who \in Wallets, NEW t \in Tokens, claimDistribution(who, t)
  PROVE  RoundsInv'
<1>3. PICK r \in Rounds : r = tokenInfo[t].round
  <2>1. tokenInfo[t] \in TokenInfo /\ R \in Nat /\ Numbered
    BY BoundAssumption DEF RoundsInv, TypeOK
  <2>2. tokenInfo[t].round # 0
    BY <2>1, AddressAssumption DEF Numbered, claimDistribution
  <2>3. tokenInfo[t].round \in 0..R
    BY <2>1 DEF TokenInfo
  <2> QED
    BY <2>1, <2>2, <2>3 DEF Rounds
<1>0. PICK owed, b, d, c, e :
        /\ owed = Owed(t) /\ b = Base(r) /\ d = Dust(r)
        /\ c = tokenInfo[t].claimed
        /\ e = IF rounds[r].claims + 1 = rounds[r].total THEN b + d ELSE b
  OBVIOUS
<1>1. /\ owner[t] = who /\ rounds[r].status \in Sharing /\ owed > 0
      /\ balance[This] >= owed /\ rounds' = [rounds EXCEPT ![r].claims = @ + 1]
      /\ tokenInfo' = [tokenInfo EXCEPT ![t].claimed = @ + owed]
      /\ balance' = Moved(This, who, owed)
      /\ paid' = [paid EXCEPT ![r] = @ + owed]
      /\ yieldPool' = yieldPool /\ admin' = admin /\ nextRoundId' = nextRoundId
      /\ nextTokenId' = nextTokenId /\ owner' = owner
  BY <1>0, <1>3 DEF claimDistribution
<1>2. TypeOK /\ Numbered /\ tokenInfo[t] \in TokenInfo /\ R \in Nat
  BY BoundAssumption DEF RoundsInv, TypeOK
<1>4. /\ rounds[r] \in Round /\ rounds[r].total > 0 /\ rounds[r].claims \in Nat
      /\ rounds[r].total \in Nat /\ paid[r] \in Nat /\ Life(r) /\ Claims(r)
      /\ rounds[r].status \in {"DISTRIBUTING", "CLOSED"}
      /\ r < nextRoundId /\ ~(r >= nextRoundId)
  BY <1>1, <1>2, <1>3, Created DEF RoundsInv, TypeOK, Round, Sharing
<1>5. /\ b \in Nat /\ d \in Nat /\ d < rounds[r].total
      /\ rounds[r].sale = b * rounds[r].total + d
      /\ rounds[r].sale - b * (rounds[r].total - 1) = b + d
  BY <1>0, <1>2, <1>3, <1>4, Harvest
<1>6. t \in TokensOf(r) /\ TokensOf(r) \subseteq Tokens
  BY <1>3 DEF TokensOf
<1>7. Book(r) /\ c \in {0, b, b + d}
  BY <1>0, <1>1, <1>4, <1>6 DEF Claims, Book
<1>8. owed = e - c
  BY <1>0, <1>3, <1>5 DEF Owed, Entitled
<1>9. c \in Nat /\ e \in Nat /\ owed \in Nat /\ e > c
  <2>1. c \in Nat /\ e \in Nat
    BY <1>0, <1>2, <1>5 DEF TokenInfo
  <2> QED
    BY <1>1, <1>8, <2>1
<1>10. b # 0
  <2> SUFFICES ASSUME b = 0 PROVE FALSE
    OBVIOUS
  <2>1. Takers(r) = {} /\ rounds[r].claims = 0
    BY <1>0, <1>7 DEF Book
  <2>2. rounds[r].total = 1
    BY <1>0, <1>4, <1>9, <2>1
  <2>3. d = 0
    BY <1>5, <2>2
  <2> QED
    BY <1>0, <1>9, <2>3
<1> DEFINE n == rounds[r].claims
<1>11. /\ rounds' \in [Rounds -> Round]
       /\ rounds'[r] = [rounds[r] EXCEPT !.claims = n + 1]
       /\ \A q \in Rounds \ {r} : rounds'[q] = rounds[q]
  <2>1. [rounds[r] EXCEPT !.claims = n + 1] \in Round
    BY <1>4 DEF Round
  <2> QED
    BY <1>1, <1>2, <1>3, <2>1 DEF TypeOK
<1>12. /\ rounds'[r].claims = n + 1 /\ rounds'[r].status = rounds[r].status
       /\ rounds'[r].total = rounds[r].total /\ rounds'[r].sold = rounds[r].sold
       /\ rounds'[r].sale = rounds[r].sale /\ rounds'[r].price = rounds[r].price
       /\ rounds'[r].farmer = rounds[r].farmer
  BY <1>4, <1>11 DEF Round
<1>13. /\ tokenInfo' \in [Tokens -> TokenInfo]
       /\ tokenInfo'[t].claimed = e /\ tokenInfo'[t].round = r
       /\ \A u \in Tokens \ {t} : tokenInfo'[u] = tokenInfo[u]
  <2>1. tokenInfo' = [tokenInfo EXCEPT ![t].claimed = e]
    <3>1. c + owed = e
      BY <1>8, <1>9
    <3> QED
      BY <1>0, <1>1, <1>2, <3>1 DEF TypeOK
  <2> QED
    BY <1>2, <1>3, <1>9, <2>1 DEF TypeOK, TokenInfo
<1>14. \A q : TokensOf(q)' = TokensOf(q)
  <2>1. \A u \in Tokens : tokenInfo'[u].round = tokenInfo[u].round
    BY <1>3, <1>13
  <2> QED
    BY <2>1 DEF TokensOf
<1>15. /\ paid' \in [Rounds -> Nat] /\ paid'[r] = paid[r] + (e - c)
       /\ \A q \in Rounds \ {r} : paid'[q] = paid[q]
  <2>1. owed = e - c /\ owed \in Nat
    BY <1>8, <1>9
  <2> QED
    BY <1>1, <1>2, <1>3, <1>4, <2>1 DEF TypeOK
<1>16. balance' \in [Parties -> Nat] /\ balance'[This] = balance[This] - (e - c)
  <2>1. balance' \in [Parties -> Nat] /\ balance'[This] = balance[This] - owed
    BY <1>1, <1>2, <1>9, PartyNames, Payment
  <2> QED
    BY <1>8, <2>1
<1>17. Base(r)' = b /\ Dust(r)' = d
  BY <1>0, <1>12 DEF Base, Dust
<1>18. Book(r)'
  <2>1. ClaimFrame(t, r, b, d, c, e)
    <3>1. b \in Nat \ {0} /\ TokensOf(r)' = TokensOf(r)
      BY <1>5, <1>10, <1>14
    <3> QED
      BY <1>0, <1>1, <1>4, <1>5, <1>6, <1>7, <1>9, <1>12, <1>13, <1>15, <1>17, <3>1
      DEF ClaimFrame
  <2> QED
    BY <1>7, <2>1, EvenClaim, DustClaim
<1>19. TypeOK'
  BY <1>1, <1>2, <1>11, <1>13, <1>15, <1>16 DEF TypeOK
<1>20. Numbered'
  <2>1. \A u \in Tokens : tokenInfo'[u].round = tokenInfo[u].round
    BY <1>3, <1>13
  <2> QED
    BY <1>1, <1>2, <2>1 DEF Numbered
<1>21. ASSUME NEW q \in Rounds \ {r} PROVE SameRound(q)
  <2>1. \A u \in TokensOf(q) : tokenInfo'[u].claimed = tokenInfo[u].claimed
    BY <1>3, <1>13 DEF TokensOf
  <2>2. TokensOf(q)' = TokensOf(q)
    BY <1>14
  <2> QED
    BY <1>1, <1>11, <1>15, <2>1, <2>2 DEF SameRound
<1>22. Life(r)'
  <2>1. TokensOf(r)' = TokensOf(r)
    BY <1>14
  <2> QED
    BY <1>1, <1>4, <1>12, <2>1 DEF Life
<1>23. Claims(r)'
  BY <1>1, <1>12, <1>18 DEF Claims
<1>24. balance'[This] - balance[This] >= Due(r)' - Due(r)
  <2> DEFINE y == yieldPool[r]
             s == rounds[r].sale
             p == paid[r]
             x == balance[This]
  <2>1. rounds[r].status \notin {"OPEN", "FUNDED", "ACTIVE"}
    BY <1>4
  <2>2. Due(r) = y + (s - p)
    BY <2>1 DEF Due
  <2>3. Due(r)' = y + (s - (p + (e - c)))
    BY <1>1, <1>12, <1>15, <2>1 DEF Due
  <2>4. y \in Nat /\ s \in Nat /\ p \in Nat /\ x \in Nat
    BY <1>2, <1>3, <1>4, PartyNames DEF TypeOK, Round
  <2>5. balance'[This] = x - (e - c)
    BY <1>16
  <2> HIDE DEF y, s, p, x
  <2>6. balance'[This] - x >= Due(r)' - Due(r)
    BY <1>9, <2>2, <2>3, <2>4, <2>5
  <2> QED
    BY <2>6 DEF x
<1> QED
  BY <1>19, <1>20, <1>21, <1>22, <1>23, <1>24, OneRound

-----------------------------------------------------------------------------
(* Steps for no round: shares and money change hands.                      *)

\* Shares change hands and the balance does not fall.
LEMMA HandsStep ==
  ASSUME RoundsInv, UNCHANGED roundOnly \/ (admin' \in Wallets /\
           UNCHANGED <<rounds, yieldPool, nextRoundId, nextTokenId, tokenInfo, paid>>),
         owner' \in [Tokens -> Parties \cup {NoOne}],
         \A t \in Tokens : owner'[t] = NoOne <=> owner[t] = NoOne,
         balance' \in [Parties -> Nat], balance'[This] >= balance[This]
  PROVE  RoundsInv'
<1>1. /\ rounds' = rounds /\ yieldPool' = yieldPool /\ nextRoundId' = nextRoundId
      /\ nextTokenId' = nextTokenId /\ tokenInfo' = tokenInfo /\ paid' = paid
      /\ admin' \in Wallets
  BY DEF roundOnly, RoundsInv, TypeOK
<1>2. TypeOK'
  BY <1>1 DEF RoundsInv, TypeOK
<1>3. Numbered'
  BY <1>1 DEF RoundsInv, Numbered
<1>4. \A q \in Rounds : SameRound(q)
  BY <1>1 DEF SameRound, TokensOf
<1> QED
  BY <1>2, <1>3, <1>4, OtherStep

LEMMA SetAdminStep ==
  ASSUME RoundsInv, NEW who \in Wallets, NEW newAdmin \in Wallets,
         setAdmin(who, newAdmin)
  PROVE  RoundsInv'
<1>1. /\ admin' \in Wallets /\ balance' = balance /\ owner' = owner
      /\ UNCHANGED <<rounds, yieldPool, nextRoundId, nextTokenId, tokenInfo, paid>>
  BY DEF setAdmin, shares
<1>2. balance \in [Parties -> Nat] /\ balance[This] \in Nat
      /\ owner \in [Tokens -> Parties \cup {NoOne}]
  BY PartyNames DEF RoundsInv, TypeOK
<1> QED
  BY <1>1, <1>2, HandsStep

LEMMA TransferStep ==
  ASSUME RoundsInv, NEW who \in Wallets, NEW t \in Tokens,
         NEW to \in Parties \ {This}, transferShare(who, t, to)
  PROVE  RoundsInv'
<1>1. /\ admin' = admin /\ balance' = balance /\ owner' = [owner EXCEPT ![t] = to]
      /\ UNCHANGED <<rounds, yieldPool, nextRoundId, nextTokenId, tokenInfo, paid>>
      /\ owner[t] = who
  BY DEF transferShare
<1>2. balance \in [Parties -> Nat] /\ balance[This] \in Nat /\ admin \in Wallets
      /\ owner \in [Tokens -> Parties \cup {NoOne}]
  BY PartyNames DEF RoundsInv, TypeOK
<1>3. owner' \in [Tokens -> Parties \cup {NoOne}]
  BY <1>1, <1>2
<1>4. \A u \in Tokens : owner'[u] = NoOne <=> owner[u] = NoOne
  BY <1>1, <1>2, PartyNames, AddressAssumption
<1> QED
  BY <1>1, <1>2, <1>3, <1>4, HandsStep

LEMMA FundStep ==
  ASSUME RoundsInv, NEW who \in Wallets, NEW amt \in Funds, fund(who, amt)
  PROVE  RoundsInv'
<1>1. /\ admin' = admin /\ balance' = Moved(who, Staking, amt) /\ owner' = owner
      /\ UNCHANGED <<rounds, yieldPool, nextRoundId, nextTokenId, tokenInfo, paid>>
      /\ balance[who] >= amt /\ amt \in Nat
  BY AmountAssumption DEF fund, shares
<1>2. balance[This] \in Nat /\ admin \in Wallets /\ TypeOK
      /\ owner \in [Tokens -> Parties \cup {NoOne}]
  BY PartyNames DEF RoundsInv, TypeOK
<1>3. balance' \in [Parties -> Nat] /\ balance'[This] = balance[This]
  <2>1. This \in Parties \ {who, Staking}
    BY PartyNames
  <2> QED
    BY <1>1, <1>2, <2>1, PartyNames, Payment
<1> QED
  BY <1>1, <1>2, <1>3, HandsStep

\* Every step of the contract of the rounds.
LEMMA NextRounds ==
  ASSUME RoundsInv, Next
  PROVE  RoundsInv'
<1>1. PICK who \in Wallets :
  \/ \E price \in Prices, total \in Tokens : createRound(who, price, total)
  \/ \E r \in Rounds, k \in Tokens : invest(who, r, k)
  \/ \E r \in Rounds : unlockCapital(who, r)
  \/ \E r \in Rounds, to \in Parties \ {This} : withdrawFees(who, r, to)
  \/ \E r \in Rounds, sale \in Sales : distributeHarvest(who, r, sale)
  \/ \E t \in Tokens : claimDistribution(who, t)
  \/ \E r \in Rounds : closeRound(who, r)
  \/ \E newAdmin \in Wallets : setAdmin(who, newAdmin)
  \/ \E t \in Tokens, to \in Parties \ {This} : transferShare(who, t, to)
  \/ \E amt \in Funds : fund(who, amt)
  BY DEF Next
<1>2. CASE \E price \in Prices, total \in Tokens : createRound(who, price, total)
  BY <1>2, CreateStep
<1>3. CASE \E r \in Rounds, k \in Tokens : invest(who, r, k)
  BY <1>3, InvestStep
<1>4. CASE \E r \in Rounds : unlockCapital(who, r)
  BY <1>4, UnlockStep
<1>5. CASE \E r \in Rounds, to \in Parties \ {This} : withdrawFees(who, r, to)
  BY <1>5, WithdrawStep
<1>6. CASE \E r \in Rounds, sale \in Sales : distributeHarvest(who, r, sale)
  BY <1>6, DistributeStep
<1>7. CASE \E t \in Tokens : claimDistribution(who, t)
  BY <1>7, ClaimStep
<1>8. CASE \E r \in Rounds : closeRound(who, r)
  BY <1>8, CloseStep
<1>9. CASE \E newAdmin \in Wallets : setAdmin(who, newAdmin)
  BY <1>9, SetAdminStep
<1>10. CASE \E t \in Tokens, to \in Parties \ {This} : transferShare(who, t, to)
  BY <1>10, TransferStep
<1>11. CASE \E amt \in Funds : fund(who, amt)
  BY <1>11, FundStep
<1> QED
  BY <1>1, <1>2, <1>3, <1>4, <1>5, <1>6, <1>7, <1>8, <1>9, <1>10, <1>11

-----------------------------------------------------------------------------
(* The staking contract.                                                   *)

\* A step of the rounds leaves the shares that are staked where they are.
LEMMA StakesKept ==
  ASSUME IInv, Next, UNCHANGED staking
  PROVE  StakingInv'
<1>1. /\ positions' = positions /\ rewarded' = rewarded /\ block' = block
      /\ yieldRatePerBlock' = yieldRatePerBlock /\ stakingAdmin' = stakingAdmin
  BY DEF staking
<1>2. ASSUME NEW t \in Tokens, owner[t] = Staking PROVE owner'[t] = Staking
  <2>1. Staking # NoOne /\ Staking \notin Wallets
    BY AddressAssumption
  <2>2. ASSUME NEW k \in Tokens PROVE t \notin Minted(k)
    <3>1. t < nextTokenId
      BY <1>2, <2>1 DEF IInv, RoundsInv, Numbered
    <3> QED
      BY <3>1, BoundAssumption DEF Minted, IInv, RoundsInv, TypeOK, Tokens
  <2>3. owner \in [Tokens -> Parties \cup {NoOne}]
    BY DEF IInv, RoundsInv, TypeOK
  <2>4. PICK who \in Wallets :
          \/ owner' = owner
          \/ \E r \in Rounds, k \in Tokens : invest(who, r, k)
          \/ \E u \in Tokens, to \in Parties \ {This} : transferShare(who, u, to)
    BY DEF Next, shares, createRound, unlockCapital, withdrawFees,
       distributeHarvest, claimDistribution, closeRound, setAdmin, fund
  <2>5. ASSUME NEW r \in Rounds, NEW k \in Tokens, invest(who, r, k)
        PROVE  owner'[t] = Staking
    BY <1>2, <2>2, <2>5 DEF invest
  <2>6. ASSUME NEW u \in Tokens, NEW to, transferShare(who, u, to)
        PROVE  owner'[t] = Staking
    BY <1>2, <2>1, <2>3, <2>6 DEF transferShare
  <2> QED
    BY <1>2, <2>4, <2>5, <2>6
<1>3. Grove!TypeOK'
  BY <1>1 DEF IInv, StakingInv, Grove!TypeOK
<1>4. StakedIsHeld'
  BY <1>1, <1>2 DEF IInv, StakingInv, StakedIsHeld, Grove!StakedIsHeld
<1>5. EachBlockOnce'
  BY <1>1 DEF IInv, StakingInv, EachBlockOnce, Grove!EachBlockOnce, Grove!Blocks
<1>6. Accruals'
  BY <1>1 DEF IInv, StakingInv, Accruals
<1> QED
  BY <1>3, <1>4, <1>5, <1>6 DEF StakingInv

\* What the invariant of the staking contract says, in one list.
LEMMA StakingFacts ==
  ASSUME IInv
  PROVE  /\ positions \in [Tokens -> Grove!Position] /\ yieldRatePerBlock \in Nat
         /\ stakingAdmin \in Wallets /\ block \in 0..MaxBlock /\ MaxBlock \in Nat
         /\ rewarded \in [Tokens -> Nat]
         /\ owner \in [Tokens -> Parties \cup {NoOne}] /\ TypeOK /\ RoundsInv
         /\ \A t \in Tokens : positions[t].owner # NoOne => owner[t] = Staking
         /\ \A t \in Tokens : /\ positions[t].stakedAtBlock \in Nat
                              /\ positions[t].stakedAtBlock <= block
                              /\ rewarded[t] \in Nat /\ rewarded[t] <= block
         /\ \A t \in Tokens : positions[t].owner # NoOne =>
              rewarded[t] + (block - positions[t].stakedAtBlock) <= block
<1>1. /\ positions \in [Tokens -> Grove!Position] /\ yieldRatePerBlock \in Nat
      /\ stakingAdmin \in Wallets /\ block \in 0..MaxBlock /\ MaxBlock \in Nat
      /\ rewarded \in [Tokens -> Nat]
      /\ owner \in [Tokens -> Parties \cup {NoOne}] /\ TypeOK /\ RoundsInv
  BY RateAssumption DEF IInv, StakingInv, RoundsInv, TypeOK, Grove!TypeOK
<1>2. \A t \in Tokens : positions[t].owner # NoOne => owner[t] = Staking
  BY DEF IInv, StakingInv, StakedIsHeld, Grove!StakedIsHeld
<1>3. \A t \in Tokens : /\ positions[t].stakedAtBlock \in Nat
                        /\ positions[t].stakedAtBlock <= block
                        /\ rewarded[t] \in Nat /\ rewarded[t] <= block
  BY <1>1 DEF IInv, StakingInv, Accruals, Grove!Position
<1>4. \A t \in Tokens : positions[t].owner # NoOne =>
        rewarded[t] + (block - positions[t].stakedAtBlock) <= block
  BY DEF IInv, StakingInv, EachBlockOnce, Grove!EachBlockOnce, Grove!Blocks
<1> QED
  BY <1>1, <1>2, <1>3, <1>4

\* The invariant from its list.
LEMMA StakingFrom ==
  ASSUME RoundsInv', positions' \in [Tokens -> Grove!Position],
         yieldRatePerBlock' \in Nat, stakingAdmin' \in Wallets,
         block' \in 0..MaxBlock, rewarded' \in [Tokens -> Nat],
         \A t \in Tokens : positions'[t].owner # NoOne => owner'[t] = Staking,
         \A t \in Tokens : /\ positions'[t].stakedAtBlock <= block'
                           /\ rewarded'[t] <= block',
         \A t \in Tokens : positions'[t].owner # NoOne =>
           rewarded'[t] + (block' - positions'[t].stakedAtBlock) <= block'
  PROVE  IInv'
<1>1. Grove!TypeOK'
  BY DEF Grove!TypeOK
<1>2. StakedIsHeld'
  BY DEF StakedIsHeld, Grove!StakedIsHeld
<1>3. EachBlockOnce'
  <2> SUFFICES ASSUME NEW t \in Tokens
               PROVE  rewarded'[t] + (IF positions'[t].owner = NoOne THEN 0
                         ELSE block' - positions'[t].stakedAtBlock) <= block'
    BY DEF EachBlockOnce, Grove!EachBlockOnce, Grove!Blocks
  <2>1. rewarded'[t] \in Nat /\ rewarded'[t] <= block'
    OBVIOUS
  <2> QED
    BY <2>1
<1>4. Accruals'
  BY DEF Accruals
<1> QED
  BY <1>1, <1>2, <1>3, <1>4 DEF IInv, StakingInv

LEMMA StakeStep ==
  ASSUME IInv, NEW who \in Wallets, NEW t \in Tokens, Grove!stake(who, t),
         UNCHANGED roundOnly
  PROVE  IInv'
<1>1. /\ positions' = [positions EXCEPT ![t] = [owner |-> who, stakedAtBlock |-> block]]
      /\ owner' = [owner EXCEPT ![t] = Staking] /\ owner[t] = who
      /\ balance' = balance /\ block' = block /\ rewarded' = rewarded
      /\ yieldRatePerBlock' = yieldRatePerBlock /\ stakingAdmin' = stakingAdmin
  BY DEF Grove!stake
<1>2. RoundsInv'
  <2>1. /\ owner' \in [Tokens -> Parties \cup {NoOne}]
        /\ \A u \in Tokens : owner'[u] = NoOne <=> owner[u] = NoOne
    BY <1>1, StakingFacts, PartyNames, AddressAssumption
  <2>2. balance \in [Parties -> Nat] /\ balance[This] \in Nat
    BY StakingFacts, PartyNames DEF TypeOK
  <2> QED
    BY <1>1, <2>1, <2>2, StakingFacts, HandsStep
<1>3. [owner |-> who, stakedAtBlock |-> block] \in Grove!Position
  BY StakingFacts DEF Grove!Position
<1>4. /\ positions' \in [Tokens -> Grove!Position]
      /\ positions'[t] = [owner |-> who, stakedAtBlock |-> block]
      /\ \A u \in Tokens \ {t} : positions'[u] = positions[u] /\ owner'[u] = owner[u]
      /\ owner'[t] = Staking
  BY <1>1, <1>3, StakingFacts
<1>5. block \in Int
  BY StakingFacts
<1>6. ASSUME NEW u \in Tokens
      PROVE  /\ positions'[u].owner # NoOne => owner'[u] = Staking
             /\ positions'[u].stakedAtBlock <= block /\ rewarded[u] <= block
             /\ positions'[u].owner # NoOne =>
                  rewarded[u] + (block - positions'[u].stakedAtBlock) <= block
  <2>1. CASE u = t
    BY <1>4, <1>5, <2>1, StakingFacts
  <2>2. CASE u # t
    BY <1>4, <2>2, StakingFacts
  <2> QED
    BY <2>1, <2>2
<1> QED
  BY <1>1, <1>2, <1>4, <1>6, StakingFacts, StakingFrom

\* What a payment of yield does, for a position of the caller.
LEMMA YieldPaid ==
  ASSUME IInv, NEW who \in Wallets, NEW t \in Tokens, Grove!Yield(who, t)
  PROVE  /\ positions[t].owner = who /\ owner[t] = Staking /\ owner[t] # NoOne
         /\ balance' \in [Parties -> Nat] /\ balance'[This] >= balance[This]
         /\ rewarded' \in [Tokens -> Nat]
         /\ \A u \in Tokens \ {t} : rewarded'[u] = rewarded[u]
         /\ rewarded'[t] <= block
<1>1. /\ positions[t].owner = who /\ balance[Staking] >= Grove!pendingYield(t)
      /\ balance' = Grove!Moved(Staking, who, Grove!pendingYield(t))
      /\ rewarded' = [rewarded EXCEPT ![t] =
           IF Grove!pendingYield(t) > 0 THEN @ + Grove!Blocks(t) ELSE @]
  BY DEF Grove!Yield
<1> DEFINE n == Grove!Blocks(t)
           y == Grove!pendingYield(t)
<1>2. owner[t] = Staking /\ owner[t] # NoOne
  BY <1>1, StakingFacts, AddressAssumption
<1>3. n \in Nat /\ rewarded[t] \in Nat /\ rewarded[t] + n <= block /\ y \in Nat
  <2>1. /\ block \in Nat /\ positions[t].stakedAtBlock \in Nat
        /\ positions[t].stakedAtBlock <= block /\ positions[t].owner # NoOne
    BY <1>1, StakingFacts, AddressAssumption
  <2>2. n = block - positions[t].stakedAtBlock /\ n \in Nat
    BY <2>1 DEF Grove!Blocks
  <2>3. y \in Nat
    BY <2>2, StakingFacts DEF Grove!pendingYield
  <2> QED
    BY <2>1, <2>2, <2>3, StakingFacts
<1> HIDE DEF n, y
<1>4. balance' = Moved(Staking, who, y)
  BY <1>1 DEF Grove!Moved, Moved, y
<1>5. balance' \in [Parties -> Nat] /\ balance'[This] = balance[This]
  <2>1. /\ Staking \in Parties /\ who \in Parties /\ Staking # who
        /\ This \in Parties \ {Staking, who} /\ balance[Staking] >= y /\ TypeOK
    BY <1>1, PartyNames, StakingFacts DEF y
  <2> QED
    BY <1>3, <1>4, <2>1, Payment
<1>6. balance[This] \in Nat
  BY PartyNames, StakingFacts DEF TypeOK
<1>7. /\ rewarded' \in [Tokens -> Nat]
      /\ \A u \in Tokens \ {t} : rewarded'[u] = rewarded[u]
      /\ rewarded'[t] \in {rewarded[t], rewarded[t] + n}
  <2>1. rewarded[t] + n \in Nat /\ rewarded \in [Tokens -> Nat]
    BY <1>3, StakingFacts
  <2> QED
    BY <1>1, <2>1 DEF n
<1>8. rewarded'[t] <= block
  BY <1>3, <1>7, StakingFacts
<1> QED
  BY <1>1, <1>2, <1>5, <1>6, <1>7, <1>8

LEMMA UnstakeStep ==
  ASSUME IInv, NEW who \in Wallets, NEW t \in Tokens, Grove!unstake(who, t),
         UNCHANGED roundOnly
  PROVE  IInv'
<1>1. /\ positions' = [positions EXCEPT ![t] = Grove!NoPosition]
      /\ owner' = [owner EXCEPT ![t] = who] /\ Grove!Yield(who, t)
      /\ block' = block /\ yieldRatePerBlock' = yieldRatePerBlock
      /\ stakingAdmin' = stakingAdmin
  BY DEF Grove!unstake
<1>2. RoundsInv'
  <2>1. /\ owner' \in [Tokens -> Parties \cup {NoOne}]
        /\ \A u \in Tokens : owner'[u] = NoOne <=> owner[u] = NoOne
    BY <1>1, YieldPaid, StakingFacts, PartyNames, AddressAssumption
  <2> QED
    BY <1>1, <2>1, YieldPaid, StakingFacts, HandsStep
<1>3. /\ Grove!NoPosition \in Grove!Position /\ Grove!NoPosition.owner = NoOne
      /\ Grove!NoPosition.stakedAtBlock = 0
  BY StakingFacts DEF Grove!Position, Grove!NoPosition
<1>4. /\ positions' \in [Tokens -> Grove!Position]
      /\ positions'[t] = Grove!NoPosition
      /\ \A u \in Tokens \ {t} : positions'[u] = positions[u] /\ owner'[u] = owner[u]
  BY <1>1, <1>3, StakingFacts
<1>5. ASSUME NEW u \in Tokens
      PROVE  /\ positions'[u].owner # NoOne => owner'[u] = Staking
             /\ positions'[u].stakedAtBlock <= block /\ rewarded'[u] <= block
             /\ positions'[u].owner # NoOne =>
                  rewarded'[u] + (block - positions'[u].stakedAtBlock) <= block
  <2>1. CASE u = t
    <3>1. 0 <= block
      BY StakingFacts
    <3> QED
      BY <1>1, <1>3, <1>4, <2>1, <3>1, YieldPaid
  <2>2. CASE u # t
    <3>1. positions'[u] = positions[u] /\ owner'[u] = owner[u]
          /\ rewarded'[u] = rewarded[u]
      BY <1>1, <1>4, <2>2, YieldPaid
    <3> QED
      BY <3>1, StakingFacts
  <2> QED
    BY <2>1, <2>2
<1> QED
  BY <1>1, <1>2, <1>4, <1>5, StakingFacts, YieldPaid, StakingFrom

LEMMA ClaimYieldStep ==
  ASSUME IInv, NEW who \in Wallets, NEW t \in Tokens, Grove!claimYield(who, t),
         UNCHANGED roundOnly
  PROVE  IInv'
<1>1. /\ positions' = [positions EXCEPT ![t].stakedAtBlock = block]
      /\ owner' = owner /\ Grove!Yield(who, t)
      /\ block' = block /\ yieldRatePerBlock' = yieldRatePerBlock
      /\ stakingAdmin' = stakingAdmin
  BY DEF Grove!claimYield
<1>2. RoundsInv'
  BY <1>1, YieldPaid, StakingFacts, HandsStep
<1>3. /\ positions' \in [Tokens -> Grove!Position]
      /\ positions'[t].owner = positions[t].owner
      /\ positions'[t].stakedAtBlock = block
      /\ \A u \in Tokens \ {t} : positions'[u] = positions[u]
  BY <1>1, StakingFacts DEF Grove!Position
<1>4. ASSUME NEW u \in Tokens
      PROVE  /\ positions'[u].owner # NoOne => owner'[u] = Staking
             /\ positions'[u].stakedAtBlock <= block /\ rewarded'[u] <= block
             /\ positions'[u].owner # NoOne =>
                  rewarded'[u] + (block - positions'[u].stakedAtBlock) <= block
  <2>0. block \in Int
    BY StakingFacts
  <2>1. CASE u = t
    <3>1. rewarded'[u] \in Int /\ rewarded'[u] <= block /\ owner'[u] = Staking
          /\ positions'[u].stakedAtBlock = block
      BY <1>1, <1>3, <2>1, YieldPaid
    <3> QED
      BY <2>0, <3>1
  <2>2. CASE u # t
    <3>1. positions'[u] = positions[u] /\ owner'[u] = owner[u]
          /\ rewarded'[u] = rewarded[u]
      BY <1>1, <1>3, <2>2, YieldPaid
    <3> QED
      BY <3>1, StakingFacts
  <2> QED
    BY <2>1, <2>2
<1> QED
  BY <1>1, <1>2, <1>3, <1>4, StakingFacts, YieldPaid, StakingFrom

\* A step that moves no share and no money: a rate, an admin or a block.
LEMMA QuietStep ==
  ASSUME IInv, UNCHANGED roundOnly, UNCHANGED <<positions, owner, balance, rewarded>>,
         yieldRatePerBlock' \in Nat, stakingAdmin' \in Wallets,
         block' \in 0..MaxBlock, block' >= block
  PROVE  IInv'
<1>1. RoundsInv'
  <2>1. balance \in [Parties -> Nat] /\ balance[This] \in Nat
    BY StakingFacts, PartyNames DEF TypeOK
  <2> QED
    BY <2>1, StakingFacts, HandsStep
<1>2. ASSUME NEW u \in Tokens
      PROVE  /\ positions[u].stakedAtBlock <= block' /\ rewarded[u] <= block'
             /\ positions[u].owner # NoOne =>
                  rewarded[u] + (block' - positions[u].stakedAtBlock) <= block'
  <2> DEFINE s == positions[u].stakedAtBlock
             w == rewarded[u]
  <2>1. /\ s \in Nat /\ w \in Nat /\ s <= block /\ w <= block
        /\ block \in Nat /\ block' \in Nat
        /\ positions[u].owner # NoOne => w + (block - s) <= block
    BY StakingFacts
  <2> HIDE DEF s, w
  <2> DEFINE m == block'
  <2>0. m \in Nat /\ m >= block
    BY <2>1
  <2> HIDE DEF m
  <2>2. /\ s <= m /\ w <= m
        /\ positions[u].owner # NoOne => w + (m - s) <= m
    BY <2>0, <2>1
  <2> QED
    BY <2>2 DEF s, w, m
<1> QED
  BY <1>1, <1>2, StakingFacts, StakingFrom

\* Every step of the staking contract.
LEMMA NextStaking ==
  ASSUME IInv, Grove!Next, UNCHANGED roundOnly
  PROVE  IInv'
<1>1. ASSUME NEW who \in Wallets, NEW rate \in Rates, Grove!setYieldRate(who, rate)
      PROVE  IInv'
  <2>1. rate \in Nat
    BY RateAssumption
  <2> QED
    BY <1>1, <2>1, StakingFacts, QuietStep DEF Grove!setYieldRate
<1>2. ASSUME NEW who \in Wallets, NEW newAdmin \in Wallets,
             Grove!setAdmin(who, newAdmin)
      PROVE  IInv'
  BY <1>2, StakingFacts, QuietStep DEF Grove!setAdmin
<1>3. CASE Grove!nextBlock
  BY <1>3, StakingFacts, QuietStep DEF Grove!nextBlock
<1> QED
  BY <1>1, <1>2, <1>3, StakeStep, UnstakeStep, ClaimYieldStep DEF Grove!Next

-----------------------------------------------------------------------------
(* The invariant, and what follows from it.                                *)

LEMMA InitIInv == GroveInit => IInv
<1> SUFFICES ASSUME GroveInit PROVE IInv
  OBVIOUS
<1>1. /\ rounds = [r \in Rounds |-> NoRound] /\ tokenInfo = [t \in Tokens |-> NoToken]
      /\ owner = [t \in Tokens |-> NoOne] /\ yieldPool = [r \in Rounds |-> 0]
      /\ paid = [r \in Rounds |-> 0] /\ admin = Deployer
      /\ nextRoundId = 1 /\ nextTokenId = 1
  BY DEF GroveInit, Init
<1>2. PICK funds \in Funds :
        balance = [p \in Parties |-> IF p \in Wallets THEN funds ELSE 0]
  BY DEF GroveInit, Init
<1>3. R \in Nat /\ T \in Nat
  BY BoundAssumption
<1>4. NoRound \in Round /\ NoRound.total = 0 /\ NoRound.sold = 0
      /\ NoRound.status = "OPEN" /\ NoRound.claims = 0 /\ NoRound.price = 0
  BY DEF NoRound, Round, RoundStatus
<1>5. NoToken \in TokenInfo /\ NoToken.round = 0 /\ NoToken.claimed = 0
  BY <1>3 DEF NoToken, TokenInfo
<1>6. balance \in [Parties -> Nat] /\ balance[This] = 0
  BY <1>2, PartyNames, AmountAssumption
<1>7. TypeOK
  <2>1. nextRoundId \in 1..(R + 1) /\ nextTokenId \in 1..(T + 1)
    BY <1>1, <1>3
  <2>2. admin \in Wallets
    BY <1>1, AddressAssumption
  <2> QED
    BY <1>1, <1>4, <1>5, <1>6, <2>1, <2>2 DEF TypeOK
<1>8. Numbered
  BY <1>1, <1>3, <1>5 DEF Numbered, Tokens
<1>9. ASSUME NEW r \in Rounds
      PROVE  Life(r) /\ Claims(r) /\ Due(r) = 0
  <2>1. r >= 1 /\ ~(r < 1) /\ r # 0 /\ rounds[r] = NoRound
    BY <1>1, <1>3 DEF Rounds
  <2>2. TokensOf(r) = {} /\ Takers(r) = {}
    BY <1>1, <1>5, <2>1 DEF TokensOf, Takers
  <2>3. Life(r)
    BY <1>1, <1>4, <2>1, <2>2, FS_EmptySet DEF Life, Sharing
  <2>4. Claims(r)
    BY <1>1, <1>4, <2>1, <2>2 DEF Claims, Unshared, Sharing
  <2>5. Due(r) = 0
    <3>1. Capital(r) = 0
      BY <1>4, <2>1 DEF Capital
    <3>2. Fee(0) = 0
      <4>1. Fee(0) \in Nat /\ Fee(0) <= 0
        BY FeeType, FeeAtMost
      <4> QED
        BY <4>1
    <3> QED
      BY <1>1, <1>4, <2>1, <3>1, <3>2 DEF Due
  <2> QED
    BY <2>3, <2>4, <2>5
<1>10. Ledger
  <2> DEFINE zero == [i \in 0..R |-> 0]
  <2>1. zero \in [0..R -> 0..balance[This]]
    BY <1>6
  <2>2. RunningTotal(zero)
    <3>1. 0 \in 0..R /\ \A r \in Rounds : r \in 0..R /\ r - 1 \in 0..R
      BY <1>3 DEF Rounds
    <3> QED
      BY <1>9, <3>1 DEF RunningTotal
  <2>3. NeverDecreases(zero)
    BY DEF NeverDecreases
  <2> HIDE DEF zero
  <2> QED
    BY <2>1, <2>2, <2>3 DEF Ledger
<1>11. /\ positions = [t \in Tokens |-> Grove!NoPosition]
       /\ yieldRatePerBlock \in Rates /\ stakingAdmin = Deployer /\ block = 0
       /\ rewarded = [t \in Tokens |-> 0]
  BY DEF GroveInit, Grove!Init
<1>12. /\ Grove!NoPosition \in Grove!Position /\ Grove!NoPosition.owner = NoOne
       /\ Grove!NoPosition.stakedAtBlock = 0 /\ MaxBlock \in Nat
  BY RateAssumption DEF Grove!NoPosition, Grove!Position
<1>13. StakingInv
  <2>1. Grove!TypeOK
    BY <1>11, <1>12, RateAssumption, AddressAssumption DEF Grove!TypeOK
  <2>2. StakedIsHeld
    BY <1>11, <1>12 DEF StakedIsHeld, Grove!StakedIsHeld
  <2>3. EachBlockOnce
    BY <1>11, <1>12 DEF EachBlockOnce, Grove!EachBlockOnce
  <2>4. Accruals
    BY <1>11, <1>12 DEF Accruals
  <2> QED
    BY <2>1, <2>2, <2>3, <2>4 DEF StakingInv
<1> QED
  BY <1>7, <1>8, <1>9, <1>10, <1>13 DEF IInv, RoundsInv

\* Every step of either contract keeps the invariant.
LEMMA NextIInv == IInv /\ [GroveNext]_chain => IInv'
<1> SUFFICES ASSUME IInv, [GroveNext]_chain PROVE IInv'
  OBVIOUS
<1>1. CASE Next /\ UNCHANGED staking
  BY <1>1, NextRounds, StakesKept DEF IInv
<1>2. CASE Grove!Next /\ UNCHANGED roundOnly
  BY <1>2, NextStaking
<1>3. CASE UNCHANGED chain
  <2>1. /\ UNCHANGED roundOnly /\ UNCHANGED <<positions, owner, balance, rewarded>>
        /\ yieldRatePerBlock' = yieldRatePerBlock /\ stakingAdmin' = stakingAdmin
        /\ block' = block
    BY <1>3 DEF chain, vars, shares, staking, roundOnly
  <2>2. block >= block
    BY StakingFacts
  <2> QED
    BY <2>1, <2>2, StakingFacts, QuietStep
<1> QED
  BY <1>1, <1>2, <1>3 DEF GroveNext

\* The inductive invariant of the two contracts.
THEOREM GroveInvariant == GroveSpec => []IInv
  BY InitIInv, NextIInv, PTL DEF GroveSpec

\* No field of the two contracts ever leaves its type: no balance, fee pool or
\* count below zero, whatever is bought, claimed, staked and withdrawn.
THEOREM TypesKept == GroveSpec => []GroveTypeOK
<1>1. IInv => GroveTypeOK
  BY DEF IInv, RoundsInv, StakingInv, GroveTypeOK
<1> QED
  BY <1>1, GroveInvariant, PTL

\* The balance of PlantationRound covers what all rounds are due together,
\* however the fees of the single purchases were rounded.
THEOREM SolventAlways == GroveSpec => []Solvent
<1>1. IInv => Solvent
  BY DEF IInv, RoundsInv, Ledger, Solvent
<1> QED
  BY <1>1, GroveInvariant, PTL

\* A share has its even part of the harvest once, and one share the dust.
THEOREM Dividends == GroveSpec => []DividendsFair
<1>1. IInv => DividendsFair
  BY DEF IInv, RoundsInv, Claims, Book, DividendsFair
<1> QED
  BY <1>1, GroveInvariant, PTL

\* While part of a harvest is unclaimed, some share can still claim.
THEOREM AllOfItClaimable == GroveSpec => []NothingStranded
<1>1. ASSUME IInv PROVE NothingStranded
  <2> SUFFICES ASSUME NEW r \in Rounds, rounds[r].status \in Sharing,
                      paid[r] < rounds[r].sale, Base(r) > 0
               PROVE  \E t \in TokensOf(r) : Owed(t) > 0
    BY DEF NothingStranded
  <2>1. TypeOK /\ Life(r) /\ Claims(r) /\ Book(r)
    BY <1>1 DEF IInv, RoundsInv, Claims
  <2> DEFINE b == Base(r)
             d == Dust(r)
             n == Cardinality(Takers(r))
             total == rounds[r].total
             sale == rounds[r].sale
  <2>2. /\ total \in Nat /\ total > 0 /\ Cardinality(TokensOf(r)) = total
        /\ rounds[r].claims \in Nat
    BY <2>1 DEF Life, Sharing, TypeOK, Round
  <2>3. /\ b \in Nat /\ d \in Nat /\ sale = b * total + d
        /\ sale - b * (total - 1) = b + d
    BY <2>1, <2>2, Harvest
  <2>4. n # total
    <3> SUFFICES ASSUME n = total PROVE FALSE
      OBVIOUS
    <3>1. /\ paid[r] = b * n + (IF DustTaken(r) THEN d ELSE 0)
          /\ ~DustTaken(r) => rounds[r].claims = n
          /\ rounds[r].claims >= total => DustTaken(r) \/ d = 0
      BY <2>1 DEF Book
    <3>2. DustTaken(r) \/ d = 0
      BY <2>2, <3>1
    <3>3. paid[r] = b * total + d
      BY <2>2, <2>3, <3>1, <3>2
    <3>4. paid[r] = sale /\ sale \in Int
      BY <2>1, <2>3, <3>3 DEF TypeOK, Round
    <3> QED
      BY <3>4
  <2>5. PICK t \in TokensOf(r) : tokenInfo[t].claimed = 0
    <3>1. Takers(r) # TokensOf(r)
      BY <2>2, <2>4
    <3> QED
      BY <3>1 DEF Takers
  <2>6. tokenInfo[t].round = r
    BY DEF TokensOf
  <2>7. Owed(t) > 0
    <3>1. Owed(t) = (IF rounds[r].claims + 1 = total THEN b + d ELSE b) - 0
      BY <2>3, <2>5, <2>6 DEF Owed, Entitled
    <3> HIDE DEF b, d
    <3>2. b > 0
      BY DEF b
    <3> QED
      BY <2>3, <3>1, <3>2
  <2> QED
    BY <2>7
<1> QED
  BY <1>1, GroveInvariant, PTL

\* A share that has a position is in the staking contract.
THEOREM StakesHeld == GroveSpec => []StakedIsHeld
<1>1. IInv => StakedIsHeld
  BY DEF IInv, StakingInv
<1> QED
  BY <1>1, GroveInvariant, PTL

\* No block is paid for twice.
THEOREM BlocksOnce == GroveSpec => []EachBlockOnce
<1>1. IInv => EachBlockOnce
  BY DEF IInv, StakingInv
<1> QED
  BY <1>1, GroveInvariant, PTL
=============================================================================
