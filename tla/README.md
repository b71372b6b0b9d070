# AgroTrade: TLA+ models, checks and proofs

This directory models the part of the repository that moves money and makes
deals: the escrow on Celo and on Solana, the trade operation of the backend with
the settlement that follows its phase, the negotiations with the sellers, the
inspections and the transport of the goods, and the plantation rounds with their
staking and their mirror in the database; beside these, the planner of routes and the
swaps of the investments. The modules are translated from the source (paths below are
relative to the root of the repository). TLC checks them on small instances. TLAPS proves the
main safety results for all instances.

To repeat a check, run in this directory, for instance:

    tlc -config MCSettlement.cfg MCSettlement
    tlapm TradeOperationProofs.tla

`PROJECT.json` lists every run with its module and configuration, the mutants
that show each property can fail, the source lines behind each definition,
the hazards and the theorems.

## 1. The system

A buyer's purchase becomes a *trade operation*. Sellers are attached to it and
negotiate. Once all have accepted, their goods are inspected, transport is put
out to bid, the goods travel and are delivered, and an escrow pays. The
backend (NestJS, Prisma, PostgreSQL) holds the rows, and smart contracts hold
the money.

| part | state | operations | who it talks to |
|---|---|---|---|
| Escrow contract, `contracts/src/AgroEscrow.sol` | one record for each trade key (buyer, seller, amount, state), the admin and the nominee, one cUSD balance for all keys | createEscrow, releaseFunds, raiseDispute, resolveDispute, refund, nominateAdmin, acceptAdmin | the cUSD token |
| Trade operation, `backend/src/trade-operations` | phase, status and metadata of the row | create, update, updatePhase, autoAdvancePhase, finalizeTrade, handleEscrowActions | escrow service, negotiations, events |
| Escrow service, `backend/src/escrow` | none; the keys of the platform's wallet | create, release, dispute, resolve, refund, on Celo or Solana | the contracts, by RPC |
| Negotiations, `backend/src/negotiations` | TradeSeller, OfferNegotiation, the status of a listing, totals of the trade | offer, counter, accept, reject, withdraw, extend; a cron that expires | trade operation, inspections |
| Transport, `backend/src/transport` | requests, bids, jobs | create a request, bid, accept, start, pick up, deliver | writes the phase of a trade |
| Route planning, `backend/src/transport/services/route-optimization.service.ts` | a cache of routes in the process | optimizeRoute | the transport controller |
| Inspections, `backend/src/inspections` | inspection requests, verified and failed sellers, the quality of a listing, metadata of the trade | create, assign, submit results, patch | created by acceptances, which verify the sellers of graded listings themselves; writes the phase and the metadata of a trade; transport |
| Solana escrow, `contracts-solana` | a vault for each trade | the same seven as on Celo | SPL token |
| Plantation rounds, `contracts/src/PlantationRound.sol`, `backend/src/plantation-rounds` | shares, fees, distributions; a mirror in the database fed by events | create, invest, unlock, distribute, claim, close | cUSD, ERC-721 |
| Grove staking, `contracts/src/GroveStaking.sol` | positions, yield rate | stake, unstake, claim | cUSD, ERC-721 |
| Investments, `backend/src/investments` | positions | executeSwap | Jupiter, Solana |
| Everything else | profiles, catalogue, fleets, prices, reports, notifications, user interfaces | create, read, update, delete | |

What is hard in it:

* **Interleaving.** Handlers run on one event loop and are cut at each `await`.
  Few of them use a transaction and none writes under a condition on what it
  read. Whatever happens between two awaits may change what was validated.
* **Background work.** `updatePhase` starts `handleEscrowActions` and does not
  wait for it. Several such promises of one trade may run at once, each with its
  own snapshot of the metadata, which it writes back whole.
* **Two sources of truth.** The flags `escrowCreated` and `escrowReleased` of
  the database describe a chain that may have done more than the database
  knows: a receipt may be lost and the transaction mined all the same.
* **Many writers.** Transport, inspections, the create-offers route and
  `PUT :id` write the phase without `updatePhase`.
* **Failure.** RPC and database calls throw, the process restarts, and nothing
  is retried.
* **Time.** Offers expire by a cron that reads a list and acts on it later.
* **Shared money.** All deals of the contract live on one token balance.

What makes each part correct is in section 4, property by property. The list
of hazards in `PROJECT.json` names the lines and the properties that watch them,
or says why none does.

## 2. Modules

| module | models |
|---|---|
| `EscrowPromise` | the abstract escrow: money enters a deal once and leaves it once, whole, to a party it names, and back to the payer only after a dispute |
| `AgroEscrow` | the contract on Celo and the token it moves |
| `AgroEscrowProofs` | its invariants, and that it implements `EscrowPromise` |
| `SolanaEscrow` | the program on Solana: a vault for each trade, an admin that must be initialized |
| `SolanaEscrowProofs` | its vaults, and that it implements `EscrowPromise` for callers that name the right account; that a trade is swapped for once |
| `TradeOperation` | one trade: phase machine, settlement promises, escrow routes, the other writers of phase and metadata, failures; drives an instance of `AgroEscrow` |
| `TradeOperationProofs` | its invariants, and that the backend drives the contract only through its functions |
| `Negotiation` | the sellers and negotiations of one trade, the cron, the totals, the inspections an acceptance creates, the phase up to the agreement |
| `SequentialNegotiation` | the same with one request at a time |
| `NegotiationProofs` | nobody is accepted without a price; what holds between requests that do not overlap, the totals included |
| `Inspection` | the inspections of one trade, the sellers that results, patches and accepted grades verify or fail, the transport request of a patch |
| `InspectionProofs` | nobody is verified whose goods nothing spoke for; the last word counts; what the transport request of a patch loads |
| `Transport` | the transport request, bids and job of one trade |
| `TransportProofs` | one selection, no delivery before the pickups, a delivery stands; no bid left open, the phase follows the job; of `RoutePlanning`: every pickup once, where 2-opt ends and why |
| `RoutePlanning` | the order of the pickups: nearest neighbour, 2-opt, the genetic search, the cache of routes |
| `PlantationRound` | the rounds: shares, fees, capital, harvest, claims |
| `GroveStaking` | staking of shares, over the tokens of `PlantationRound` |
| `Grove` | the two contracts on one chain |
| `GroveProofs` | the invariants of both |
| `RoundMirror` | the rows of rounds and shares, and the events that feed them |
| `RoundMirrorProofs` | a row is its round, its shares add up, and it catches up with the contract |
| `Investments` | swaps of USDC: the row, the transaction, the outcome |
| `MC...` | the numbers of the instances that TLC checks, and what each leaves out |

    EscrowPromise <--implements-- AgroEscrow <--drives-- TradeOperation
          ^                                         (phase, metadata, sellersAgreed)
          |                                          |         |         |
          +------implements-- SolanaEscrow   Negotiation  Inspection  Transport

    PlantationRound <--shares, cUSD--> GroveStaking        (composed by Grove)
          |
          +--events--> RoundMirror

`TradeOperation` contains `AgroEscrow` as an instance over the same chain
variables. It sees the negotiations only as a boolean (`sellersAgreed`, which
may change at any time) and transport as four stages, so what is shown of it
holds whatever the negotiations do. `Negotiation` sees the phase as far as the
agreement, `Transport` the phases it writes, and `Inspection` needs none, since no handler
in it reads the phase. `RoundMirror`
has the steps of the contract that emit events and leaves its money to
`PlantationRound`.

### AgroEscrow

`escrows`, `admin` and `pendingAdmin` are the contract's storage; `balance`
and `allowance` are the token's. Each external function is an action. Its
`require` lines are the guards, since a call that reverts changes nothing.
`PayOut` is the common end of `releaseFunds`, `resolveDispute` and
`refund`, in the contract's order: the amount is read, the record is cleared,
the token is moved. Reentrancy is not modelled: the record is cleared before the
token is called, and cUSD calls nobody back. Any account may call anything, and
the seller may be any address, the contract's own included. Allowances for
other spenders are left out, and so is `MockCUSD.mint`, which would only add
money.

### TradeOperation

| model | code |
|---|---|
| `trade` | the row's `phase`, `status`, and the two escrow flags of its `metadata` |
| `calls` | requests between the read and the write of a phase |
| `updatePhaseRead`, `updatePhaseWrite` | `updatePhase`, before and after the `await` between validation and update |
| `handlers` | promises of `handleEscrowActions`: `pc` is the await the promise is at, `tx` the fate of the transaction it waits for, `metadata` its snapshot |
| `settlementRead`, `approved`, `created`, `released` | the stretches of `handleEscrowActions` and of the Celo engine of `escrow.service.ts` between two awaits |
| `mine` | the chain executes or reverts the transaction; the conditions are those of `AgroEscrow` |
| `escrowRoutes` | the admin's POST `escrow/...` routes, which use the same wallet and write no metadata |
| `update`, `createTransportRequest`, `acceptBid`, `inspectionsVerified`, ... | the other writers of the phase |
| `inspectionFailed`, `inspectionNoted` | `submitInspectionResults` reads the whole metadata, escrow flags included, and writes it back with its note |
| `throws`, `orphanLands`, `crash` | a promise dies (its transaction may still be mined) and the process restarts |
| `due`, `paidBy` | history, read by properties only |

The wallet of the platform signs for the buyer and, unless the admin names
another one, is the seller as well, as `escrow.service.ts` has it. `ReleasePhase`
is `SELLER_MATCHING` for EXW and FCA and `DELIVERED` for the other incoterms
(`incoterm-release-phase.constant.ts`). Left out: Solana as the escrow chain and
`executeAutoSwap`, which returns at once on Celo. `create` and `POST /` begin
where `Init` is or end with `setInitialNegotiationPhase`. A phase of
`CANCELLED` leaves `status` alone, as the code does.

### Negotiation

| model | code |
|---|---|
| `seller`, `negotiation` | the rows of `TradeSeller` and `OfferNegotiation`; `"none"` means there is no row |
| `late` | `expiresAt` has passed: `tick` sets it, an extension may clear it |
| `calls` | requests past their first await, with what they have read |
| `acceptOffer`, `agree`, `conclude`, `totalsRead`, `totalsWrite`, `inspectionCheck`, `createInspectionRequest`, `autoAdvancePhase`, `phaseWrite` | the stretches of `acceptOffer` and of the four functions it calls, in order |
| `counterOffer`, `rejectOffer`, `withdrawOffer`, `extendExpiry` and their later steps | the same for the other requests |
| `sweepRead`, `expire` | `expireOverdueNegotiations`: a list is read, then one transaction for each row |
| `throws`, `restart` | any query fails; the process restarts |

Price times quantity is one number, the offer. A batch of offers is one offer
after another. The cron reads all that is overdue (the code takes 200 at a time)
and its rounds do not overlap. The phases after the agreement are one value,
`AGREED`.
`autoAdvancePhase` and the first half of the `updatePhase` it calls are
one step, because the second read repeats the test. An offer that is read by
`extendExpiry` may stay late after it, since the hours are added to the old
expiry. `MAX_EXTENSIONS` has no effect, because the count it is compared with is
not stored. The statuses that the inspection service gives a seller are left to
its module (`Inspection`), and the writers of the phase that ask no seller (`PUT :id`, the
transport request, a verified inspection) to `TradeOperation`: the phase here is that of a
trade which only its agreements move on.

### SolanaEscrow

One action for each instruction; what fails changes nothing. `escrows` and `vault`
are the two accounts derived from a trade id, `config` the admin's. Anybody may
send `initialize` first. The account a release, a resolution or a refund pays is
only required to be of the right mint, so the model lets the caller choose any
wallet or vault. `derived` remembers whether callers have always named the
account of the party, as `escrow.service.ts` derives it; `KeepsPromise` is stated for
as long as they have. One mint, and one token account for each wallet.

### Transport

| model | code |
|---|---|
| `request`, `bids`, `jobs` | the rows of `TransportRequest`, `TransportBid`, `TransportJob`; a bid has at most one job, so jobs are indexed by bids |
| `Insertable`, `JobExists` | the unique columns `tradeOperationId` and `transportRequestId`, on which the code relies without saying so |
| `acceptBid`, `acceptOwn`, `acceptRest` | `acceptBid`: read, first update (which locks the row of the bid), the rest and the commit |
| `confirmPickup`, `pickedUp` | the list of pickups as read, and as written back |
| `closed` | the bidding deadline |
| `confirmed`, `calm` | history: what somebody confirmed; whether requests have overlapped or died |

Left out: the location of a job, and methods without a route
(`withdrawBid`, `updateBid`, `updateTransportJobStatus`). A deadlock of two
acceptances is one of the ways in which `fails` ends a request.

### Inspection

A seller stands for its one listing.

| model | code |
|---|---|
| `inspections`, `seller`, `graded` | the rows of `InspectionRequest` and `TradeSeller` (status and `isVerified`); the listings that have a `qualityScore` and a `qualityGrade` |
| `open`, `negotiates` | whether the seller's negotiation can be accepted; everything else the negotiations do to the seller's status |
| `acceptOffer` to `inspect` | `acceptOffer` as far as the seller, the negotiation and `autoCreateInspection` go: a graded listing verifies its seller (`grade`), another one gets an inspection unless it has one (`lookup`, `inspect`) |
| `result`, `sellers`, `loss`, `note` | the stretches of `submitInspectionResults` |
| `patch`, `cascade`, `verify`, `check`, `ensure`, `points`, `createTransportRequest` | those of `updateInspection` and of what it calls |
| `requestTransport` | POST `transport/requests`, which asks for no verification |
| `failures` | the entries of `inspectionFailures` in the metadata |
| `vouched`, `word`, `failed`, `calm` | history: sellers whose goods something ever spoke for (a passing result, a COMPLETED patch, the grade of an accepted listing), what the last of these or a failing result said, how many failed, and whether requests have overlapped or died |

Left out: the phase, which no handler here reads (that a patch writes it is in
`TradeOperation`); the result routes of `simulation.controller.ts:505-540`, a demonstration
that writes the seller's row directly; of `acceptOffer`, all that `Negotiation` has. A score and a
recommendation are a pass or a fail. A bad word is forgotten when the negotiations give the
seller another status, since the code forgets it too.

### PlantationRound, GroveStaking, Grove

Every external function of both contracts that changes state, with the `require`
lines as guards. `balance` is the cUSD of every account, `owner` the ERC-721 part.
Shares are transferred freely, also to the staking contract without staking. A
receiver's hook (`_safeMint`) is not modelled: every function that pays is
`nonReentrant` or has written its state before. The fee is `FeeBps` of
`BpsScale`, both parameters. Texts, deadlines and `claimedCUSD` of a staking
position are left out, since no decision reads them but the creation of a round.
`GroveStaking` is instantiated over the variables of `PlantationRound`; a step of
`Grove` is a step of one contract. `paid` and `rewarded` are history.

### RoundMirror

| model | code |
|---|---|
| `rows`, `nfts` | `PlantationRound` and `PlantationNft` of the database; number 0 is a placeholder (a negative time stamp in the code) |
| `chain`, `minted` | what the contract has: rounds, with the row each was created for, and the round of each token |
| `creating` | `createRound` transactions that nobody awaits |
| `events` | emitted and not yet heard; a restart loses them |
| `calls` | handlers of requests and of events between two awaits |
| `orderly` | history: no round of a crop was created while one of the crop was on its way |
| `calm` | history: no handlers overlapped or failed, no event was lost |
| `asked`, of a row | history: `distributeHarvest` was the last to write its status |

An investment in the database and one on the chain are independent actions,
because `investInRound` never calls the contract.

### RoutePlanning

The handler never awaits, so one request is planned at a time and a step is one turn
of a loop: a stop chosen by `nearestNeighbor`, a pair tried by
`twoOptImprovement`, a generation of `geneticAlgorithm`. Positions count from 1.
Distances are a parameter; `Distances` says which the model is checked for. Of the
population of the genetic search the model keeps one member and lets it be any, so
that what survives does not depend on distances. `cache` is indexed by the set
of pickups, because `generateCacheKey` sorts them; an entry may expire at any time between
two requests. Left out: durations, the comparison with the order as given, and the
constraints (priority, capacity), which no route of the controller passes on; the quantities
of the pickups, which decide nothing but are part of a cached route. A request names each
pickup once (`AskedAssumption`), which nothing in the code ensures: section 5.

### Investments

A position stands for the call that creates it. `swap` is the transaction of the
platform's wallet, which lands, reverts or is dropped at any time after it was sent;
`sentAndThrows` is one that arrived although sending it threw. `throws` takes
any error after the row was created to the `catch`, `queryFails` is an error that
nothing catches. `executeAutoSwap` is one more caller of `executeSwap` and only called
after a release on Solana.

## 3. Plan

The order was money first, then the settlement that moves it, then the
agreement that decides the amount, then what happens to the goods, then the
second product of the platform:

1. `EscrowPromise`, `AgroEscrow` and its proofs.
2. `TradeOperation` over it, and its proofs; with the metadata writer of the
   inspections.
3. `Negotiation`, `SequentialNegotiation`, and the proofs.
4. `Transport`: one selected bid, no lost pickup.
5. `Inspection`: verified sellers, the way to transport.
6. `SolanaEscrow`, implementing the same promise, and the proofs.
7. `PlantationRound`, `GroveStaking`, `Grove`, and the proofs.
8. `RoundMirror`.
9. `RoutePlanning` and `Investments`, and the proofs of `Transport` and
   `Inspection`.
10. Proofs of `RoundMirror`, of the purchase cost, of the swaps, and of what
    `transport` and `inspection` promise while `calm`.
11. Proofs of `RoutePlanning`.

All of these are done. What could come next, in this order:

12. `Negotiation`, `Inspection` and `Transport` in the place of the abstractions that
   `TradeOperation` has of them. Each has millions of states alone, so this
   calls for proofs and not for TLC.

## 4. Runs

| run | instance | states | shows |
|---|---|---|---|
| `escrow` | 2 keys, 2 accounts, amounts 0 and 1 | 93,248 | `FundedIffOpen`, `Solvent`, `KeepsPromise` |
| `settlement` | 1 request, 2 promises, price 1, 2 cUSD, EXW; either escrow routes and failures or all writers of phase and metadata | 4,036,580 | `MetadataTruthful`, `NoEarlyPayout`, `OneLock` |
| `patient` | 2 requests, 2 promises, fair, nothing fails | 5,430 | `FundsLock`, `DeliveryReleases` |
| `overlap` | 1 request, 2 promises, fair | violated | `DeliveryReleases` |
| `requests` | 1 seller, 2 requests and the cron, fair as far as restarts let it, failures and restarts | 1,508,056 | `AgreementBacked`, `OverdueExpires` |
| `sequential` | 2 sellers, one graded, 2 prices, one request at a time | 901,180 | `FinalIsAgreed`, `TotalsMatch`, `InspectedOnce`, `NoDeadEnd`, `AcceptedIsFinal`, `AgreedAdvances` |
| `grove` | 2 wallets with 2 cUSD each, 2 shares, fee of one half; 2 rounds, or 1 round and 2 blocks | 1,458,552 | `Solvent`, `DividendsFair`, `NothingStranded`, `StakedIsHeld`, `EachBlockOnce` |
| `solana` | 2 trades, 2 wallets and an address nobody holds, amounts 0 and 1; or 2 calls of `executeSwap`, fair, with failures and restarts | 210,588 | `VaultsCover`, `KeepsPromise`; `OneExecuted`, `Concludes` |
| `transport` | 2 requests at a time, 2 transporters, 3 bids, 2 sellers | 431,580 | `SelectionAgrees`, `DeliveryNeedsPickups`, `DeliveryStands`, `NoBidLeftOpen`, `PhaseKeepsUp` |
| `inspection` | 2 requests at a time, 2 sellers, any of them graded, 2 inspections, 2 failing results; one after the other, overlapping, or beside requests without an await | 3,076,332 | `VerifiedWasVouched`, `LastWordCounts`, `VouchedTravel` |
| `route` | 4 or 2 pickups, a warehouse and a delivery at any places 0 to 3 of a line, nearest neighbour and 2-opt; the genetic search for 2 generations | 308,217 | `VisitsAsked`, `SettledFromTheEnd`, `Answers` |
| `mirror` | 2 handlers at a time, 1 crop, 2 rows, 2 rounds of 2 shares | 4,495,314 | `RowIsItsRound`, `MirrorAgrees`, `SharesAddUp` |

The properties:

* `FundedIffOpen`, `Solvent`: the fields of a deal agree, and the one balance
  covers all open deals at once. `KeepsPromise`: the contract implements
  `EscrowPromise`.
* `MetadataTruthful`: the database never claims a lock or a pay-out that the
  chain does not have, although promises overlap, overwrite each other and die.
  The converse does not hold: the chain may know more.
* `NoEarlyPayout`: the settlement pays nobody before `updatePhase` has written the
  release phase. `OneLock`: however often a lock is sent, one takes money.
* `FundsLock`, `DeliveryReleases`: IN_TRANSIT leads to a lock and DELIVERED to a
  payment, as long as nobody writes the next phase while a settlement is running
  and nothing fails.
* `AgreementBacked`: whoever is accepted has a price. `FinalIsAgreed`,
  `TotalsMatch`, `InspectedOnce`: between requests the two rows, the
  trade's purchase cost and the inspections fit together.
* `AcceptedIsFinal`: no request and no round of the cron that begins after an
  acceptance undoes it.
* `NoDeadEnd`, `AgreedAdvances`: as long as nobody is made a second offer (`fresh`), a seller
  who is asked can answer, and a trade whose sellers have all accepted moves on. That
  it moves on only then is not stated: other writers of the phase ask nobody (section 5).
* `OverdueExpires`: an open offer whose time is over is closed or given more time.
* `Solvent` (`PlantationRound`): the one cUSD balance covers the fees, the capital
  and the unclaimed harvest of all rounds at once. `DividendsFair`,
  `NothingStranded`: a share is paid its even part once, one at most the dust, and
  what is left of a harvest can be claimed by somebody. `StakedIsHeld`,
  `EachBlockOnce`: a staked share can be given back, and no block is paid twice.
* `VaultsCover`, `KeepsPromise` (`SolanaEscrow`): whoever is paid, each vault
  covers its own deal; with the right accounts the program is an escrow.
* `SelectionAgrees`, `DeliveryNeedsPickups`: in every interleaving, one bid is
  selected and it alone has a job, and nothing is delivered before every pickup was
  confirmed. `DeliveryStands`: what was delivered stays so and is not sent out again; the
  phase goes back once at most, with the late write of the request that opened the
  bidding. `NoBidLeftOpen`, `PhaseKeepsUp`: what else holds as long as requests do not
  overlap; both fail when they do.
* `VerifiedWasVouched`: in every interleaving, nobody is verified whose goods nothing ever
  spoke for, and no failure is noted that did not happen. `LastWordCounts`: as long as
  requests do not overlap, a seller is verified exactly if the last word on its goods, by a
  result, a patch or the grade its acceptance found, was good, and failed if it was bad.
  `VouchedTravel`: the transport request that a patch creates loads, of the sellers it
  has tested, only goods that something spoke for; without overlaps it loads no others, and the last
  word on each was good. Of transport requests made by hand nothing of this kind holds.
* `RowIsItsRound`: if rounds of a crop are created one after another, a row stands
  for its own round and names that round's tokens, whatever is lost, fails or overlaps, and
  claims no progress the contract has not made, with one exception: `distributeHarvest`
  writes DISTRIBUTING before the contract has been told, so a row it was the last to write
  only shows that its round is ACTIVE at least. `MirrorAgrees`: when nothing was
  lost, the row has caught up (or has that DISTRIBUTING). `SharesAddUp`: shares are numbered without gaps
  and not oversold by requests that do not overlap.
* `VisitsAsked`: whatever is reversed, crossed or cached, the truck visits each pickup
  of the request once. `SettledFromTheEnd`: where 2-opt stops, no other stop is
  nearer to the one that comes next, which is as much as the legs it compares allow;
  that it is no longer than what it started from is refuted. `Answers`: the
  rounds of 2-opt end although they may lengthen the route.
* `OneExecuted`: calls for a trade that do not overlap leave one EXECUTED row at most.
  `Concludes`: a row does not stay PENDING unless its call is cut off.

Each component with a proof has a type invariant, `TypeOK`; it is proved and so no run
repeats it. A run has one specification and checks what was wanted of that instance:
`solana` holds two parts that share no state, each explored with the other at rest.

**Bounds.** Two keys are the fewest that can take each other's money, and two
accounts let the buyer of one deal be the seller of another. The amounts 0 and 1
reach the guard of `createEscrow` and an empty wallet. A trade has one key, so
two promises and one more sender (the admin's route) give every pair of
overlapping settlements; 2 cUSD at price 1 let a second lock succeed if the
contract allowed it, and the admin may lock another amount. A third promise
adds a third reader of the same two flags, and the theorems hold for
any number. The run uses the early release phase, which the other writers can
reach from both sides; `patient` and `overlap` use the late one. The admin's routes
and the failures on one side and the other writers on the other are explored
separately, since both at once are more states than TLC holds; the theorems cover
them together. With two sellers "all accepted" differs
from "one accepted" and a total from a price; prices 1 and 3 have different
sums. One negotiation with two requests and the cron gives three writers to
one pair of rows. No counter is cut off: `inspections` is bounded by
the requests that find none. Two rounds share a balance, two shares of one round
make a last claim, dust and a repeated claim, and with a fee of one half the fees of
two single purchases differ from the fee of both. A stake needs two blocks to
earn and a second wallet to buy the share and stake it again. Three bids of two
transporters let one of them submit twice and let two acceptances meet while a
third bid arrives; two pickup points are the fewest of which one can be
lost. Two inspections are of one listing or of two; `MCInspection` explores requests that
do not overlap with both of them and overlaps with one, since both together are more states
than TLC finishes; the theorems cover them. Two rows of one crop are the
fewest that can be mistaken for each other. With four pickups 2-opt
reverses two stops and three, in the middle and at the end, and starts a second
turn of the outer loop; places 0 to 3 contain ties and routes that 2-opt lengthens.
A crossover of four keeps up to three stops of the other parent on both sides;
two generations make a child of a mutated child, and any two orders can be
parents. Two calls of a swap are one that fails and one that
repeats it, or two that overlap.
All bounds are named in the guards or in the CONSTANTS of the modules.

**Fairness.** `settle`, `mine`, `proceed`: the event loop resumes a promise whose
await is over, and a transaction that was sent is mined or reverted. The
writes of a phase are the second half of a request that already runs.
Weak fairness is enough for them, since nothing disables a resumed promise.
`sweepRead`: the cron comes round every minute. `expire` is strongly fair, because a
restart forgets what a round has read: the service need not stay up, but now and
then it must be up long enough for a round to end. No fairness is assumed
of users: nobody is obliged to send a request. The planner is one
function without an await: once begun, nothing else gets the thread (`Compute`).
A call of `executeSwap` is resumed, a transaction has a fate, and the wait for one that
was dropped throws. `Concludes` also assumes that the HTTP request for a quote ends, for which
the code sets no time limit (`investments.service.ts:41`): one that hangs for ever
leaves the row PENDING. `OverdueExpires` and `Concludes` hold with faults and restarts; the
liveness runs of the settlement have none, because the code retries nothing: a single lost
receipt refutes `FundsLock`, and no run pretends otherwise.

**One request at a time.** `sequential`, and the properties of `transport`,
`inspection`, `mirror` and `solana` that mention `calm`, state what must hold between
requests when requests do not overlap. In `SequentialNegotiation` a request begins when
none is in flight and no round of the cron runs, and nothing fails. They do overlap in production. The
properties of `settlement`, `requests` and `grove`, `VaultsCover`, `KeepsPromise`,
`SelectionAgrees`, `DeliveryNeedsPickups`, `DeliveryStands`, `VerifiedWasVouched`, the first
half of `VouchedTravel` and `RowIsItsRound` are those that survive it. The reader should not expect more
of the code: two overlapping acceptances create two inspections, the cron
expires an offer accepted in the meantime, a pickup is forgotten, a transporter
bids twice, shares are oversold, two swaps are executed. Section 5 lists them.

**The mutants.** Each property of a passing run has a variant of one
definition, written beside it in the module and marked as a mutant, for which
TLC finds the property violated: a dropped guard, a missing reset, a stale
read. They are used in no specification.

## 5. Disagreements between the code and its documents

One has a run; the counterexample is what TLC prints.

* `overlap`: DELIVERED is written while the lock of IN_TRANSIT is being mined; the
  second promise tries to lock again, the contract reverts, and the release is never
  sent.

Others were met while translating the code. Each is visible in the guards of the
action named.

Trades and negotiations:

* Two overlapping `updatePhase` calls: the later write leaves COMPLETED or
  CANCELLED (`updatePhaseWrite` has no guard on the phase). `README.md:111`: "Any
  phase can → CANCELLED — except COMPLETED."
* The cron expires an offer that was extended and accepted after it was read
  (`expire`). `docs/STATE_MACHINES.md:111` calls ACCEPTED terminal.
* `acceptBid` writes IN_TRANSIT without a lock. `README.md:171`: "Funds lock on
  `IN_TRANSIT`." `confirmDelivery` writes COMPLETED and starts no settlement.
  `README.md:49`: "Delivery confirmation triggers escrow release."
* A withdrawn negotiation can be countered, accepted or rejected (`counterOffer`,
  `acceptOffer`, `rejectOffer`). `docs/STATE_MACHINES.md:119`: "Cannot
  accept/reject a `WITHDRAWN` negotiation."
* A second offer to a seller whose negotiation is closed leaves the seller
  NEGOTIATING on it (`sendOffer`); the test named "throws ConflictException when
  negotiation already exists for seller" expects a refusal.
* `updatePhase` answers "All sellers must accept negotiations before advancing."
  (`trade-operation.service.ts:471`). `PUT :id` writes the phase of its body before it calls
  `updatePhase` (`:156-167`), and `createTransportRequest` (`transport.service.ts:257-264`) and
  `updateInspection` write TRANSPORT_MATCHING, without asking any seller.
* `create-offers` puts a trade whose sellers have all accepted back to
  SELLER_NEGOTIATION, and nothing moves it on again.
* A REJECTED seller stays attached and blocks `updatePhase` and `autoAdvancePhase`,
  which ask that every seller be ACCEPTED.

Routes and investments:

* The 2-opt route may be longer than the nearest-neighbour route. The reversal
  changes the legs after `i` and after `j`, and the code compares those before
  `i` and after `j`. `backend/tests/integration/transport-optimization.spec.ts:280`
  expects "better or equal results"; `tlc -config MCTwoOpt.cfg MCRoutePlanning` prints
  a counterexample.
* Two pickups of a request may have one id, since the controller passes ids on unchecked
  (`transport.controller.ts:278-282`). The genetic search recognises stops by id, so that a
  crossover may then drop one.
* A request for one algorithm gets the cached route of another, which
  says so (`fromCache`). `backend/test/integration/transport-optimization.e2e-spec.ts:160`
  expects the algorithm that was asked for.
* A call of `executeSwap` whose wait for a confirmation throws, or that a restart ends,
  leaves its position FAILED or PENDING; the transaction lands, and the next call for
  the trade swaps again. `investments.service.ts:64` calls its query for EXECUTED
  positions "Basic deduplication for trade-linked swaps".
* `confirmTransaction` does not throw for a transaction that reverted, and its result is
  not read: such a swap becomes EXECUTED (`confirmed`).

Inspections and transport:

* A patch to COMPLETED verifies the seller whatever the score says, a FAILED_INSPECTION
  one included (`verify`); a pass by `submitInspectionResults` verifies the seller
  and never moves the phase on.
* An acceptance verifies the seller of a listing that has a score and a grade
  (`grade`; `negotiation.service.ts:1449-1466`), whatever an inspection of this trade said
  before. `submitInspectionResults` gives the listing neither, a patch does (`cascade`); a score
  of 0 makes a listing ungraded (`:1450` tests the number as a boolean).
* A seller that fails an inspection while its negotiation is open may still be accepted.
  `autoCreateInspection` then finds the inspection that failed and creates none, so the
  seller is ACCEPTED, not verified, and nothing is pending that could verify it.
* POST `transport/requests` and the phase route take goods of sellers to transport that are not
  verified (`requestTransport`); only the automatic request asks.
* A transporter may bid twice by two submissions that overlap (`bidCheck`), although
  `submitBid` refuses a second active bid.
* `assignInspector` puts a COMPLETED inspection back to SCHEDULED, and its result
  may be submitted again.
* `rejectBid` tests no status: the selected bid of an assigned request may be
  rejected.
* `createTransportRequest` writes the phase after another await, so a trade that
  is already IN_TRANSIT may go back to TRANSPORT_MATCHING.
* `confirmPickup` tests no status and takes a COMPLETED job back to IN_TRANSIT or
  PICKING_UP; `docs/STATE_MACHINES.md:219-245` draws no such arrow.
* A bid that was checked before an acceptance and created after it stays PENDING on
  an ASSIGNED request (`bidCreate`).
* `docs/API_REFERENCE.md:774-812` lists routes for the transport settings; the
  controller has none, so nothing calls `transport-settings.service.ts`.

Escrow contracts:

* `docs/05-CONTRACTS.md:72` calls the functions of the Celo contract admin-only;
  anyone may create an escrow and its buyer may release it.
* The Solana engine of `escrow.service.ts` leaves the config account out of the
  keys of a release, a dispute, a resolution and a refund, which the program
  asks for; it gives up waiting for a confirmation after 15 seconds although the
  transaction may still land.
* Until somebody calls `initialize`, money can be locked in the Solana program and not
  be paid out; `trade_id` may be 64 bytes long although a seed of an address may
  have 32.

Plantation rounds:

* `PlantationRound.sol:178` says that the last claimer gets the dust; it is whoever
  makes the claim number `totalShares`, which may be a second claim of a share.
* A harvest smaller than the number of shares pays nobody until that many claims,
  none of which pays or counts, so it stays in the contract (the exception in
  `NothingStranded`).
* A share that is transferred to the staking contract without `stake` cannot be
  taken back, and `unstake` reverts while the contract cannot pay the yield.
* `setYieldRate` changes the yield of blocks that have passed.
* `distributeHarvest` of the backend writes DISTRIBUTING at once, although its comment says
  "event listener sets DISTRIBUTING in DB" (`plantation-rounds.service.ts:119`). When the
  transaction fails the row is ahead of its round, and nothing takes it back
  (`distributing`; the exception in `RowIsItsRound`).
* `harvestDeadline` is enforced nowhere.
* Two rounds of one crop created close to each other swap their numbers in the
  database (the history `orderly` excludes it); overlapping investments sell more
  shares than there are; tokens are given to placeholders by order and not by investor;
  `investInRound` never calls the contract; events emitted while the listener is
  down are never applied; a `CapitalUnlocked` that is handled late takes the status back
  from DISTRIBUTING.

## 6. Proofs

All are checked by TLAPS to the last leaf, for every value of the constants.

**`AgroEscrowProofs`**: any number of keys, accounts and amounts; assumes that
the deployer is an account, that the zero address and the contract are not
accounts, and that amounts are natural numbers. The invariant is
`IInv == TypeOK /\ FundedIffOpen /\ Ledger`. `FundedIffOpen` is needed because a
pay-out tests the state and moves the amount. Neither says that the
balance suffices, so `Ledger` carries the sum: a function of running totals over
the keys whose last value the balance covers. A sum over a set would need induction
on the set; the running total only has to be shifted by the amount of one key from
that key on (`LedgerShift`). `Solvent` follows, and `Refinement` maps each
state to a stage and each action to a step of `EscrowPromise` or to a stutter.

**`TradeOperationProofs`**: any number of requests and promises, either
release phase, any price and funds. `MetadataTruthful` alone is not inductive, as
a promise writes back a snapshot it took long ago, and so does a request that notes
a failed inspection. The invariant says of every place that holds knowledge of
the chain (the row, each snapshot of a promise or a request, each receipt)
that it is true, and `Forward` says that what is true of the chain stays
true: no function of the contract undoes a lock or a payment. `ReleasesDue` ties
each release in flight, orphans included, to the release phase. The contract's own
invariant is taken over from `AgroEscrowProofs` through `Lock`, an instance with the
accounts and amounts of the backend; `DrivesContract` says that the whole
backend makes only steps of the contract's specification.

**`NegotiationProofs`**: any sellers, offers and number of overlapping
requests, with failures and restarts between any two awaits. `AgreementBacked`
needs to know what the requests in flight carry: `CarriesOffer` (whoever will
write a price has one), `OnOffer` (a row that exists names its offer, a
countered one the counter offer), `AnswersOffer` (a request or a round of the cron that
will write to a row has read it, and `acceptOffer` has written the
seller's price when it comes to the negotiation's). `TypesKept` is the type invariant.

Its second half is about `SequentialNegotiation`: any number of sellers, offers and slots for requests, one of
which is in use at a time. What a request validated before an await is still true
after it, and the invariant says so, part by part: `Agreeing` (whoever will answer a
negotiation, the cron included, has found it not accepted, and the seller's row
already has the price that `conclude` will write), `Inspections` (an accepted listing is graded or has its
one inspection, or its acceptance is on the way there) and `Answerable` (an asked seller
has an open negotiation or is being released, while nobody got a second
offer). `Effects` reduces every stretch of a request to what it does to the rows and which
stretch follows; `Kinds` adds that nobody else is under way (`Alone`), so that the proofs
of the parts need not look at sixteen actions each. `Tallied` adds the purchase cost:
it is the sum of the agreed prices, or an acceptance is on its way to write it, and
the prices that one has read are still the agreed ones. That the sum of no prices is zero needs an
induction over the sellers, of which there are finitely many (`SellersAssumption`). It
is done as a smallest counterexample, a set of sellers with the fewest members for
which the sum is wrong, since the library's induction theorems cannot be used.

**`SolanaEscrowProofs`**: any number of trades, wallets and amounts. `VaultsCover`
needs the types and the parties of an open deal to be known. Vaults are separate, so
no sum is needed; the work is in a payment whose recipient is another vault
or the one that pays. `Refinement` takes `derived'` as a hypothesis of each step:
then the recipient is the named party, never a vault, and the step is one of
`EscrowPromise`. The swaps have an invariant of their own (`Exclusive`): while calls for a trade do not
overlap (`calm`), a call that is not over is the only one of its trade and finds no
EXECUTED position, and two EXECUTED positions of a trade are one. No trade is the value that stands for none
(`NoTradeAssumption`).

**`GroveProofs`**: any number of rounds, shares, wallets and blocks, any prices,
sales, rates and a fee of at most the whole. `IInv` adds to the types:

* `Life`: there is one token for each share sold
  (`Cardinality(TokensOf(r)) = rounds[r].sold`), so that the last claim is the last;
* `Book`: what was paid is the even part times the number of takers
  (`Base(r) * Cardinality(Takers(r))`), and the dust once one took it, with at most
  one token having more than the even part. `DividendsFair` and
  `NothingStranded` follow from it: as long as something is unpaid and the even part is
  not zero, some token has had less than it;
* the running total of `Due` over the rounds is covered by the balance. A purchase
  moves `price * k` in and raises `Due` by no more, because rounding down
  twice never exceeds rounding down once (`Fee(a) + Fee(b) <= Fee(a + b)`);
* every token that has a position is owned by the staking contract, and the blocks paid
  for end where the window begins.

**`TransportProofs`**: any number of bids, transporters, pickup points and
overlapping requests. `SelectionAgrees` is about rows that `acceptBid` and
`confirmDelivery` write at awaits apart, so the invariant also says what the requests
between two awaits carry: `Informed` (whoever is past the test of a status has read
it, and `acceptBid` in its transaction holds the row of its bid) and `Listed` (the
pickups a request will write back were all confirmed). Two acceptances of one
request are told apart by the job that the first to commit has made.
`DeliveryStands` is an action property; it adds `Bidding`: one request at most is between
opening the bidding and its write of the phase, none before there is a row, and the phase is in
transit or completed only with a bid selected, so that the late write can come once.
What is promised while requests do not overlap rests on `CalmInv`: one request is in
flight at most (`Alone`), so what it has read is still so when it writes (`Expects`: no
bid is selected, the bid exists), and `PhaseFollows` is
`PhaseKeepsUp` at every await, not only between requests.

Its last part is about `RoutePlanning`, with any pickups, distances, lists and number
of generations; it assumes that a request names one pickup at least and no pickup twice
(`AskedAssumption`; `route-optimization.service.ts:81` ensures the first, nothing the second). `RouteInv` says of the route in the making what its
stage has reached: the nearest-neighbour route is an order of the stops it has and
starts nearest to the warehouse (`Grows`); as long as a round of 2-opt has changed
nothing, every pair it tried is settled (`TriedAll`), and the bounds of the two loops
leave no pair out (`InLoops`, `NextPair`); the genetic search always has an order of
the pickups. The lemmas say that a reversal, an exchange and a crossover keep an
order an order. For the crossover (`Crossed`) the stops of the second parent that the segment
lacks must fill the other places exactly, which takes the cardinalities of
both (`OrderLength`), and the loop that collects them is a recursive function whose
values exist and are orders by the smallest counterexample (`Upwards`, `RestsExist`,
`NotUsed`). `ReversalsDescend` is the reason for `Answers`: a reversal shortens one leg
and leaves the later ones as they are, although the route may get longer.

**`InspectionProofs`**: any sellers, inspections and overlapping requests, any listings graded.
`Informed` says what a request carries: whoever is about to verify a seller, whether for
a result, a patch or a grade, has a good word on record (`WillVerify`), and so has every seller that a
patch has tested. `Tally` says that the failures noted, plus those that requests still owe, are
no more than results that failed. The latter counts a finite set of requests
(`CallsAssumption`), of which each step adds or removes one. While requests do not
overlap, `CalmInv` says that either all is at rest and sellers and metadata agree with
the last words, or one request is under way and the difference is what it is about to
write. `VouchedFirst` is an action property: its first half follows from `Informed`, its second
from what `CalmInv` says of a patch past its test (everybody who is accepted is verified, and
was when it tested).

**`RoundMirrorProofs`**: any crops, rounds, shares and number of handlers, any bounds. There are three
invariants, one for each property:

* `IInv`, for `RowIsItsRound`, holds whatever overlaps and is lost. `Told` says that
  every event on its way and every handler that has heard one is true of the
  contract, and stays so, since the contract only goes forward. `Numbered` says that
  a number is announced once, by one event, one handler or one row. `Expected`,
  which needs `orderly`, is what makes the guess of the listener right: the row
  a round was created for is the latest of its crop until the round is heard of (`Latest`), so
  the placeholder that `RoundCreated` picks by crop is that row. It also has the progress a row
  claims, for which the row remembers whether `distributeHarvest` wrote it last (`Claimed`): that handler has
  found the row ACTIVE, and this is all its DISTRIBUTING shows. `Tokens` says that the pairs
  a handler is about to write lead from placeholders of a row to tokens of its round.
* `CalmInv`, for `SharesAddUp`: one handler at most is under way, and a row has the
  shares it counts, or those and the ones that were just created (`Filled`). The
  cardinality comes from a bijection between the shares and their numbers.
* `FollowInv`, for `MirrorAgrees`: whatever a row lacks is on its way, as an event
  or with a handler (`Named`, `Followed`), and what is on its way is in order: a round is announced
  before its status, and ACTIVE before DISTRIBUTING (`InOrder`).

**Only model-checked**: the liveness properties (`FundsLock`, `DeliveryReleases`,
`OverdueExpires`, `AgreedAdvances`, `Concludes`, `Answers`), which TLAPS does not reach,
and the violation (`TwoOptNotLonger`).

## 7. Not modelled

`components` in `PROJECT.json` gives a reason for each part that is left out. Of the
lines of the repository, most are user interfaces (two web applications, a landing
page, a voice agent), scripts and seed data, simulations that drive the same
services, lists and reports, and records that are created, read, updated and
deleted one at a time. They keep no state that the modelled logic relies on and have
no order of steps that could go wrong between them, so a model of them would
restate their assignments. The models cover the services and contracts in which
several actors change one state.

Of the modelled parts, these are left out on purpose: authorisation (every action is
one that an authorised caller may take), wording, formats, notifications and
the log of events (no modelled decision reads them), and the Solana engine
under `TradeOperation` (its calls cannot succeed as they are, section 5).
The transport settings
have a service that nothing calls. Of the fleet (`transport-company`), the only
relation between records that an order of steps could break is the job a driver is on,
and no code ever sets it. The rows of staked shares in
the database (`grove-staking.service.ts`) are written before the chain is asked and
are never compared with it, so there is nothing to state about them.
