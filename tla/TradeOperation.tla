--------------------------- MODULE TradeOperation ---------------------------
(***************************************************************************)
(* One trade of the backend and the settlement that follows its phase:     *)
(* trade-operations/services/trade-operation.service.ts, the other writers *)
(* of the phase column (transport.service.ts, inspection.service.ts,       *)
(* trade-operation.controller.ts), escrow.service.ts and, through Celo,    *)
(* the escrow contract itself.                                             *)
(*                                                                         *)
(* A request runs on the event loop up to its next await, so a handler is  *)
(* split where it awaits the database or the chain, and everything else in *)
(* the system may happen in between.  calls are the requests between the   *)
(* read and the write of a phase; handlers are the handleEscrowActions     *)
(* promises that updatePhase starts and does not await.                    *)
(***************************************************************************)
EXTENDS Integers

CONSTANTS Calls,          \* slots for requests in flight
          Handlers,       \* slots for settlement promises in flight
          ReleasePhase,   \* INCOTERM_RELEASE_PHASE of the trade's incoterm
          Price,          \* sellingPrice, the amount locked
          Funds,          \* cUSD in the platform wallet at the start
          Wallet,         \* the platform's wallet: signer, buyer and seller
          Farmer,         \* a wallet the admin may name as the seller
          NoOne, Contract \* address(0), address of the escrow contract

INITIATION         == "INITIATION"
SELLER_MATCHING    == "SELLER_MATCHING"
SELLER_NEGOTIATION == "SELLER_NEGOTIATION"
INSPECTION_PENDING == "INSPECTION_PENDING"
TRANSPORT_MATCHING == "TRANSPORT_MATCHING"
TRANSPORT_BIDDING  == "TRANSPORT_BIDDING"
IN_TRANSIT         == "IN_TRANSIT"
DELIVERED          == "DELIVERED"
COMPLETED          == "COMPLETED"
CANCELLED          == "CANCELLED"
Phase == {INITIATION, SELLER_MATCHING, SELLER_NEGOTIATION, INSPECTION_PENDING,
          TRANSPORT_MATCHING, TRANSPORT_BIDDING, IN_TRANSIT, DELIVERED,
          COMPLETED, CANCELLED}

\* EXW and FCA release at SELLER_MATCHING, every other incoterm at DELIVERED.
INCOTERM_RELEASE_PHASE == {SELLER_MATCHING, DELIVERED}

ASSUME SettlementAssumption ==
  /\ ReleasePhase \in INCOTERM_RELEASE_PHASE
  /\ Price \in Nat \ {0} /\ Funds \in Nat
ASSUME WalletAssumption ==
  /\ NoOne # Contract /\ Wallet # Farmer
  /\ {Wallet, Farmer} \cap {NoOne, Contract} = {}

VARIABLES
  trade,          \* the row: phase, status, metadata
  sellersAgreed,  \* no seller of the trade has a status other than ACCEPTED
  transport,      \* the transport request and job: NONE, OPEN, ASSIGNED, COMPLETED
  calls, handlers,
  route,          \* amount POST escrow/create approved and will lock, or 0
  orphans,        \* transactions sent by a promise that no longer awaits them
  due,            \* history: updatePhase wrote the release phase
  paidBy,         \* history: who had the escrow paid out
  escrows, admin, pendingAdmin, balance, allowance   \* the chain

chain == <<escrows, admin, pendingAdmin, balance, allowance>>
row == <<trade, sellersAgreed, transport>>
history == <<due, paidBy>>
vars == <<trade, sellersAgreed, transport, calls, handlers, route, orphans,
          due, paidBy, escrows, admin, pendingAdmin, balance, allowance>>

\* The backend's only escrow key for this trade is ethers.id(trade id).
Key == 1
Celo == INSTANCE AgroEscrow WITH
  N <- 1, Accounts <- {Wallet, Farmer}, Deployer <- Wallet, Amounts <- Nat

onChain == escrows[Key].state

Metadata == [escrowCreated : BOOLEAN, escrowReleased : BOOLEAN]
Tx == {"approve", "create", "release"}
Call == [pc : {"idle", "write", "recheck", "finalize", "raw"}, target : Phase]
        \cup [pc : {"note"}, metadata : Metadata]
Settlement == [pc : {"idle", "read"}, phase : Phase, tx : {"none"},
               metadata : Metadata]
              \cup [pc : Tx, phase : Phase,
                    tx : {"pending", "mined", "reverted"}, metadata : Metadata]
Idle == [pc |-> "idle", target |-> CANCELLED]
Asleep == [pc |-> "idle", phase |-> IN_TRANSIT, tx |-> "none",
           metadata |-> [escrowCreated |-> FALSE, escrowReleased |-> FALSE]]

-----------------------------------------------------------------------------
(* updatePhase: a read that validates, then a write that does not look     *)
(* again, then a settlement promise that is not awaited.                   *)

getValidTransitions(current) ==
  CASE current = INITIATION         -> {SELLER_MATCHING, CANCELLED}
    [] current = SELLER_MATCHING    -> {SELLER_NEGOTIATION, CANCELLED}
    [] current = SELLER_NEGOTIATION -> {INSPECTION_PENDING,
                                        TRANSPORT_MATCHING, CANCELLED}
    [] current = INSPECTION_PENDING -> {TRANSPORT_MATCHING, CANCELLED}
    [] current = TRANSPORT_MATCHING -> {TRANSPORT_BIDDING, IN_TRANSIT, CANCELLED}
    [] current = TRANSPORT_BIDDING  -> {IN_TRANSIT, CANCELLED}
    [] current = IN_TRANSIT         -> {DELIVERED, CANCELLED}
    [] current = DELIVERED          -> {COMPLETED, CANCELLED}
    [] OTHER                        -> {}

Valid(p) ==
  /\ p \in getValidTransitions(trade.phase)
  /\ p \in {INSPECTION_PENDING, TRANSPORT_MATCHING} => sellersAgreed

\* Who calls it: the phase route, autoAdvancePhase, the buyer's confirmations.
updatePhaseRead(c, p) ==
  /\ calls[c].pc = "idle"
  /\ Valid(p)
  /\ calls' = [calls EXCEPT ![c] = [pc |-> "write", target |-> p]]
  /\ UNCHANGED <<row, handlers, route, orphans, history, chain>>

\* Mutant of Settles: only the release phase starts a settlement.
SettlesAtRelease(p) == p = ReleasePhase

\* handleEscrowActions reads and returns for the phases that settle nothing.
Settles(p) == p \in {IN_TRANSIT, ReleasePhase}

StartSettlement(p) ==
  IF Settles(p)
  THEN \E h \in Handlers :
         /\ handlers[h].pc = "idle"
         /\ handlers' = [handlers EXCEPT ![h] =
                           [pc |-> "read", phase |-> p, tx |-> "none",
                            metadata |-> Asleep.metadata]]
  ELSE UNCHANGED handlers

updatePhaseWrite(c) ==
  /\ calls[c].pc = "write"
  /\ trade' = [trade EXCEPT !.phase = calls[c].target]
  /\ due' = (due \/ calls[c].target = ReleasePhase)
  /\ StartSettlement(calls[c].target)
  /\ calls' = [calls EXCEPT ![c] = Idle]
  /\ UNCHANGED <<sellersAgreed, transport, route, orphans, paidBy, chain>>

-----------------------------------------------------------------------------
(* handleEscrowActions: one read of the row at the start, whose metadata   *)
(* every later write of the promise starts from.                           *)

\* A transaction is sent; the promise waits for its receipt.
Send(h, tx, metadata) ==
  handlers' = [handlers EXCEPT ![h] =
                 [pc |-> tx, phase |-> handlers[h].phase, tx |-> "pending",
                  metadata |-> metadata]]

Return(h) == handlers' = [handlers EXCEPT ![h] = Asleep]

\* Mutant of ReleaseDue: whatever the phase, a lock is released.
ReleaseAnyPhase(h, metadata) == ~metadata.escrowReleased

ReleaseDue(h, metadata) ==
  ~metadata.escrowReleased /\ handlers[h].phase = ReleasePhase

settlementRead(h) ==
  /\ handlers[h].pc = "read"
  /\ LET m == trade.metadata
     IN  IF ~m.escrowCreated THEN Send(h, "approve", m)
         ELSE IF ReleaseDue(h, m) THEN Send(h, "release", m)
         ELSE Return(h)
  /\ UNCHANGED <<row, calls, route, orphans, history, chain>>

\* Mutant of Mined: a hash is taken for a receipt.
SentOnly(h, tx) == handlers[h].pc = tx /\ handlers[h].tx \in {"pending", "mined"}

Mined(h, tx) == handlers[h].pc = tx /\ handlers[h].tx = "mined"

\* escrow.service createEscrow: the approval is mined, then the lock is sent.
approved(h) ==
  /\ Mined(h, "approve")
  /\ Send(h, "create", handlers[h].metadata)
  /\ UNCHANGED <<row, calls, route, orphans, history, chain>>

\* Mutant of created: the lock is not recorded.
createdUnrecorded(h) ==
  /\ Mined(h, "create")
  /\ IF ReleaseDue(h, handlers[h].metadata)
     THEN Send(h, "release", handlers[h].metadata)
     ELSE Return(h)
  /\ UNCHANGED <<row, calls, route, orphans, history, chain>>

created(h) ==
  /\ Mined(h, "create")
  /\ trade' = [trade EXCEPT !.metadata =
                 [handlers[h].metadata EXCEPT !.escrowCreated = TRUE]]
  /\ IF ReleaseDue(h, handlers[h].metadata)
     THEN Send(h, "release", handlers[h].metadata)
     ELSE Return(h)
  /\ UNCHANGED <<sellersAgreed, transport, calls, route, orphans, history,
                 chain>>

\* Writes the metadata read at the start, not what created just wrote.
released(h) ==
  /\ Mined(h, "release")
  /\ trade' = [trade EXCEPT !.metadata =
                 [handlers[h].metadata EXCEPT !.escrowReleased = TRUE]]
  /\ Return(h)
  /\ UNCHANGED <<sellersAgreed, transport, calls, route, orphans, history,
                 chain>>

\* The wait for the receipt throws: updatePhase logs it and nobody retries.
rejected(h) ==
  /\ handlers[h].tx = "reverted"
  /\ Return(h)
  /\ UNCHANGED <<row, calls, route, orphans, history, chain>>

settle(h) == \/ settlementRead(h) \/ approved(h) \/ created(h) \/ released(h)
             \/ rejected(h)

-----------------------------------------------------------------------------
(* The chain.                                                              *)

\* The contract's require lines for the platform wallet.
Reverts(tx) ==
  \/ /\ tx = "create"
     /\ \/ escrows[Key].buyer # NoOne
        \/ balance[Wallet] < Price \/ allowance[Wallet] < Price
  \/ tx = "release" /\ onChain # Celo!AWAITING_DELIVERY

Execute(tx) ==
  \/ tx = "approve" /\ Celo!approve(Wallet, Price) /\ UNCHANGED paidBy
  \/ tx = "create" /\ Celo!createEscrow(Wallet, Key, Wallet, Price)
                   /\ UNCHANGED paidBy
  \/ tx = "release" /\ Celo!releaseFunds(Wallet, Key)
                    /\ paidBy' = "settlement"

mine(h) ==
  /\ handlers[h].tx = "pending"
  /\ \/ /\ Execute(handlers[h].pc)
        /\ handlers' = [handlers EXCEPT ![h].tx = "mined"]
     \/ /\ Reverts(handlers[h].pc)
        /\ handlers' = [handlers EXCEPT ![h].tx = "reverted"]
        /\ UNCHANGED <<paidBy, chain>>
  /\ UNCHANGED <<row, calls, route, orphans, due>>

\* Seller statuses move in the negotiation service.
sellersChange ==
  /\ sellersAgreed' = ~sellersAgreed
  /\ UNCHANGED <<trade, transport, calls, handlers, route, orphans, history,
                 chain>>

Core == \/ \E c \in Calls : \/ \E p \in Phase : updatePhaseRead(c, p)
                            \/ updatePhaseWrite(c)
        \/ \E h \in Handlers : settle(h) \/ mine(h)
        \/ sellersChange

-----------------------------------------------------------------------------
(* The escrow routes of the admin: the same engine, no metadata.           *)

adminApproves(amt) ==
  /\ route = 0
  /\ Celo!approve(Wallet, amt)
  /\ route' = amt
  /\ UNCHANGED paidBy

\* The lock is sent, or the request dies after the approval.
adminCreates(seller) ==
  /\ route > 0
  /\ Celo!createEscrow(Wallet, Key, seller, route) \/ UNCHANGED chain
  /\ route' = 0
  /\ UNCHANGED paidBy

adminDisputes == Celo!raiseDispute(Wallet, Key) /\ UNCHANGED <<route, paidBy>>

adminPays ==
  /\ \/ Celo!releaseFunds(Wallet, Key)
     \/ \E toBuyer \in BOOLEAN : Celo!resolveDispute(Wallet, Key, toBuyer)
     \/ Celo!refund(Wallet, Key)
  /\ paidBy' = "admin"
  /\ UNCHANGED route

escrowRoutes ==
  /\ \/ \E amt \in 1..Funds : adminApproves(amt)
     \/ \E seller \in {Wallet, Farmer} : adminCreates(seller)
     \/ adminDisputes
     \/ adminPays
  /\ UNCHANGED <<row, calls, handlers, orphans, due>>

-----------------------------------------------------------------------------
(* The other writers of the phase.  None validates the transition and none *)
(* starts a settlement.                                                    *)

WritePhase(p) == trade' = [trade EXCEPT !.phase = p]
untouched == <<sellersAgreed, handlers, route, orphans, history, chain>>

\* PUT :id writes the dto as it is, then asks updatePhase for the same phase.
update(c, p) ==
  /\ calls[c].pc = "idle"
  /\ WritePhase(p)
  /\ calls' = [calls EXCEPT ![c] = [pc |-> "recheck", target |-> p]]
  /\ UNCHANGED <<transport, untouched>>

updateRecheck(c) ==
  /\ calls[c].pc = "recheck"
  /\ calls' = IF Valid(calls[c].target) THEN [calls EXCEPT ![c].pc = "write"]
              ELSE [calls EXCEPT ![c] = Idle]
  /\ UNCHANGED <<trade, transport, untouched>>

\* POST :id/create-offers and POST / end with this write, sendOffer makes it
\* when the phase it read some awaits ago was an early one.
setInitialNegotiationPhase ==
  /\ WritePhase(SELLER_NEGOTIATION)
  /\ UNCHANGED <<transport, calls, untouched>>

finalizeTradeRead(c) ==
  /\ calls[c].pc = "idle"
  /\ trade.phase = DELIVERED
  /\ calls' = [calls EXCEPT ![c] = [pc |-> "finalize", target |-> COMPLETED]]
  /\ UNCHANGED <<trade, transport, untouched>>

finalizeTradeWrite(c) ==
  /\ calls[c].pc = "finalize"
  /\ trade' = [trade EXCEPT !.status = "COMPLETED", !.phase = COMPLETED]
  /\ calls' = [calls EXCEPT ![c] = Idle]
  /\ UNCHANGED <<transport, untouched>>

\* createTransportRequest writes its own table first and the phase after
\* another await.
rawWrite(c) ==
  /\ calls[c].pc = "raw"
  /\ WritePhase(calls[c].target)
  /\ calls' = [calls EXCEPT ![c] = Idle]
  /\ UNCHANGED <<transport, untouched>>

createTransportRequest(c) ==
  /\ calls[c].pc = "idle"
  /\ transport = "NONE"
  /\ transport' = "OPEN"
  /\ calls' = [calls EXCEPT ![c] = [pc |-> "raw", target |-> TRANSPORT_MATCHING]]
  /\ UNCHANGED <<trade, untouched>>

\* updateInspection, once every accepted seller is verified.
inspectionsVerified ==
  /\ WritePhase(TRANSPORT_MATCHING)
  /\ UNCHANGED <<transport, calls, untouched>>

acceptBid ==
  /\ transport = "OPEN"
  /\ transport' = "ASSIGNED"
  /\ WritePhase(IN_TRANSIT)
  /\ UNCHANGED <<calls, untouched>>

confirmDelivery ==
  /\ transport \in {"ASSIGNED", "COMPLETED"}
  /\ transport' = "COMPLETED"
  /\ WritePhase(COMPLETED)
  /\ UNCHANGED <<calls, untouched>>

AdminWriters ==
  \/ \E c \in Calls : \/ \E p \in Phase : update(c, p)
                      \/ updateRecheck(c)
                      \/ finalizeTradeRead(c) \/ finalizeTradeWrite(c)
  \/ setInitialNegotiationPhase \/ inspectionsVerified

TransportWriters ==
  \/ \E c \in Calls : \/ createTransportRequest(c)
                      \/ rawWrite(c)
  \/ acceptBid \/ confirmDelivery

\* submitInspectionResults of a listing that fails adds a note to the metadata
\* it has read, the flags of the escrow included, and writes the whole back.
inspectionFailed(c) ==
  /\ calls[c].pc = "idle"
  /\ calls' = [calls EXCEPT ![c] = [pc |-> "note", metadata |-> trade.metadata]]
  /\ UNCHANGED <<trade, transport, untouched>>

inspectionNoted(c) ==
  /\ calls[c].pc = "note"
  /\ trade' = [trade EXCEPT !.metadata = calls[c].metadata]
  /\ calls' = [calls EXCEPT ![c] = Idle]
  /\ UNCHANGED <<transport, untouched>>

InspectionWriters == \E c \in Calls : inspectionFailed(c) \/ inspectionNoted(c)

OtherWriters == AdminWriters \/ TransportWriters \/ InspectionWriters

-----------------------------------------------------------------------------
(* What goes wrong.                                                        *)

\* A promise throws while it waits: the RPC node or the database fails.  A
\* transaction already sent may land.
throws(h) ==
  /\ handlers[h].pc # "idle"
  /\ Return(h)
  /\ orphans' = IF handlers[h].tx = "pending"
                THEN orphans \cup {handlers[h].pc} ELSE orphans
  /\ UNCHANGED <<row, calls, route, history, chain>>

orphanLands(tx) ==
  /\ tx \in orphans
  /\ orphans' = orphans \ {tx}
  /\ Execute(tx) \/ (Reverts(tx) /\ UNCHANGED <<paidBy, chain>>)
  /\ UNCHANGED <<row, calls, handlers, route, due>>

\* The process restarts: requests and promises live in memory only.
crash ==
  /\ calls' = [c \in Calls |-> Idle]
  /\ handlers' = [h \in Handlers |-> Asleep]
  /\ orphans' = orphans \cup
       {handlers[h].pc : h \in {g \in Handlers : handlers[g].tx = "pending"}}
  /\ route' = 0
  /\ UNCHANGED <<row, history, chain>>

Faults == \/ \E h \in Handlers : throws(h)
          \/ \E tx \in Tx : orphanLands(tx)
          \/ crash

-----------------------------------------------------------------------------
Init ==
  /\ trade = [phase |-> INITIATION, status |-> "ACTIVE",
              metadata |-> Asleep.metadata]
  /\ sellersAgreed = TRUE
  /\ transport = "NONE"
  /\ calls = [c \in Calls |-> Idle]
  /\ handlers = [h \in Handlers |-> Asleep]
  /\ route = 0 /\ orphans = {} /\ due = FALSE /\ paidBy = "nobody"
  /\ escrows = [k \in {Key} |-> Celo!NoEscrow]
  /\ admin = Wallet /\ pendingAdmin = NoOne
  /\ balance = [p \in {Wallet, Farmer, Contract} |->
                  IF p = Wallet THEN Funds ELSE 0]
  /\ allowance = [a \in {Wallet, Farmer} |-> 0]

\* Everything that can happen.
Next == Core \/ escrowRoutes \/ OtherWriters \/ Faults
Spec == Init /\ [][Next]_vars

\* updatePhase is the only writer and nothing fails.
CoreSpec == Init /\ [][Core]_vars

\* The event loop resumes a promise whose await is over, and a transaction
\* that was sent is mined.  Nobody is obliged to send a request.
Fairness == /\ \A h \in Handlers : WF_vars(settle(h)) /\ WF_vars(mine(h))
            /\ \A c \in Calls : WF_vars(updatePhaseWrite(c))
FairCoreSpec == CoreSpec /\ Fairness

\* Nobody writes the next phase before the settlement of the last is over.
Patient == \A h \in Handlers : handlers[h].pc = "idle"
PatientCore == Core /\ (trade'.phase # trade.phase => Patient)
PatientSpec == Init /\ [][PatientCore]_vars /\ Fairness

-----------------------------------------------------------------------------
(* Properties.                                                             *)

BackendType ==
  /\ trade \in [phase : Phase, status : {"ACTIVE", "COMPLETED"},
                metadata : Metadata]
  /\ sellersAgreed \in BOOLEAN
  /\ transport \in {"NONE", "OPEN", "ASSIGNED", "COMPLETED"}
  /\ calls \in [Calls -> Call]
  /\ handlers \in [Handlers -> Settlement]
  /\ route \in 0..Funds
  /\ orphans \subseteq Tx
  /\ due \in BOOLEAN
  /\ paidBy \in {"nobody", "settlement", "admin"}

\* Every variable has its type, the contract's own included.
TypeOK == BackendType /\ Celo!TypeOK

Truthful(metadata) ==
  /\ metadata.escrowCreated => onChain # Celo!AWAITING_PAYMENT
  /\ metadata.escrowReleased => onChain = Celo!COMPLETE

\* The database never says more than the chain: escrowCreated stands for a
\* lock that was mined and escrowReleased for money that was paid, whatever
\* promises overlap, overwrite each other's metadata, throw or are lost in a
\* restart.
MetadataTruthful == Truthful(trade.metadata)

\* The settlement of handleEscrowActions pays nobody before the trade has
\* been written to the release phase of its incoterm.
NoEarlyPayout == paidBy = "settlement" => due

\* However often the lock is sent again (a repeated phase, a retry by the
\* admin, a transaction whose sender died), one lock at most takes money:
\* the contract holds one amount while the deal is open and nothing else.
OneLock == balance[Contract] = IF onChain \in Celo!Open
                               THEN escrows[Key].amount ELSE 0

\* IN_TRANSIT, written by updatePhase, eventually locks the buyer's money, by
\* its own settlement or by an earlier one.
FundsLock == trade.phase = IN_TRANSIT ~> onChain # Celo!AWAITING_PAYMENT

\* Delivery eventually pays the seller: "Delivery confirmation triggers escrow
\* release" (README.md:49), whether the lock came first or is still missing.
DeliveryReleases == trade.phase = DELIVERED ~> onChain = Celo!COMPLETE
=============================================================================
