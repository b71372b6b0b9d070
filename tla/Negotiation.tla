---------------------------- MODULE Negotiation ----------------------------
(***************************************************************************)
(* The negotiations of one trade with its sellers:                         *)
(* negotiations/services/negotiation.service.ts, the expiry cron beside it *)
(* and the part of trade-operation.service.ts that adds sellers and moves  *)
(* the phase when they agree.  Other writers of the phase, which ask no    *)
(* seller (PUT :id, the transport request, a verified inspection), are not *)
(* here: the phase is that of a trade that only its agreements move on.    *)
(*                                                                         *)
(* Nothing here runs in one transaction but the cron's two updates: a      *)
(* request reads, validates what it read, and writes the seller, the       *)
(* negotiation, the totals, the inspection and the phase one await after   *)
(* the other.  calls are the requests in flight; every action of a call    *)
(* but the first is the code between two awaits.                           *)
(***************************************************************************)
EXTENDS Integers, FiniteSets, FiniteSetsExt

CONSTANTS Sellers,         \* sale listings that may join the trade
          Graded,          \* those with a quality grade before the trade
          Offers,          \* what an offer costs, price times quantity
          Calls            \* slots for requests in flight

ASSUME OfferAssumption == Offers \subseteq Nat \ {0}
ASSUME SellersAssumption == IsFiniteSet(Sellers)
ASSUME GradedAssumption == Graded \subseteq Sellers

VARIABLES
  phase,        \* SELLER_MATCHING and before, SELLER_NEGOTIATION, or after
  seller,       \* rows of TradeSeller
  negotiation,  \* rows of OfferNegotiation
  listed,       \* sellers whose listing is ACTIVE
  total,        \* totalPurchaseCost of the trade
  inspections,  \* number of inspection requests of each listing
  calls,
  sweep         \* what the running cron has read and not expired yet

vars == <<phase, seller, negotiation, listed, total, inspections, calls, sweep>>

SELLER_MATCHING    == "SELLER_MATCHING"
SELLER_NEGOTIATION == "SELLER_NEGOTIATION"
AGREED == "AGREED"   \* INSPECTION_PENDING, or TRANSPORT_MATCHING for EXW, FCA
Phase == {SELLER_MATCHING, SELLER_NEGOTIATION, AGREED}

INVITED     == "INVITED"
NEGOTIATING == "NEGOTIATING"
PENDING     == "PENDING"
COUNTERED   == "COUNTERED"
ACCEPTED    == "ACCEPTED"
REJECTED    == "REJECTED"
WITHDRAWN   == "WITHDRAWN"
EXPIRED     == "EXPIRED"
SellerStatus == {INVITED, NEGOTIATING, ACCEPTED, REJECTED, WITHDRAWN}
NegotiationStatus == {PENDING, COUNTERED, ACCEPTED, REJECTED, EXPIRED, WITHDRAWN}

\* "none" stands for a row that does not exist, 0 for an empty column.
Offer == Offers \cup {0}
TradeSeller == [status : SellerStatus \cup {"none"}, agreed : Offer,
                isVerified : BOOLEAN]
OfferNegotiation == [status : NegotiationStatus \cup {"none"}, currentOffer : Offer,
                     counterOffer : Offer, final : Offer, late : BOOLEAN]

Attached == {s \in Sellers : seller[s].status # "none"}
AllAccepted == \A s \in Attached : seller[s].status = ACCEPTED
Negotiated(s) == negotiation[s].status # "none"

\* A request past its first await: what it does next, for whom, the offer it
\* carries, what it saw (an early phase, a late offer, or all accepted), the
\* status it closes with and the agreed prices it has read.
Step == {"offer", "send", "engage", "phase", "counter", "agree", "conclude",
         "totals", "record", "check", "inspect", "advance", "write", "close",
         "release", "relist", "extend"}
Idle == [pc |-> "idle"]
Request == [pc : Step, s : Sellers, amount : Offer, saw : BOOLEAN,
            verdict : {REJECTED, WITHDRAWN}, prices : [Sellers -> Offer]]

NoPrices == [s \in Sellers |-> 0]
New(pc, s, amount, saw, verdict) ==
  [pc |-> pc, s |-> s, amount |-> amount, saw |-> saw, verdict |-> verdict,
   prices |-> NoPrices]
Start(c, request) == calls[c] = Idle /\ calls' = [calls EXCEPT ![c] = request]
Begin(c, pc, s, amount, saw) == Start(c, New(pc, s, amount, saw, REJECTED))
Go(c, pc) == calls' = [calls EXCEPT ![c].pc = pc]
Return(c) == calls' = [calls EXCEPT ![c] = Idle]

-----------------------------------------------------------------------------
(* Sellers and offers.                                                     *)

\* A listing that is attached already is refused, by the check or the index.
addSellersToTrade(c, s) ==
  /\ calls[c] = Idle
  /\ seller[s].status = "none"
  /\ seller' = [seller EXCEPT ![s].status = INVITED]
  /\ UNCHANGED <<phase, negotiation, listed, total, inspections, calls, sweep>>

\* The upsert of the seller; a batch is one seller after another.
createTradeSellersWithOffers(c, s, o) ==
  /\ Begin(c, "offer", s, o, FALSE)
  /\ seller' = [seller EXCEPT ![s].status = IF @ = "none" THEN INVITED ELSE @]
  /\ UNCHANGED <<phase, negotiation, listed, total, inspections, sweep>>

sendOffer(c, s, o) ==
  /\ s \in Attached
  /\ Begin(c, "send", s, o, phase = SELLER_MATCHING)
  /\ UNCHANGED <<phase, seller, negotiation, listed, total, inspections, sweep>>

\* An update leaves the status, the counter offer and the outcome alone.
Upserted(s, o) ==
  [negotiation EXCEPT ![s] =
     IF @.status = "none"
     THEN [status |-> PENDING, currentOffer |-> o, counterOffer |-> 0,
           final |-> 0, late |-> FALSE]
     ELSE [@ EXCEPT !.currentOffer = o, !.late = FALSE]]

upsert(c) ==
  /\ \/ calls[c].pc = "offer" /\ Go(c, "phase")
     \/ calls[c].pc = "send" /\ Go(c, "engage")
  /\ negotiation' = Upserted(calls[c].s, calls[c].amount)
  /\ UNCHANGED <<phase, seller, listed, total, inspections, sweep>>

engage(c) ==
  /\ calls[c].pc = "engage"
  /\ seller' = [seller EXCEPT ![calls[c].s].status = NEGOTIATING]
  /\ IF calls[c].saw THEN Go(c, "phase") ELSE Return(c)
  /\ UNCHANGED <<phase, negotiation, listed, total, inspections, sweep>>

setInitialNegotiationPhase(c) ==
  /\ calls[c].pc = "phase"
  /\ phase' = SELLER_NEGOTIATION
  /\ Return(c)
  /\ UNCHANGED <<seller, negotiation, listed, total, inspections, sweep>>

counterOffer(c, s, o) ==
  /\ Negotiated(s)
  /\ negotiation[s].status \notin {ACCEPTED, REJECTED, EXPIRED}
  /\ Begin(c, "counter", s, o, FALSE)
  /\ UNCHANGED <<phase, seller, negotiation, listed, total, inspections, sweep>>

counterWrite(c) ==
  /\ calls[c].pc = "counter"
  /\ negotiation' = [negotiation EXCEPT ![calls[c].s].status = COUNTERED,
                       ![calls[c].s].counterOffer = calls[c].amount]
  /\ Return(c)
  /\ UNCHANGED <<phase, seller, listed, total, inspections, sweep>>

-----------------------------------------------------------------------------
(* acceptOffer.                                                            *)

\* Mutant of FinalOffer: the counter offer, whether there is one or not.
LastCounter(s) == negotiation[s].counterOffer

FinalOffer(s) == IF negotiation[s].status = COUNTERED
                 THEN negotiation[s].counterOffer
                 ELSE negotiation[s].currentOffer

acceptOffer(c, s) ==
  /\ Negotiated(s)
  /\ negotiation[s].status \notin {ACCEPTED, REJECTED, EXPIRED}
  /\ ~negotiation[s].late
  /\ Begin(c, "agree", s, FinalOffer(s), FALSE)
  /\ UNCHANGED <<phase, seller, negotiation, listed, total, inspections, sweep>>

agree(c) ==
  /\ calls[c].pc = "agree"
  /\ seller' = [seller EXCEPT ![calls[c].s].status = ACCEPTED,
                              ![calls[c].s].agreed = calls[c].amount]
  /\ Go(c, "conclude")
  /\ UNCHANGED <<phase, negotiation, listed, total, inspections, sweep>>

\* Mutants of conclude: the price is read again; the negotiations are asked
\* before this one is written.
concludeCurrent(c) ==
  /\ calls[c].pc = "conclude"
  /\ negotiation' = [negotiation EXCEPT ![calls[c].s].status = ACCEPTED,
                       ![calls[c].s].final = negotiation[calls[c].s].currentOffer]
  /\ calls' = [calls EXCEPT ![c].pc = "totals", ![c].saw = AllAccepted]
  /\ UNCHANGED <<phase, seller, listed, total, inspections, sweep>>
concludeEarly(c) ==
  /\ calls[c].pc = "conclude"
  /\ negotiation' = [negotiation EXCEPT ![calls[c].s].status = ACCEPTED,
                                        ![calls[c].s].final = calls[c].amount]
  /\ calls' = [calls EXCEPT ![c].pc = "totals", ![c].saw =
       \A s \in Attached : negotiation[s].status = ACCEPTED]
  /\ UNCHANGED <<phase, seller, listed, total, inspections, sweep>>

\* The update returns the sellers of the trade as they are now.
conclude(c) ==
  /\ calls[c].pc = "conclude"
  /\ negotiation' = [negotiation EXCEPT ![calls[c].s].status = ACCEPTED,
                                        ![calls[c].s].final = calls[c].amount]
  /\ calls' = [calls EXCEPT ![c].pc = "totals", ![c].saw = AllAccepted]
  /\ UNCHANGED <<phase, seller, listed, total, inspections, sweep>>

Prices == [s \in Sellers |-> seller[s].agreed]
Cost(prices) == MapThenSumSet(LAMBDA s : prices[s], Sellers)

\* Mutant of totalsRead: takes what is on offer now.
totalsReadOffers(c) ==
  /\ calls[c].pc = "totals"
  /\ calls' = [calls EXCEPT ![c].pc = "record", ![c].prices =
       [s \in Sellers |-> negotiation[s].currentOffer]]
  /\ UNCHANGED <<phase, seller, negotiation, listed, total, inspections, sweep>>

\* updateTradeOperationTotals, which adds up whatever has an agreed price.
totalsRead(c) ==
  /\ calls[c].pc = "totals"
  /\ calls' = [calls EXCEPT ![c].pc = "record", ![c].prices = Prices]
  /\ UNCHANGED <<phase, seller, negotiation, listed, total, inspections, sweep>>

totalsWrite(c) ==
  /\ calls[c].pc = "record"
  /\ total' = Cost(calls[c].prices)
  /\ calls' = [calls EXCEPT ![c].pc = "check", ![c].prices = NoPrices]
  /\ UNCHANGED <<phase, seller, negotiation, listed, inspections, sweep>>

AfterInspection(c) == IF calls[c].saw THEN Go(c, "advance") ELSE Return(c)

\* Mutant of inspectionCheck: a graded listing is skipped and not marked.
inspectionCheckUnmarked(c) ==
  /\ calls[c].pc = "check"
  /\ IF calls[c].s \in Graded \/ inspections[calls[c].s] > 0
     THEN AfterInspection(c) ELSE Go(c, "inspect")
  /\ UNCHANGED <<phase, seller, negotiation, listed, total, inspections, sweep>>

\* autoCreateInspection: a graded listing needs none, a listing that has one
\* gets no second, or the listing is inspected.
inspectionCheck(c) ==
  /\ calls[c].pc = "check"
  /\ LET s == calls[c].s
     IN  \/ /\ s \in Graded
            /\ seller' = [seller EXCEPT ![s].isVerified = TRUE]
            /\ AfterInspection(c)
         \/ /\ s \notin Graded
            /\ IF inspections[s] > 0 THEN AfterInspection(c)
               ELSE Go(c, "inspect")
            /\ UNCHANGED seller
  /\ UNCHANGED <<phase, negotiation, listed, total, inspections, sweep>>

createInspectionRequest(c) ==
  /\ calls[c].pc = "inspect"
  /\ inspections' = [inspections EXCEPT ![calls[c].s] = @ + 1]
  /\ AfterInspection(c)
  /\ UNCHANGED <<phase, seller, negotiation, listed, total, sweep>>

\* autoAdvancePhase and the validating half of the updatePhase it calls: the
\* two reads are one step, because only what the second saw decides.
autoAdvancePhase(c) ==
  /\ calls[c].pc = "advance"
  /\ IF phase = SELLER_NEGOTIATION /\ Attached # {} /\ AllAccepted
     THEN Go(c, "write") ELSE Return(c)
  /\ UNCHANGED <<phase, seller, negotiation, listed, total, inspections, sweep>>

\* The phase route of the admin.  s is of no interest to it.
updatePhase(c, s) ==
  /\ phase = SELLER_NEGOTIATION /\ AllAccepted
  /\ Begin(c, "write", s, 0, FALSE)
  /\ UNCHANGED <<phase, seller, negotiation, listed, total, inspections, sweep>>

phaseWrite(c) ==
  /\ calls[c].pc = "write"
  /\ phase' = AGREED
  /\ Return(c)
  /\ UNCHANGED <<seller, negotiation, listed, total, inspections, sweep>>

-----------------------------------------------------------------------------
(* rejectOffer, withdrawOffer, extendExpiry.                               *)

\* Mutant of rejectOffer: what was accepted may be rejected.
rejectAnyOffer(c, s) ==
  /\ Negotiated(s)
  /\ negotiation[s].status # REJECTED
  /\ Begin(c, "close", s, 0, FALSE)
  /\ UNCHANGED <<phase, seller, negotiation, listed, total, inspections, sweep>>

rejectOffer(c, s) ==
  /\ Negotiated(s)
  /\ negotiation[s].status \notin {ACCEPTED, REJECTED}
  /\ Begin(c, "close", s, 0, FALSE)
  /\ UNCHANGED <<phase, seller, negotiation, listed, total, inspections, sweep>>

withdrawOffer(c, s) ==
  /\ Negotiated(s)
  /\ negotiation[s].status \notin {ACCEPTED, WITHDRAWN}
  /\ Start(c, New("close", s, 0, FALSE, WITHDRAWN))
  /\ UNCHANGED <<phase, seller, negotiation, listed, total, inspections, sweep>>

closeNegotiation(c) ==
  /\ calls[c].pc = "close"
  /\ negotiation' = [negotiation EXCEPT ![calls[c].s].status = calls[c].verdict]
  /\ Go(c, "release")
  /\ UNCHANGED <<phase, seller, listed, total, inspections, sweep>>

\* Mutant of releaseSeller: the seller's row is forgotten.
releaseNobody(c) ==
  /\ calls[c].pc = "release"
  /\ Go(c, "relist")
  /\ UNCHANGED <<phase, seller, negotiation, listed, total, inspections, sweep>>

releaseSeller(c) ==
  /\ calls[c].pc = "release"
  /\ seller' = [seller EXCEPT ![calls[c].s].status = calls[c].verdict]
  /\ Go(c, "relist")
  /\ UNCHANGED <<phase, negotiation, listed, total, inspections, sweep>>

relist(c) ==
  /\ calls[c].pc = "relist"
  /\ listed' = listed \cup {calls[c].s}
  /\ Return(c)
  /\ UNCHANGED <<phase, seller, negotiation, total, inspections, sweep>>

\* The seller takes the listing off the market or puts it back.
updateListingStatus(s) ==
  /\ \/ listed' = listed \cup {s}
     \/ listed' = listed \ {s}
  /\ UNCHANGED <<phase, seller, negotiation, total, inspections, calls, sweep>>

extendExpiry(c, s) ==
  /\ Negotiated(s)
  /\ Begin(c, "extend", s, 0, negotiation[s].late)
  /\ UNCHANGED <<phase, seller, negotiation, listed, total, inspections, sweep>>

\* Some hours after the expiry that was read, which may still be in the past.
extendWrite(c) ==
  /\ calls[c].pc = "extend"
  /\ \E late \in {FALSE, calls[c].saw} :
       negotiation' = [negotiation EXCEPT ![calls[c].s].late = late]
  /\ Return(c)
  /\ UNCHANGED <<phase, seller, listed, total, inspections, sweep>>

-----------------------------------------------------------------------------
(* Time and expireOverdueNegotiations, every minute.                       *)

\* The clock passes expiresAt.
tick(s) ==
  /\ Negotiated(s)
  /\ negotiation' = [negotiation EXCEPT ![s].late = TRUE]
  /\ UNCHANGED <<phase, seller, listed, total, inspections, calls, sweep>>

Overdue(s) == negotiation[s].status \in {PENDING, COUNTERED} /\ negotiation[s].late

\* Mutant of sweepRead: countered offers are left alone.
sweepReadPending ==
  /\ sweep = {}
  /\ sweep' = {s \in Sellers : Overdue(s) /\ negotiation[s].status = PENDING}
  /\ UNCHANGED <<phase, seller, negotiation, listed, total, inspections, calls>>

sweepRead ==
  /\ sweep = {}
  /\ sweep' = {s \in Sellers : Overdue(s)}
  /\ UNCHANGED <<phase, seller, negotiation, listed, total, inspections, calls>>

\* One transaction for each row that was read, whatever the row says now.
expire(s) ==
  /\ s \in sweep
  /\ negotiation' = [negotiation EXCEPT ![s].status = EXPIRED]
  /\ seller' = [seller EXCEPT ![s].status = REJECTED]
  /\ sweep' = sweep \ {s}
  /\ UNCHANGED <<phase, listed, total, inspections, calls>>

cron == sweepRead \/ \E s \in Sellers : expire(s)

-----------------------------------------------------------------------------
(* A query of a request throws, the request is over; autoCreateInspection  *)
(* catches and goes on.  Or the process restarts.                          *)
throws(c) ==
  /\ calls[c] # Idle
  /\ IF calls[c].pc \in {"check", "inspect"} THEN AfterInspection(c)
     ELSE Return(c)
  /\ UNCHANGED <<phase, seller, negotiation, listed, total, inspections, sweep>>

restart ==
  /\ calls' = [c \in Calls |-> Idle]
  /\ sweep' = {}
  /\ UNCHANGED <<phase, seller, negotiation, listed, total, inspections>>

Faults == restart \/ \E c \in Calls : throws(c)

-----------------------------------------------------------------------------
Init ==
  /\ phase = SELLER_MATCHING
  /\ seller = [s \in Sellers |->
                 [status |-> "none", agreed |-> 0, isVerified |-> FALSE]]
  /\ negotiation = [s \in Sellers |->
       [status |-> "none", currentOffer |-> 0, counterOffer |-> 0,
        final |-> 0, late |-> FALSE]]
  /\ listed = Sellers
  /\ total = 0
  /\ inspections = [s \in Sellers |-> 0]
  /\ calls = [c \in Calls |-> Idle]
  /\ sweep = {}

\* What a request does after its first await.
proceed(c) ==
  \/ upsert(c) \/ engage(c) \/ setInitialNegotiationPhase(c) \/ counterWrite(c)
  \/ agree(c) \/ conclude(c) \/ totalsRead(c) \/ totalsWrite(c)
  \/ inspectionCheck(c) \/ createInspectionRequest(c)
  \/ autoAdvancePhase(c) \/ phaseWrite(c)
  \/ closeNegotiation(c) \/ releaseSeller(c) \/ relist(c) \/ extendWrite(c)

offer(c, s) == \E o \in Offers : \/ createTradeSellersWithOffers(c, s, o)
                                 \/ sendOffer(c, s, o)

respond(c, s) == \/ \E o \in Offers : counterOffer(c, s, o)
                 \/ acceptOffer(c, s) \/ rejectOffer(c, s) \/ withdrawOffer(c, s)
                 \/ extendExpiry(c, s) \/ updatePhase(c, s)

Work(s) == \E c \in Calls : addSellersToTrade(c, s) \/ respond(c, s)
Offering(s) == \E c \in Calls : offer(c, s)
Running == \/ cron \/ \E c \in Calls : proceed(c)
           \/ \E s \in Sellers : tick(s)
Trading == Running \/ \E s \in Sellers : Work(s) \/ Offering(s)
Live == Trading \/ \E s \in Sellers : updateListingStatus(s)

Next == Live \/ Faults
Spec == Init /\ [][Next]_vars

\* The cron comes round every minute, and restarts leave it the time, now and
\* then, to expire what it has read.
CronSpec == /\ Spec /\ WF_vars(sweepRead)
            /\ \A s \in Sellers : SF_vars(expire(s))

\* Between requests: none is in flight and no round of the cron runs.
Quiet == sweep = {} /\ \A c \in Calls : calls[c] = Idle

-----------------------------------------------------------------------------
(* Properties.                                                             *)

\* Every row and every request in flight has its type; the total is a sum of
\* natural numbers.
TypeOK ==
  /\ phase \in Phase
  /\ seller \in [Sellers -> TradeSeller]
  /\ negotiation \in [Sellers -> OfferNegotiation]
  /\ listed \subseteq Sellers
  /\ inspections \in [Sellers -> Nat]
  /\ calls \in [Calls -> Request \cup {Idle}]
  /\ sweep \subseteq Sellers

\* Whoever is accepted has a price, in the seller's row and in the
\* negotiation's, whatever requests overlap and wherever they die: acceptOffer
\* writes the seller first and nothing takes a price back.
AgreementBacked == \A s \in Sellers :
  /\ seller[s].status = ACCEPTED => seller[s].agreed # 0
  /\ negotiation[s].status = ACCEPTED => /\ negotiation[s].final # 0
                                         /\ seller[s].agreed # 0

\* Between requests the seller's row and the negotiation name one price.
FinalIsAgreed == Quiet => \A s \in Sellers :
  negotiation[s].status = ACCEPTED => negotiation[s].final = seller[s].agreed

\* Between requests the trade's purchase cost is what its sellers agreed to.
TotalsMatch == Quiet => total = Cost(Prices)

\* Between requests every accepted listing is graded or has one inspection.
InspectedOnce == Quiet => \A s \in Sellers :
  negotiation[s].status = ACCEPTED =>
    IF s \in Graded THEN seller[s].isVerified ELSE inspections[s] = 1

\* An accepted negotiation is over: nothing reopens, closes or expires it.
AcceptedIsFinal == [][\A s \in Sellers :
  negotiation[s].status = ACCEPTED => negotiation'[s].status = ACCEPTED]_vars

\* An open offer whose time is over is closed, or somebody gives it more time,
\* although queries throw and restarts cut the rounds of the cron short.
OverdueExpires == \A s \in Sellers : Overdue(s) ~> ~Overdue(s)
=============================================================================
