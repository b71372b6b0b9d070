------------------------- MODULE NegotiationProofs -------------------------
(***************************************************************************)
(* Proofs about Negotiation and, in the second half, about negotiations    *)
(* whose requests do not overlap, for any sellers, offers and number of    *)
(* requests in flight.                                                     *)
(***************************************************************************)
EXTENDS SequentialNegotiation, FiniteSetTheorems, TLAPS

\* The rows a price is kept in, and the requests that carry one.
Rows == /\ seller \in [Sellers -> TradeSeller]
        /\ negotiation \in [Sellers -> OfferNegotiation]
        /\ calls \in [Calls -> Request \cup {Idle}]
        /\ sweep \subseteq Sellers

\* A request that is about to put a price into a row carries an offer.
Carrying == {"offer", "send", "counter", "agree", "conclude"}
CarriesOffer == \A c \in Calls : calls[c].pc \in Carrying => calls[c].amount # 0

\* A negotiation names its current offer, a countered one the counter offer.
OnOffer == \A s \in Sellers :
  /\ negotiation[s].status # "none" => negotiation[s].currentOffer # 0
  /\ negotiation[s].status = COUNTERED => negotiation[s].counterOffer # 0

\* A request that will answer an offer, and the cron, have read a row with one.
\* acceptOffer has written the seller's price when it comes to conclude.
Answering == {"counter", "agree", "conclude", "close", "extend"}
AnswersOffer ==
  /\ \A c \in Calls :
       /\ calls[c].pc \in Answering => negotiation[calls[c].s].currentOffer # 0
       /\ calls[c].pc = "conclude" => seller[calls[c].s].agreed # 0
  /\ \A s \in sweep : negotiation[s].currentOffer # 0

IInv == Rows /\ CarriesOffer /\ OnOffer /\ AnswersOffer /\ AgreementBacked

-----------------------------------------------------------------------------
(* What a step does to the requests in flight.                             *)

\* Only c moves.
Moves(c) == /\ calls' \in [Calls -> Request \cup {Idle}]
            /\ \A d \in Calls \ {c} : calls'[d] = calls[d]

\* c goes on with what it carries.
Keeps(c) == /\ Moves(c)
            /\ calls'[c].s = calls[c].s /\ calls'[c].amount = calls[c].amount

\* A request that is not idle is a request.
LEMMA Busy ==
  ASSUME Rows, NEW c \in Calls, calls[c] # Idle
  PROVE  calls[c] \in Request
BY DEF Rows

\* The idle slot does no step.
LEMMA IdleSlot == ASSUME NEW c, calls[c] = Idle PROVE calls[c].pc = "idle"
BY DEF Idle

\* Go changes the next step of one request.
LEMMA GoKeeps ==
  ASSUME Rows, NEW c \in Calls, calls[c].pc # "idle", NEW pc \in Step, Go(c, pc)
  PROVE  Keeps(c) /\ calls'[c].pc = pc
<1>1. calls[c] \in Request
  BY Busy, IdleSlot
<1>2. [calls[c] EXCEPT !.pc = pc] \in Request
  BY <1>1 DEF Request
<1>3. calls' = [calls EXCEPT ![c] = [calls[c] EXCEPT !.pc = pc]]
  BY DEF Go
<1>4. calls'[c] = [calls[c] EXCEPT !.pc = pc]
  BY <1>3 DEF Rows
<1>5. Moves(c)
  BY <1>2, <1>3 DEF Moves, Rows
<1> QED BY <1>1, <1>4, <1>5 DEF Keeps, Request

\* A request that changes what it saw or read goes on like one that does not.
LEMMA SawKeeps ==
  ASSUME Rows, NEW c \in Calls, calls[c].pc # "idle", NEW pc \in Step,
         NEW saw \in BOOLEAN, NEW prices \in [Sellers -> Offer],
         calls' = [calls EXCEPT ![c] = [calls[c] EXCEPT !.pc = pc, !.saw = saw,
                                                      !.prices = prices]]
  PROVE  Keeps(c) /\ calls'[c].pc = pc
<1>1. calls[c] \in Request
  BY Busy, IdleSlot
<1> DEFINE r == [calls[c] EXCEPT !.pc = pc, !.saw = saw, !.prices = prices]
<1>2. r \in Request /\ r.pc = pc /\ r.s = calls[c].s /\ r.amount = calls[c].amount
  BY <1>1 DEF Request
<1>3. calls'[c] = r
  BY DEF Rows
<1> HIDE DEF r
<1>4. Moves(c)
  BY <1>2 DEF Moves, Rows, r
<1> QED BY <1>2, <1>3, <1>4 DEF Keeps

\* Return frees the slot.
LEMMA ReturnMoves ==
  ASSUME Rows, NEW c \in Calls, Return(c)
  PROVE  Moves(c) /\ calls'[c] = Idle
BY DEF Rows, Return, Moves

\* A slot that was idle takes a request that waits to write.
LEMMA StartMoves ==
  ASSUME Rows, NEW c \in Calls, NEW pc \in Step, NEW s \in Sellers,
         NEW amount \in Offer, NEW saw \in BOOLEAN,
         NEW verdict \in {REJECTED, WITHDRAWN},
         Start(c, New(pc, s, amount, saw, verdict))
  PROVE  /\ Moves(c)
         /\ calls'[c].pc = pc /\ calls'[c].s = s /\ calls'[c].amount = amount
<1>1. New(pc, s, amount, saw, verdict) \in Request
  BY DEF New, Request, NoPrices, Offer
<1> QED BY <1>1 DEF Rows, Moves, Start, New

-----------------------------------------------------------------------------
(* What a step does to the rows.                                           *)

\* A step of one request that leaves both rows alone, and carries an offer on
\* only if it carried one, keeps the invariant.
LEMMA RowsAlone ==
  ASSUME IInv, NEW c \in Calls, Moves(c), UNCHANGED <<seller, negotiation, sweep>>,
         calls'[c].pc \in Carrying => calls'[c].amount # 0,
         calls'[c].pc \in Answering => negotiation[calls'[c].s].currentOffer # 0,
         calls'[c].pc # "conclude"
  PROVE  IInv'
<1>1. Rows'
  BY DEF IInv, Rows, Moves
<1>2. CarriesOffer' /\ AnswersOffer'
  BY DEF IInv, Moves, CarriesOffer, AnswersOffer
<1> QED BY <1>1, <1>2 DEF IInv, OnOffer, AgreementBacked, Attached

\* So does one that changes the seller's row, as long as whoever is accepted
\* has a price and no price is taken back.
LEMMA SellerMoves ==
  ASSUME IInv, NEW c \in Calls, Moves(c), UNCHANGED <<negotiation, sweep>>,
         calls'[c].pc \in Carrying => calls'[c].amount # 0,
         calls'[c].pc \in Answering => negotiation[calls'[c].s].currentOffer # 0,
         calls'[c].pc = "conclude" => seller'[calls'[c].s].agreed # 0,
         NEW s \in Sellers, NEW r \in TradeSeller, seller' = [seller EXCEPT ![s] = r],
         seller[s].agreed # 0 => r.agreed # 0,
         r.status = ACCEPTED => r.agreed # 0
  PROVE  IInv'
<1>1. Rows'
  BY DEF IInv, Rows, Moves
<1>2. \A t \in Sellers : seller[t].agreed # 0 => seller'[t].agreed # 0
  BY DEF IInv, Rows
<1>3. \A d \in Calls : calls[d].pc \in Answering => calls[d].s \in Sellers
  BY DEF IInv, Rows, Request, Idle, Answering
<1>4. CarriesOffer' /\ AnswersOffer'
  BY <1>2, <1>3 DEF IInv, Moves, CarriesOffer, AnswersOffer, Answering
<1>5. AgreementBacked'
  BY <1>2 DEF IInv, Rows, AgreementBacked
<1> QED BY <1>1, <1>4, <1>5 DEF IInv, OnOffer

\* And one that changes the negotiation, as long as the row still names its
\* offers and an accepted one has both prices.
LEMMA NegotiationMoves ==
  ASSUME IInv, NEW c \in Calls, Moves(c), UNCHANGED <<seller, sweep>>,
         calls'[c].pc \in Carrying => calls'[c].amount # 0,
         calls'[c].pc \notin Answering,
         NEW s \in Sellers, NEW r \in OfferNegotiation,
         negotiation' = [negotiation EXCEPT ![s] = r],
         negotiation[s].currentOffer # 0 => r.currentOffer # 0,
         r.status # "none" => r.currentOffer # 0,
         r.status = COUNTERED => r.counterOffer # 0,
         r.status = ACCEPTED => r.final # 0 /\ seller[s].agreed # 0
  PROVE  IInv'
<1>1. Rows'
  BY DEF IInv, Rows, Moves
<1>2. \A t \in Sellers : negotiation[t].currentOffer # 0 =>
                            negotiation'[t].currentOffer # 0
  BY DEF IInv, Rows
<1>3. \A d \in Calls : calls[d].pc \in Answering => calls[d].s \in Sellers
  BY DEF IInv, Rows, Request, Idle, Answering
<1>4. CarriesOffer' /\ AnswersOffer'
  BY <1>2, <1>3 DEF IInv, Rows, Moves, CarriesOffer, AnswersOffer, Answering
<1>5. OnOffer' /\ AgreementBacked'
  BY DEF IInv, Rows, OnOffer, AgreementBacked
<1> QED BY <1>1, <1>4, <1>5 DEF IInv

-----------------------------------------------------------------------------
(* One lemma for each kind of step.                                        *)

\* Every first half that only reads.
LEMMA Begins ==
  ASSUME IInv, NEW c \in Calls, NEW s \in Sellers,
         \/ \E o \in Offers : sendOffer(c, s, o) \/ counterOffer(c, s, o)
         \/ acceptOffer(c, s) \/ rejectOffer(c, s) \/ withdrawOffer(c, s)
         \/ extendExpiry(c, s) \/ updatePhase(c, s)
  PROVE  IInv'
<1> USE DEF IInv
<1>1. ASSUME NEW pc \in Step \ {"conclude"}, NEW amount \in Offer,
             NEW saw \in BOOLEAN, NEW verdict \in {REJECTED, WITHDRAWN},
             Start(c, New(pc, s, amount, saw, verdict)),
             pc \in Carrying => amount # 0,
             pc \in Answering => negotiation[s].currentOffer # 0,
             UNCHANGED <<seller, negotiation, sweep>>
      PROVE  IInv'
  <2>1. /\ Moves(c)
        /\ calls'[c].pc = pc /\ calls'[c].amount = amount /\ calls'[c].s = s
    BY <1>1, StartMoves
  <2> QED BY <1>1, <2>1, RowsAlone
<1>0. Negotiated(s) => negotiation[s].currentOffer # 0
  BY DEF Negotiated, OnOffer
<1>2. ASSUME NEW o \in Offers, sendOffer(c, s, o) \/ counterOffer(c, s, o)
      PROVE  IInv'
  <2>1. o \in Offer /\ o # 0
    BY OfferAssumption DEF Offer
  <2> QED BY <1>0, <1>1, <1>2, <2>1 DEF sendOffer, counterOffer, Begin, Step, Answering
<1>3. CASE acceptOffer(c, s)
  <2>1. FinalOffer(s) \in Offer /\ FinalOffer(s) # 0
    BY <1>3 DEF acceptOffer, FinalOffer, Negotiated, Rows, OnOffer,
                OfferNegotiation, Offer
  <2> QED BY <1>0, <1>1, <1>3, <2>1 DEF acceptOffer, Begin, Step, Answering
<1>4. CASE rejectOffer(c, s) \/ updatePhase(c, s)
  BY <1>0, <1>1, <1>4 DEF rejectOffer, updatePhase, Begin, Step, Offer, Carrying, Answering
<1>5. CASE withdrawOffer(c, s)
  BY <1>0, <1>1, <1>5 DEF withdrawOffer, Step, Offer, Carrying, Answering
<1>6. CASE extendExpiry(c, s)
  <2>1. negotiation[s].late \in BOOLEAN
    BY DEF Rows, OfferNegotiation
  <2> QED BY <1>0, <1>1, <1>6, <2>1 DEF extendExpiry, Begin, Step, Offer, Carrying, Answering
<1> QED BY <1>2, <1>3, <1>4, <1>5, <1>6

\* Every later step that leaves both rows alone: it carries nothing on.
LEMMA Passes ==
  ASSUME IInv, NEW c \in Calls, UNCHANGED <<seller, negotiation, sweep>>,
         \/ Return(c)
         \/ /\ calls[c].pc # "idle"
            /\ \E pc \in Step \ (Carrying \cup Answering) : Go(c, pc)
  PROVE  IInv'
<1>1. CASE Return(c)
  BY <1>1, ReturnMoves, RowsAlone DEF IInv, Idle, Carrying, Answering
<1>2. ASSUME NEW pc \in Step \ (Carrying \cup Answering), Go(c, pc), calls[c].pc # "idle"
      PROVE  IInv'
  BY <1>2, GoKeeps, RowsAlone DEF IInv, Keeps, Carrying, Answering
<1> QED BY <1>1, <1>2

\* The steps of a request between two awaits.
LEMMA Proceeds ==
  ASSUME IInv, NEW c \in Calls, proceed(c)
  PROVE  IInv'
<1> DEFINE s == calls[c].s
<1>1. calls[c].pc # "idle" => /\ calls[c] \in Request
                              /\ s \in Sellers
                              /\ calls[c].amount \in Offer
                              /\ calls[c].verdict \in {REJECTED, WITHDRAWN}
                              /\ calls[c].saw \in BOOLEAN
                              /\ calls[c].prices \in [Sellers -> Offer]
  BY Busy, IdleSlot DEF IInv, Request
<1>2. \A t \in Sellers : /\ seller[t] \in TradeSeller
                         /\ negotiation[t] \in OfferNegotiation
  BY DEF IInv, Rows
<1>3. Rows
  BY DEF IInv
<1>4. CASE upsert(c)
  <2> DEFINE n == IF negotiation[s].status = "none"
                  THEN [status |-> PENDING, currentOffer |-> calls[c].amount,
                        counterOffer |-> 0, final |-> 0, late |-> FALSE]
                  ELSE [negotiation[s] EXCEPT !.currentOffer = calls[c].amount,
                                              !.late = FALSE]
  <2>1. s \in Sellers /\ calls[c].amount \in Offer /\ calls[c].amount # 0
    BY <1>1, <1>4 DEF upsert, IInv, CarriesOffer, Carrying
  <2>2. n \in OfferNegotiation
    BY <1>2, <2>1 DEF OfferNegotiation, Offer, NegotiationStatus
  <2>3. /\ n.currentOffer # 0
        /\ n.status = COUNTERED => n.counterOffer # 0
        /\ n.status = ACCEPTED => n.final # 0 /\ seller[s].agreed # 0
    BY <1>2, <2>1 DEF OfferNegotiation, IInv, OnOffer, AgreementBacked,
                      PENDING, COUNTERED, ACCEPTED
  <2>4. negotiation' = [negotiation EXCEPT ![s] = n] /\ UNCHANGED <<seller, sweep>>
    BY <1>4 DEF upsert, Upserted
  <2>5. Moves(c) /\ calls'[c].pc \in {"phase", "engage"}
    BY <1>3, <1>4, GoKeeps DEF upsert, Keeps, Step
  <2> HIDE DEF n, s
  <2> QED BY <2>1, <2>2, <2>3, <2>4, <2>5, NegotiationMoves DEF Carrying, Answering
<1>5. CASE engage(c)
  <2> DEFINE r == [seller[s] EXCEPT !.status = NEGOTIATING]
  <2>1. s \in Sellers
    BY <1>1, <1>5 DEF engage
  <2>2. /\ r \in TradeSeller /\ r.agreed = seller[s].agreed
        /\ r.status # ACCEPTED
    BY <1>2, <2>1 DEF TradeSeller, SellerStatus, NEGOTIATING, ACCEPTED
  <2>3. seller' = [seller EXCEPT ![s] = r] /\ UNCHANGED <<negotiation, sweep>>
    BY <1>5 DEF engage
  <2>4. Moves(c) /\ calls'[c].pc \in {"phase", "idle"}
    BY <1>3, <1>5, GoKeeps, ReturnMoves DEF engage, Keeps, Step, Idle
  <2> HIDE DEF r, s
  <2> QED BY <2>1, <2>2, <2>3, <2>4, SellerMoves DEF Carrying, Answering
<1>6. CASE setInitialNegotiationPhase(c) \/ phaseWrite(c) \/ relist(c)
  BY <1>6, Passes DEF setInitialNegotiationPhase, phaseWrite, relist
<1>7. CASE counterWrite(c)
  <2> DEFINE n == [negotiation[s] EXCEPT !.status = COUNTERED,
                                         !.counterOffer = calls[c].amount]
  <2>1. /\ s \in Sellers /\ calls[c].amount \in Offer /\ calls[c].amount # 0
        /\ negotiation[s].currentOffer # 0
    BY <1>1, <1>7 DEF counterWrite, IInv, CarriesOffer, Carrying, AnswersOffer,
                      Answering
  <2>2. /\ n \in OfferNegotiation /\ n.currentOffer # 0 /\ n.counterOffer # 0
        /\ n.status = COUNTERED
    BY <1>2, <2>1 DEF OfferNegotiation, NegotiationStatus
  <2>3. negotiation' = [negotiation EXCEPT ![s] = n] /\ UNCHANGED <<seller, sweep>>
    BY <1>7, <1>3, <2>1 DEF counterWrite, Rows
  <2>4. Moves(c) /\ calls'[c].pc = "idle"
    BY <1>3, <1>7, ReturnMoves DEF counterWrite, Idle
  <2> HIDE DEF n, s
  <2> QED BY <2>1, <2>2, <2>3, <2>4, NegotiationMoves
             DEF Carrying, Answering, COUNTERED, ACCEPTED
<1>8. CASE agree(c)
  <2> DEFINE r == [seller[s] EXCEPT !.status = ACCEPTED,
                                    !.agreed = calls[c].amount]
  <2>1. /\ s \in Sellers /\ calls[c].amount \in Offer /\ calls[c].amount # 0
        /\ negotiation[s].currentOffer # 0
    BY <1>1, <1>8 DEF agree, IInv, CarriesOffer, Carrying, AnswersOffer, Answering
  <2>2. r \in TradeSeller /\ r.agreed # 0 /\ r.agreed = calls[c].amount
    BY <1>2, <2>1 DEF TradeSeller, SellerStatus
  <2>3. seller' = [seller EXCEPT ![s] = r] /\ UNCHANGED <<negotiation, sweep>>
    BY <1>3, <1>8, <2>1 DEF agree, Rows
  <2>4. Keeps(c) /\ calls'[c].pc = "conclude"
    BY <1>3, <1>8, GoKeeps DEF agree, Step
  <2>5. seller'[s].agreed # 0 /\ calls'[c].s = s /\ calls'[c].amount # 0
    BY <1>3, <2>1, <2>2, <2>3, <2>4 DEF Rows, Keeps
  <2> HIDE DEF r, s
  <2> QED BY <2>1, <2>2, <2>3, <2>4, <2>5, SellerMoves DEF Keeps
<1>9. CASE conclude(c)
  <2> DEFINE n == [negotiation[s] EXCEPT !.status = ACCEPTED,
                                         !.final = calls[c].amount]
  <2>1. /\ s \in Sellers /\ calls[c].amount \in Offer /\ calls[c].amount # 0
        /\ negotiation[s].currentOffer # 0 /\ seller[s].agreed # 0
    BY <1>1, <1>9 DEF conclude, IInv, CarriesOffer, Carrying, AnswersOffer, Answering
  <2>2. /\ n \in OfferNegotiation /\ n.currentOffer # 0 /\ n.final # 0
        /\ n.status = ACCEPTED
    BY <1>2, <2>1 DEF OfferNegotiation, NegotiationStatus
  <2>3. negotiation' = [negotiation EXCEPT ![s] = n] /\ UNCHANGED <<seller, sweep>>
    BY <1>3, <1>9, <2>1 DEF conclude, Rows
  <2>4. Moves(c) /\ calls'[c].pc = "totals"
    <3>1. PICK saw \in BOOLEAN : saw = AllAccepted
      BY DEF AllAccepted
    <3>2. calls[c].pc # "idle" /\ calls[c].prices \in [Sellers -> Offer]
      BY <1>1, <1>9 DEF conclude
    <3>3. calls' = [calls EXCEPT ![c] =
            [calls[c] EXCEPT !.pc = "totals", !.saw = saw,
                             !.prices = calls[c].prices]]
      BY <1>1, <1>3, <1>9, <3>1, <3>2 DEF conclude, Rows, Request
    <3> HIDE DEF s
    <3> QED BY <1>3, <3>2, <3>3, SawKeeps DEF Step, Keeps
  <2> HIDE DEF n, s
  <2> QED BY <2>1, <2>2, <2>3, <2>4, NegotiationMoves
             DEF Carrying, Answering, COUNTERED, ACCEPTED
<1>10. CASE totalsRead(c) \/ totalsWrite(c)
  <2>1. PICK prices \in [Sellers -> Offer], pc \in {"record", "check"} :
          calls' = [calls EXCEPT ![c].pc = pc, ![c].prices = prices]
    BY <1>2, <1>10 DEF totalsRead, totalsWrite, Prices, NoPrices, TradeSeller, Offer
  <2>2. calls[c].pc # "idle" /\ calls[c].saw \in BOOLEAN
    BY <1>1, <1>10 DEF totalsRead, totalsWrite
  <2>3. calls' = [calls EXCEPT ![c] =
          [calls[c] EXCEPT !.pc = pc, !.saw = calls[c].saw, !.prices = prices]]
    BY <1>1, <1>3, <2>1, <2>2 DEF Rows, Request
  <2>4. Moves(c) /\ calls'[c].pc = pc
    BY <1>3, <2>2, <2>3, SawKeeps DEF Step, Keeps
  <2>5. UNCHANGED <<seller, negotiation, sweep>>
    BY <1>10 DEF totalsRead, totalsWrite
  <2> QED BY <2>4, <2>5, RowsAlone DEF Carrying, Answering
<1>11. CASE inspectionCheck(c)
  <2> DEFINE r == [seller[s] EXCEPT !.isVerified = TRUE]
  <2>1. s \in Sellers
    BY <1>1, <1>11 DEF inspectionCheck
  <2>2. r \in TradeSeller /\ r.agreed = seller[s].agreed /\ r.status = seller[s].status
    BY <1>2, <2>1 DEF TradeSeller
  <2>3. Moves(c) /\ calls'[c].pc \in {"advance", "inspect", "idle"}
    BY <1>3, <1>11, GoKeeps, ReturnMoves
       DEF inspectionCheck, AfterInspection, Keeps, Step, Idle
  <2>4. CASE seller' = [seller EXCEPT ![s] = r]
    <3>1. UNCHANGED <<negotiation, sweep>>
      BY <1>11 DEF inspectionCheck
    <3>2. r.status = ACCEPTED => r.agreed # 0
      BY <2>1, <2>2 DEF IInv, AgreementBacked
    <3> HIDE DEF r, s
    <3> QED BY <2>1, <2>2, <2>3, <2>4, <3>1, <3>2, SellerMoves DEF Carrying, Answering
  <2>5. CASE UNCHANGED seller
    BY <1>11, <2>3, <2>5, RowsAlone DEF inspectionCheck, Carrying, Answering
  <2> QED BY <1>11, <2>4, <2>5 DEF inspectionCheck
<1>12. CASE createInspectionRequest(c) \/ autoAdvancePhase(c)
  BY <1>12, Passes DEF createInspectionRequest, autoAdvancePhase, AfterInspection,
                       Step, Carrying, Answering
<1>13. CASE closeNegotiation(c)
  <2> DEFINE n == [negotiation[s] EXCEPT !.status = calls[c].verdict]
  <2>1. s \in Sellers /\ negotiation[s].currentOffer # 0
        /\ calls[c].verdict \in {REJECTED, WITHDRAWN}
    BY <1>1, <1>13 DEF closeNegotiation, IInv, AnswersOffer, Answering
  <2>2. /\ n \in OfferNegotiation /\ n.currentOffer # 0
        /\ n.status \notin {COUNTERED, ACCEPTED}
    BY <1>2, <2>1 DEF OfferNegotiation, NegotiationStatus, COUNTERED, ACCEPTED,
                      REJECTED, WITHDRAWN
  <2>3. negotiation' = [negotiation EXCEPT ![s] = n] /\ UNCHANGED <<seller, sweep>>
    BY <1>13 DEF closeNegotiation
  <2>4. Moves(c) /\ calls'[c].pc = "release"
    BY <1>3, <1>13, GoKeeps DEF closeNegotiation, Keeps, Step
  <2> HIDE DEF n, s
  <2> QED BY <2>1, <2>2, <2>3, <2>4, NegotiationMoves DEF Carrying, Answering
<1>14. CASE releaseSeller(c)
  <2> DEFINE r == [seller[s] EXCEPT !.status = calls[c].verdict]
  <2>1. s \in Sellers /\ calls[c].verdict \in {REJECTED, WITHDRAWN}
    BY <1>1, <1>14 DEF releaseSeller
  <2>2. r \in TradeSeller /\ r.agreed = seller[s].agreed /\ r.status # ACCEPTED
    BY <1>2, <2>1 DEF TradeSeller, SellerStatus, ACCEPTED, REJECTED, WITHDRAWN
  <2>3. seller' = [seller EXCEPT ![s] = r] /\ UNCHANGED <<negotiation, sweep>>
    BY <1>14 DEF releaseSeller
  <2>4. Moves(c) /\ calls'[c].pc = "relist"
    BY <1>3, <1>14, GoKeeps DEF releaseSeller, Keeps, Step
  <2> HIDE DEF r, s
  <2> QED BY <2>1, <2>2, <2>3, <2>4, SellerMoves DEF Carrying, Answering
<1>15. CASE extendWrite(c)
  <2>1. s \in Sellers /\ calls[c].saw \in BOOLEAN
    BY <1>1, <1>15 DEF extendWrite
  <2>2. PICK late \in BOOLEAN :
          negotiation' = [negotiation EXCEPT ![s].late = late]
    BY <1>15, <2>1 DEF extendWrite
  <2> DEFINE n == [negotiation[s] EXCEPT !.late = late]
  <2>3. /\ n \in OfferNegotiation
        /\ n.status = negotiation[s].status /\ n.final = negotiation[s].final
        /\ n.currentOffer = negotiation[s].currentOffer
        /\ n.counterOffer = negotiation[s].counterOffer
    BY <1>2, <2>1 DEF OfferNegotiation
  <2>4. negotiation' = [negotiation EXCEPT ![s] = n] /\ UNCHANGED <<seller, sweep>>
    BY <1>15, <2>2 DEF extendWrite
  <2>5. Moves(c) /\ calls'[c].pc = "idle"
    BY <1>3, <1>15, ReturnMoves DEF extendWrite, Idle
  <2>6. /\ n.status # "none" => n.currentOffer # 0
        /\ n.status = COUNTERED => n.counterOffer # 0
        /\ n.status = ACCEPTED => n.final # 0 /\ seller[s].agreed # 0
    BY <2>1, <2>3 DEF IInv, OnOffer, AgreementBacked
  <2> HIDE DEF n, s
  <2> QED BY <2>1, <2>3, <2>4, <2>5, <2>6, NegotiationMoves DEF Carrying, Answering
<1> QED BY <1>4, <1>5, <1>6, <1>7, <1>8, <1>9, <1>10, <1>11, <1>12, <1>13, <1>14,
           <1>15 DEF proceed

\* A request fails, or the process restarts.
LEMMA FaultsKeep == ASSUME IInv, Faults PROVE IInv'
<1>1. ASSUME NEW c \in Calls, throws(c) PROVE IInv'
  <2>1. calls[c].pc # "idle"
    BY <1>1, Busy DEF throws, IInv, Request, Step
  <2> QED BY <1>1, <2>1, Passes
             DEF throws, AfterInspection, Step, Carrying, Answering
<1>2. CASE restart
  <2>1. Rows'
    BY <1>2 DEF restart, IInv, Rows
  <2>2. CarriesOffer' /\ AnswersOffer'
    BY <1>2 DEF restart, CarriesOffer, AnswersOffer, Carrying, Answering, Idle
  <2> QED BY <1>2, <2>1, <2>2 DEF restart, IInv, OnOffer, AgreementBacked
<1> QED BY <1>1, <1>2 DEF Faults

\* The cron expires whatever it has read.
LEMMA CronKeeps == ASSUME IInv, cron PROVE IInv'
<1>1. CASE sweepRead
  <2>1. Rows'
    BY <1>1 DEF sweepRead, IInv, Rows
  <2>2. AnswersOffer'
    BY <1>1 DEF sweepRead, Overdue, IInv, AnswersOffer, OnOffer, PENDING, COUNTERED
  <2> QED BY <1>1, <2>1, <2>2 DEF sweepRead, IInv, CarriesOffer, OnOffer, AgreementBacked
<1>2. ASSUME NEW s \in Sellers, expire(s) PROVE IInv'
  <2> DEFINE n == [negotiation[s] EXCEPT !.status = EXPIRED]
             r == [seller[s] EXCEPT !.status = REJECTED]
  <2>1. seller[s] \in TradeSeller /\ negotiation[s] \in OfferNegotiation
    BY DEF IInv, Rows
  <2>2. /\ r \in TradeSeller /\ r.agreed = seller[s].agreed /\ r.status # ACCEPTED
        /\ n \in OfferNegotiation /\ n.currentOffer = negotiation[s].currentOffer
        /\ n.status \notin {COUNTERED, ACCEPTED}
    BY <2>1 DEF TradeSeller, OfferNegotiation, SellerStatus, NegotiationStatus,
                EXPIRED, REJECTED, COUNTERED, ACCEPTED
  <2>3. /\ seller' = [seller EXCEPT ![s] = r]
        /\ negotiation' = [negotiation EXCEPT ![s] = n]
        /\ sweep' \subseteq sweep /\ UNCHANGED calls
        /\ negotiation[s].currentOffer # 0
    BY <1>2 DEF expire, IInv, AnswersOffer
  <2> HIDE DEF n, r
  <2>4. Rows'
    BY <2>2, <2>3 DEF IInv, Rows
  <2>5. \A t \in Sellers : /\ seller'[t].agreed = seller[t].agreed
                           /\ negotiation'[t].currentOffer = negotiation[t].currentOffer
    BY <2>2, <2>3 DEF IInv, Rows
  <2>6. \A d \in Calls : calls[d].pc \in Answering => calls[d].s \in Sellers
    BY DEF IInv, Rows, Request, Idle, Answering
  <2>7. CarriesOffer' /\ AnswersOffer'
    BY <2>3, <2>5, <2>6 DEF IInv, Rows, CarriesOffer, AnswersOffer, Answering
  <2>8. OnOffer' /\ AgreementBacked'
    BY <2>2, <2>3 DEF IInv, Rows, OnOffer, AgreementBacked
  <2> QED BY <2>4, <2>7, <2>8 DEF IInv
<1> QED BY <1>1, <1>2 DEF cron

\* The steps that are a whole request, and those of the world outside.
LEMMA OthersKeep ==
  ASSUME IInv, NEW s \in Sellers,
         \/ tick(s) \/ updateListingStatus(s)
         \/ \E c \in Calls : \/ addSellersToTrade(c, s)
                             \/ \E o \in Offers : createTradeSellersWithOffers(c, s, o)
  PROVE  IInv'
<1>1. CASE tick(s)
  <2> DEFINE n == [negotiation[s] EXCEPT !.late = TRUE]
  <2>1. /\ n \in OfferNegotiation
        /\ n.status = negotiation[s].status /\ n.final = negotiation[s].final
        /\ n.currentOffer = negotiation[s].currentOffer
        /\ n.counterOffer = negotiation[s].counterOffer
    BY DEF IInv, Rows, OfferNegotiation
  <2>2. /\ negotiation' = [negotiation EXCEPT ![s] = n]
        /\ UNCHANGED <<seller, sweep, calls>>
    BY <1>1 DEF tick
  <2> HIDE DEF n
  <2>3. \A t \in Sellers :
          /\ negotiation'[t].status = negotiation[t].status
          /\ negotiation'[t].final = negotiation[t].final
          /\ negotiation'[t].currentOffer = negotiation[t].currentOffer
          /\ negotiation'[t].counterOffer = negotiation[t].counterOffer
    BY <2>1, <2>2 DEF IInv, Rows
  <2>4. Rows' /\ CarriesOffer'
    BY <2>1, <2>2 DEF IInv, Rows, CarriesOffer
  <2>5. \A d \in Calls : calls[d].pc \in Answering => calls[d].s \in Sellers
    BY DEF IInv, Rows, Request, Idle, Answering
  <2>6. AnswersOffer'
    BY <2>2, <2>3, <2>5 DEF IInv, Rows, AnswersOffer
  <2>7. OnOffer' /\ AgreementBacked'
    BY <2>2, <2>3 DEF IInv, OnOffer, AgreementBacked
  <2> QED BY <2>4, <2>6, <2>7 DEF IInv
<1>2. CASE updateListingStatus(s)
  BY <1>2 DEF updateListingStatus, IInv, Rows, CarriesOffer, OnOffer,
              AnswersOffer, AgreementBacked
<1>3. ASSUME NEW c \in Calls, addSellersToTrade(c, s) PROVE IInv'
  BY <1>3 DEF addSellersToTrade, IInv, Rows, CarriesOffer, OnOffer, AnswersOffer,
              AgreementBacked, TradeSeller, SellerStatus, INVITED, ACCEPTED
<1>4. ASSUME NEW c \in Calls, NEW o \in Offers, createTradeSellersWithOffers(c, s, o)
      PROVE  IInv'
  <2> DEFINE r == [seller[s] EXCEPT !.status = IF @ = "none" THEN INVITED ELSE @]
  <2>1. o \in Offer /\ o # 0
    BY OfferAssumption DEF Offer
  <2>2. r \in TradeSeller /\ r.agreed = seller[s].agreed
        /\ (r.status = ACCEPTED => r.agreed # 0)
    BY DEF IInv, Rows, TradeSeller, SellerStatus, AgreementBacked, INVITED, ACCEPTED
  <2>3. seller' = [seller EXCEPT ![s] = r] /\ UNCHANGED <<negotiation, sweep>>
    BY <1>4 DEF createTradeSellersWithOffers
  <2>4. Moves(c) /\ calls'[c].pc = "offer" /\ calls'[c].amount # 0
    <3>1. Start(c, New("offer", s, o, FALSE, REJECTED))
      BY <1>4 DEF createTradeSellersWithOffers, Begin
    <3> QED BY <2>1, <3>1, StartMoves DEF Step, IInv
  <2> HIDE DEF r
  <2> QED BY <2>2, <2>3, <2>4, SellerMoves DEF Answering
<1> QED BY <1>1, <1>2, <1>3, <1>4

-----------------------------------------------------------------------------
\* The rows, the offers that requests carry and the prices hold together at
\* every step of negotiation.service.ts, its cron and the failures of both.
THEOREM InductiveInvariant == Spec => []IInv
<1>1. Init => IInv
  BY DEF Init, IInv, Rows, CarriesOffer, Carrying, OnOffer, AnswersOffer, Answering,
         AgreementBacked, TradeSeller, OfferNegotiation, Offer, Idle, COUNTERED, ACCEPTED
<1>2. IInv /\ [Next]_vars => IInv'
  <2> SUFFICES ASSUME IInv, [Next]_vars PROVE IInv'
    OBVIOUS
  <2>1. CASE Live
    <3>1. CASE Running
      BY <3>1, CronKeeps, Proceeds, OthersKeep DEF Running
    <3>2. ASSUME NEW s \in Sellers, Work(s) \/ Offering(s) \/ updateListingStatus(s)
          PROVE  IInv'
      BY <3>2, Begins, OthersKeep DEF Work, Offering, offer, respond
    <3> QED BY <2>1, <3>1, <3>2 DEF Live, Trading
  <2>2. CASE Faults
    BY <2>2, FaultsKeep
  <2>3. CASE UNCHANGED vars
    BY <2>3 DEF vars, IInv, Rows, CarriesOffer, OnOffer, AnswersOffer, AgreementBacked
  <2> QED BY <2>1, <2>2, <2>3 DEF Next
<1> QED BY <1>1, <1>2, PTL DEF Spec

\* What no price depends on.
Rest == /\ phase \in Phase
        /\ listed \subseteq Sellers
        /\ inspections \in [Sellers -> Nat]

LEMMA RestKept == ASSUME Rows, Rest, [Next]_vars PROVE Rest'
<1> USE DEF Rest
<1>1. CASE UNCHANGED vars
  BY <1>1 DEF vars
<1>2. CASE Faults
  BY <1>2 DEF Faults, restart, throws
<1>3. CASE cron
  BY <1>3 DEF cron, sweepRead, expire
<1>4. ASSUME NEW c \in Calls, proceed(c) PROVE Rest'
  <2>1. CASE upsert(c) \/ engage(c) \/ counterWrite(c) \/ agree(c) \/ conclude(c)
             \/ totalsRead(c) \/ totalsWrite(c) \/ inspectionCheck(c)
             \/ autoAdvancePhase(c) \/ closeNegotiation(c) \/ releaseSeller(c)
             \/ extendWrite(c)
    BY <2>1 DEF upsert, engage, counterWrite, agree, conclude, totalsRead,
         totalsWrite, inspectionCheck, autoAdvancePhase, closeNegotiation,
         releaseSeller, extendWrite
  <2>2. CASE setInitialNegotiationPhase(c) \/ phaseWrite(c)
    BY <2>2 DEF setInitialNegotiationPhase, phaseWrite, Phase
  <2>3. CASE createInspectionRequest(c)
    <3>1. calls[c] \in Request
      BY <2>3, Busy, IdleSlot DEF createInspectionRequest
    <3>2. calls[c].s \in Sellers
      BY <3>1 DEF Request
    <3> QED BY <2>3, <3>2 DEF createInspectionRequest
  <2>4. CASE relist(c)
    <3>1. calls[c] \in Request
      BY <2>4, Busy, IdleSlot DEF relist
    <3> QED BY <2>4, <3>1 DEF relist, Request
  <2> QED BY <1>4, <2>1, <2>2, <2>3, <2>4 DEF proceed
<1>5. ASSUME NEW s \in Sellers, Work(s) \/ Offering(s) PROVE Rest'
  BY <1>5 DEF Work, Offering, offer, respond, addSellersToTrade,
       createTradeSellersWithOffers, sendOffer, counterOffer, acceptOffer,
       rejectOffer, withdrawOffer, extendExpiry, updatePhase
<1>6. ASSUME NEW s \in Sellers, updateListingStatus(s) \/ tick(s) PROVE Rest'
  BY <1>6 DEF updateListingStatus, tick
<1> QED BY <1>1, <1>2, <1>3, <1>4, <1>5, <1>6 DEF Next, Live, Trading, Running

\* Rows and requests keep their types, whatever overlaps or fails.
THEOREM TypesKept == Spec => []TypeOK
<1>1. Init => Rest
  BY DEF Init, Rest, Phase
<1>2. IInv /\ Rest /\ [Next]_vars => Rest'
  BY RestKept DEF IInv
<1>3. IInv /\ Rest => TypeOK
  BY DEF IInv, Rows, Rest, TypeOK
<1> QED BY <1>1, <1>2, <1>3, InductiveInvariant, PTL DEF Spec

\* Nobody is accepted without a price, in the seller's row or the negotiation's:
\* for any number of sellers and of overlapping, failing requests.
THEOREM Backed == Spec => []AgreementBacked
<1>1. IInv => AgreementBacked
  BY DEF IInv
<1> QED BY <1>1, InductiveInvariant, PTL

-----------------------------------------------------------------------------
(***************************************************************************)
(* Negotiations whose requests do not overlap.                             *)
(***************************************************************************)
\* Whoever will write a negotiation's answer, and the cron, have found it not
\* accepted; the prices of the two rows agree.
Responding == {"counter", "agree", "conclude", "close"}
Agreeing ==
  /\ \A c \in Calls :
       /\ calls[c].pc \in Responding => negotiation[calls[c].s].status # ACCEPTED
       /\ calls[c].pc = "conclude" => /\ seller[calls[c].s].status = ACCEPTED
                                      /\ seller[calls[c].s].agreed = calls[c].amount
  /\ \A s \in sweep : negotiation[s].status # ACCEPTED
  /\ \A s \in Sellers : negotiation[s].status = ACCEPTED =>
                          negotiation[s].final = seller[s].agreed

\* An accepted listing is inspected, or its acceptance is about to see to it.
Inspecting == {"totals", "record", "check", "inspect"}
Inspected(s) == /\ s \in Graded => seller[s].isVerified = TRUE
                /\ s \notin Graded => inspections[s] = 1
Inspections ==
  /\ \A s \in Sellers : inspections[s] \in {0, 1}
  /\ \A c \in Calls : calls[c].pc = "inspect" =>
       calls[c].s \notin Graded /\ inspections[calls[c].s] = 0
  /\ \A s \in Sellers : negotiation[s].status = ACCEPTED =>
       \/ Inspected(s)
       \/ \E c \in Calls : calls[c].pc \in Inspecting /\ calls[c].s = s

\* While nobody was made a second offer: an offer finds no negotiation, and a
\* seller who is asked has an open one, or is about to be released.
Open(s) == negotiation[s].status \in {PENDING, COUNTERED}
Asked ==
  /\ \A c \in Calls :
       /\ calls[c].pc \in {"offer", "send"} => negotiation[calls[c].s].status = "none"
       /\ calls[c].pc = "engage" => Open(calls[c].s)
  /\ \A s \in Sellers : seller[s].status = NEGOTIATING =>
       \/ Open(s)
       \/ \E c \in Calls : calls[c].pc = "release" /\ calls[c].s = s
Answerable == fresh => Asked

SeqInv == OneAtATime /\ Agreeing /\ Inspections /\ Answerable

USE DEF INVITED, NEGOTIATING, PENDING, COUNTERED, ACCEPTED, REJECTED, WITHDRAWN,
        EXPIRED

-----------------------------------------------------------------------------
(* What a step of a request does, by the step it is at.                    *)

Elsewhere(s) == \A t \in Sellers \ {s} :
  /\ seller'[t] = seller[t] /\ negotiation'[t] = negotiation[t]
  /\ inspections'[t] = inspections[t]

\* The step that follows.
Follows(c) ==
  LET pc == calls[c].pc
      s == calls[c].s
      next == calls'[c].pc
  IN  \/ pc = "offer" /\ next = "phase"
      \/ pc = "send" /\ next = "engage"
      \/ pc = "engage" /\ next \in {"phase", "idle"}
      \/ pc \in {"phase", "counter", "write", "relist", "extend"} /\ next = "idle"
      \/ pc = "agree" /\ next = "conclude"
      \/ pc = "conclude" /\ next = "totals"
      \/ pc = "totals" /\ next = "record"
      \/ pc = "record" /\ next = "check"
      \/ pc = "check" /\ next \in {"advance", "idle"}
                      /\ (s \in Graded \/ inspections[s] > 0)
      \/ pc = "check" /\ next = "inspect" /\ s \notin Graded
                      /\ ~(inspections[s] > 0)
      \/ pc = "inspect" /\ next \in {"advance", "idle"}
      \/ pc = "advance" /\ next = "write" /\ AllAccepted
      \/ pc = "advance" /\ next = "idle"
      \/ pc = "close" /\ next = "release"
      \/ pc = "release" /\ next = "relist"

\* What becomes of the rows.
WritesSeller(c) ==
  LET pc == calls[c].pc
      s == calls[c].s
  IN  /\ seller'[s].status = IF pc = "engage" THEN NEGOTIATING
                             ELSE IF pc = "agree" THEN ACCEPTED
                             ELSE IF pc = "release" THEN calls[c].verdict
                             ELSE seller[s].status
      /\ seller'[s].agreed = IF pc = "agree" THEN calls[c].amount
                             ELSE seller[s].agreed
      /\ seller[s].isVerified = TRUE => seller'[s].isVerified = TRUE
      /\ pc = "check" /\ s \in Graded => seller'[s].isVerified = TRUE
      /\ inspections'[s] = IF pc = "inspect" THEN inspections[s] + 1
                           ELSE inspections[s]

WritesNegotiation(c) ==
  LET pc == calls[c].pc
      s == calls[c].s
      new == pc \in {"offer", "send"} /\ negotiation[s].status = "none"
  IN  /\ negotiation'[s].status = IF new THEN PENDING
                                  ELSE IF pc = "counter" THEN COUNTERED
                                  ELSE IF pc = "conclude" THEN ACCEPTED
                                  ELSE IF pc = "close" THEN calls[c].verdict
                                  ELSE negotiation[s].status
      /\ negotiation'[s].final = IF new THEN 0
                                 ELSE IF pc = "conclude" THEN calls[c].amount
                                 ELSE negotiation[s].final

\* The request goes on for the same seller with the same offer, or is over.
Stays(c) == /\ Moves(c)
            /\ calls'[c].pc # "idle" => /\ calls'[c].s = calls[c].s
                                        /\ calls'[c].amount = calls[c].amount

Effect(c) ==
  /\ Stays(c) /\ Follows(c)
  /\ Elsewhere(calls[c].s) /\ WritesSeller(c) /\ WritesNegotiation(c)
  /\ UNCHANGED sweep

\* A request that is under way is for a seller and closes with a verdict.
LEMMA UnderWay ==
  ASSUME TypeOK, NEW c \in Calls, calls[c].pc # "idle"
  PROVE  /\ calls[c].s \in Sellers /\ calls[c].amount \in Offer
         /\ calls[c].verdict \in {REJECTED, WITHDRAWN}
         /\ calls[c].saw \in BOOLEAN /\ calls[c].prices \in [Sellers -> Offer]
<1>1. calls[c] \in Request
  BY Busy, IdleSlot DEF TypeOK, Rows
<1> QED BY <1>1 DEF Request

\* Lemmas of NegotiationProofs about the slots, for what is needed here.
LEMMA GoStays ==
  ASSUME TypeOK, NEW c \in Calls, calls[c].pc # "idle", NEW pc \in Step, Go(c, pc)
  PROVE  Stays(c) /\ calls'[c].pc = pc
BY GoKeeps DEF TypeOK, Rows, Keeps, Stays

LEMMA ReturnStays ==
  ASSUME TypeOK, NEW c \in Calls, Return(c)
  PROVE  Stays(c) /\ calls'[c].pc = "idle"
BY ReturnMoves DEF TypeOK, Rows, Stays, Idle

LEMMA SawStays ==
  ASSUME TypeOK, NEW c \in Calls, calls[c].pc # "idle", NEW pc \in Step,
         NEW saw \in BOOLEAN, NEW prices \in [Sellers -> Offer],
         calls' = [calls EXCEPT ![c] = [calls[c] EXCEPT !.pc = pc, !.saw = saw,
                                                      !.prices = prices]]
  PROVE  Stays(c) /\ calls'[c].pc = pc
BY SawKeeps DEF TypeOK, Rows, Keeps, Stays

\* Every step of a request but the first has the effect above.
LEMMA Effects ==
  ASSUME TypeOK, NEW c \in Calls, proceed(c)
  PROVE  Effect(c) /\ calls[c].pc # "idle"
<1> DEFINE s == calls[c].s
<1>1. calls[c].pc # "idle" => /\ s \in Sellers /\ calls[c].amount \in Offer
                              /\ calls[c].verdict \in {REJECTED, WITHDRAWN}
                              /\ calls[c].saw \in BOOLEAN
                              /\ calls[c].prices \in [Sellers -> Offer]
  BY UnderWay
<1>2. /\ seller \in [Sellers -> TradeSeller]
      /\ negotiation \in [Sellers -> OfferNegotiation]
      /\ inspections \in [Sellers -> Nat]
  BY DEF TypeOK
<1>3. ASSUME calls[c].pc # "idle", UNCHANGED <<seller, negotiation, inspections, sweep>>,
             calls[c].pc \notin {"offer", "send", "engage", "counter", "agree",
                                 "conclude", "check", "inspect", "close", "release"},
             Stays(c), Follows(c)
      PROVE  Effect(c)
  BY <1>3 DEF Effect, Elsewhere, WritesSeller, WritesNegotiation
<1>4. CASE upsert(c)
  <2> DEFINE n == IF negotiation[s].status = "none"
                  THEN [status |-> PENDING, currentOffer |-> calls[c].amount,
                        counterOffer |-> 0, final |-> 0, late |-> FALSE]
                  ELSE [negotiation[s] EXCEPT !.currentOffer = calls[c].amount,
                                              !.late = FALSE]
  <2>1. calls[c].pc \in {"offer", "send"} /\ s \in Sellers
    BY <1>1, <1>4 DEF upsert
  <2>2. Stays(c) /\ Follows(c)
    BY <1>4, GoStays DEF upsert, Follows, Step
  <2>3. negotiation' = [negotiation EXCEPT ![s] = n]
        /\ UNCHANGED <<seller, inspections, sweep>>
    BY <1>4 DEF upsert, Upserted
  <2>4. /\ n.status = IF negotiation[s].status = "none" THEN PENDING
                      ELSE negotiation[s].status
        /\ n.final = IF negotiation[s].status = "none" THEN 0
                     ELSE negotiation[s].final
    BY <1>2, <2>1 DEF OfferNegotiation
  <2> HIDE DEF n
  <2> QED BY <1>2, <2>1, <2>2, <2>3, <2>4
             DEF Effect, Elsewhere, WritesSeller, WritesNegotiation
<1>5. CASE engage(c)
  <2>1. Stays(c) /\ Follows(c)
    BY <1>5, GoStays, ReturnStays DEF engage, Follows, Step
  <2> QED BY <1>1, <1>2, <1>5, <2>1
             DEF engage, Effect, Elsewhere, WritesSeller, WritesNegotiation, TradeSeller
<1>6. CASE setInitialNegotiationPhase(c) \/ phaseWrite(c) \/ relist(c)
  <2>1. Stays(c) /\ Follows(c)
    BY <1>6, ReturnStays DEF setInitialNegotiationPhase, phaseWrite, relist, Follows
  <2> QED BY <1>3, <1>6, <2>1 DEF setInitialNegotiationPhase, phaseWrite, relist
<1>7. CASE counterWrite(c)
  <2>1. Stays(c) /\ Follows(c)
    BY <1>7, ReturnStays DEF counterWrite, Follows
  <2> QED BY <1>1, <1>2, <1>7, <2>1
             DEF counterWrite, Effect, Elsewhere, WritesSeller, WritesNegotiation,
                 OfferNegotiation
<1>8. CASE agree(c)
  <2>1. Stays(c) /\ Follows(c)
    BY <1>8, GoStays DEF agree, Follows, Step
  <2> QED BY <1>1, <1>2, <1>8, <2>1
             DEF agree, Effect, Elsewhere, WritesSeller, WritesNegotiation, TradeSeller
<1>9. CASE conclude(c)
  <2>1. Stays(c) /\ Follows(c)
    <3>1. PICK saw \in BOOLEAN : saw = AllAccepted
      BY DEF AllAccepted
    <3>2. calls[c].pc = "conclude" /\ calls[c].prices \in [Sellers -> Offer]
      BY <1>1, <1>9 DEF conclude
    <3>3. calls[c] \in Request
      BY <3>2, Busy, IdleSlot DEF TypeOK, Rows
    <3>4. calls' = [calls EXCEPT ![c] =
            [calls[c] EXCEPT !.pc = "totals", !.saw = saw,
                             !.prices = calls[c].prices]]
      BY <1>9, <3>1, <3>2, <3>3 DEF conclude, TypeOK, Request
    <3> QED BY <3>2, <3>4, SawStays DEF Step, Follows
  <2> QED BY <1>1, <1>2, <1>9, <2>1
             DEF conclude, Effect, Elsewhere, WritesSeller, WritesNegotiation,
                 OfferNegotiation
<1>10. CASE totalsRead(c) \/ totalsWrite(c)
  <2>1. PICK prices \in [Sellers -> Offer], pc \in {"record", "check"} :
          /\ calls' = [calls EXCEPT ![c].pc = pc, ![c].prices = prices]
          /\ \/ calls[c].pc = "totals" /\ pc = "record"
             \/ calls[c].pc = "record" /\ pc = "check"
    BY <1>2, <1>10 DEF totalsRead, totalsWrite, Prices, NoPrices, TradeSeller, Offer
  <2>2. calls[c] \in Request
    BY <2>1, Busy, IdleSlot DEF TypeOK, Rows
  <2>3. calls' = [calls EXCEPT ![c] =
          [calls[c] EXCEPT !.pc = pc, !.saw = calls[c].saw, !.prices = prices]]
    BY <2>1, <2>2 DEF TypeOK, Request
  <2>4. Stays(c) /\ calls'[c].pc = pc
    BY <1>1, <2>1, <2>3, SawStays DEF Step
  <2> QED BY <1>3, <1>10, <2>1, <2>4 DEF totalsRead, totalsWrite, Follows
<1>11. CASE inspectionCheck(c)
  <2>1. Stays(c) /\ Follows(c)
    BY <1>1, <1>2, <1>11, GoStays, ReturnStays
       DEF inspectionCheck, AfterInspection, Follows, Step
  <2>2. /\ calls[c].pc = "check" /\ s \in Sellers
        /\ UNCHANGED <<negotiation, inspections, sweep>>
    BY <1>1, <1>11 DEF inspectionCheck
  <2>3. CASE s \in Graded
    <3>1. seller' = [seller EXCEPT ![s].isVerified = TRUE]
      BY <1>11, <2>3 DEF inspectionCheck
    <3>2. /\ seller'[s].status = seller[s].status
          /\ seller'[s].agreed = seller[s].agreed
          /\ seller'[s].isVerified = TRUE
          /\ \A t \in Sellers \ {s} : seller'[t] = seller[t]
      BY <1>2, <2>2, <3>1 DEF TradeSeller
    <3> HIDE DEF s
    <3> QED BY <2>1, <2>2, <2>3, <3>2
               DEF Effect, Elsewhere, WritesSeller, WritesNegotiation, s
  <2>4. CASE s \notin Graded
    <3>1. UNCHANGED seller
      BY <1>11, <2>4 DEF inspectionCheck
    <3> QED BY <2>1, <2>2, <2>4, <3>1
               DEF Effect, Elsewhere, WritesSeller, WritesNegotiation
  <2> QED BY <2>2, <2>3, <2>4
<1>12. CASE createInspectionRequest(c)
  <2>1. Stays(c) /\ Follows(c)
    BY <1>12, GoStays, ReturnStays
       DEF createInspectionRequest, AfterInspection, Follows, Step
  <2> QED BY <1>1, <1>2, <1>12, <2>1
             DEF createInspectionRequest, Effect, Elsewhere, WritesSeller,
                 WritesNegotiation
<1>13. CASE autoAdvancePhase(c)
  <2>1. Stays(c) /\ Follows(c)
    BY <1>13, GoStays, ReturnStays DEF autoAdvancePhase, Follows, Step
  <2> QED BY <1>3, <1>13, <2>1 DEF autoAdvancePhase
<1>14. CASE closeNegotiation(c)
  <2>1. Stays(c) /\ Follows(c)
    BY <1>14, GoStays DEF closeNegotiation, Follows, Step
  <2> QED BY <1>1, <1>2, <1>14, <2>1
             DEF closeNegotiation, Effect, Elsewhere, WritesSeller,
                 WritesNegotiation, OfferNegotiation
<1>15. CASE releaseSeller(c)
  <2>1. Stays(c) /\ Follows(c)
    BY <1>15, GoStays DEF releaseSeller, Follows, Step
  <2> QED BY <1>1, <1>2, <1>15, <2>1
             DEF releaseSeller, Effect, Elsewhere, WritesSeller,
                 WritesNegotiation, TradeSeller
<1>16. CASE extendWrite(c)
  <2>1. Stays(c) /\ Follows(c)
    BY <1>16, ReturnStays DEF extendWrite, Follows
  <2> QED BY <1>1, <1>2, <1>16, <2>1
             DEF extendWrite, Effect, Elsewhere, WritesSeller,
                 WritesNegotiation, OfferNegotiation
<1> QED BY <1>4, <1>5, <1>6, <1>7, <1>8, <1>9, <1>10, <1>11, <1>12, <1>13, <1>14,
           <1>15, <1>16
           DEF proceed, upsert, engage, setInitialNegotiationPhase, counterWrite,
               agree, conclude, totalsRead, totalsWrite, inspectionCheck,
               createInspectionRequest, autoAdvancePhase, phaseWrite,
               closeNegotiation, releaseSeller, relist, extendWrite

-----------------------------------------------------------------------------
(* What the other steps do.                                                *)

\* Nobody but c is under way, before the step and after it.
Alone(c) == /\ \A d \in Calls \ {c} : calls[d] = Idle /\ calls'[d] = Idle
            /\ sweep = {} /\ sweep' = {}

LEMMA RequestsAlone ==
  ASSUME TypeOK, OneAtATime, OneAtATime', NEW c \in Calls, Stays(c),
         UNCHANGED sweep, calls[c] # Idle \/ calls'[c] # Idle
  PROVE  Alone(c)
BY DEF OneAtATime, Stays, Moves, Alone

\* The first step of a request.  An offer and the seller it attaches; what it
\* has found before it goes on to answer, to close or to write the phase.
Begun(c, s) ==
  /\ Moves(c) /\ calls[c] = Idle /\ calls'[c].s = s
  /\ calls'[c].pc \in {"offer", "send", "counter", "agree", "close", "extend", "write"}
  /\ calls'[c].pc \in Responding => negotiation[s].status # ACCEPTED
  /\ calls'[c].pc = "write" => AllAccepted
  /\ UNCHANGED <<negotiation, inspections, sweep>>

\* A seller may be attached, and is otherwise as before.
Attaches(s) ==
  /\ \A t \in Sellers \ {s} : seller'[t] = seller[t]
  /\ seller'[s].status = seller[s].status \/ seller'[s].status = INVITED
  /\ seller'[s].agreed = seller[s].agreed
  /\ seller[s].isVerified = TRUE => seller'[s].isVerified = TRUE

LEMMA Offered ==
  ASSUME TypeOK, NEW s \in Sellers, Offering(s)
  PROVE  \E c \in Calls : Begun(c, s) /\ calls'[c].pc \in {"offer", "send"} /\ Attaches(s)
<1> PICK c \in Calls, o \in Offers :
        createTradeSellersWithOffers(c, s, o) \/ sendOffer(c, s, o)
  BY DEF Offering, offer
<1>1. o \in Offer
  BY DEF Offer
<1>2. seller[s] \in TradeSeller /\ seller \in [Sellers -> TradeSeller]
  BY DEF TypeOK
<1>3. CASE createTradeSellersWithOffers(c, s, o)
  <2>1. Start(c, New("offer", s, o, FALSE, REJECTED))
    BY <1>3 DEF createTradeSellersWithOffers, Begin
  <2>2. Moves(c) /\ calls'[c].pc = "offer" /\ calls'[c].s = s /\ calls[c] = Idle
    BY <1>1, <2>1, StartMoves DEF Start, TypeOK, Rows, Step
  <2>3. Attaches(s)
    BY <1>2, <1>3 DEF createTradeSellersWithOffers, Attaches, TradeSeller
  <2> QED BY <1>3, <2>2, <2>3 DEF createTradeSellersWithOffers, Begun, Responding
<1>4. CASE sendOffer(c, s, o)
  <2>1. PICK saw \in BOOLEAN : Start(c, New("send", s, o, saw, REJECTED))
    BY <1>4 DEF sendOffer, Begin
  <2>2. Moves(c) /\ calls'[c].pc = "send" /\ calls'[c].s = s /\ calls[c] = Idle
    BY <1>1, <2>1, StartMoves DEF Start, TypeOK, Rows, Step
  <2>3. Attaches(s)
    BY <1>4 DEF sendOffer, Attaches
  <2> QED BY <1>4, <2>2, <2>3 DEF sendOffer, Begun, Responding
<1> QED BY <1>3, <1>4

LEMMA Responded ==
  ASSUME TypeOK, NEW s \in Sellers, NEW c \in Calls, respond(c, s)
  PROVE  Begun(c, s) /\ calls'[c].pc \notin {"offer", "send"} /\ UNCHANGED seller
<1>1. ASSUME NEW pc \in {"counter", "agree", "close", "extend", "write"},
             NEW amount \in Offer, NEW saw \in BOOLEAN,
             NEW verdict \in {REJECTED, WITHDRAWN},
             Start(c, New(pc, s, amount, saw, verdict)),
             pc \in Responding => negotiation[s].status # ACCEPTED,
             pc = "write" => AllAccepted,
             UNCHANGED <<seller, negotiation, inspections, sweep>>
      PROVE  Begun(c, s) /\ calls'[c].pc \notin {"offer", "send"} /\ UNCHANGED seller
  <2>1. Moves(c) /\ calls'[c].pc = pc /\ calls'[c].s = s
    BY <1>1, StartMoves DEF TypeOK, Rows, Step
  <2> QED BY <1>1, <2>1 DEF Begun, Start
<1>2. ASSUME NEW o \in Offers, counterOffer(c, s, o)
      PROVE  Begun(c, s) /\ calls'[c].pc \notin {"offer", "send"} /\ UNCHANGED seller
  <2>1. o \in Offer
    BY DEF Offer
  <2> QED BY <1>1, <1>2, <2>1 DEF counterOffer, Begin
<1>3. CASE acceptOffer(c, s)
  <2>1. FinalOffer(s) \in Offer
    BY DEF FinalOffer, TypeOK, OfferNegotiation
  <2> QED BY <1>1, <1>3, <2>1 DEF acceptOffer, Begin
<1>4. CASE rejectOffer(c, s)
  BY <1>1, <1>4 DEF rejectOffer, Begin, Offer
<1>5. CASE withdrawOffer(c, s)
  BY <1>1, <1>5 DEF withdrawOffer, Offer
<1>6. CASE extendExpiry(c, s)
  <2>1. negotiation[s].late \in BOOLEAN
    BY DEF TypeOK, OfferNegotiation
  <2> QED BY <1>1, <1>6, <2>1 DEF extendExpiry, Begin, Offer, Responding
<1>7. CASE updatePhase(c, s)
  BY <1>1, <1>7 DEF updatePhase, Begin, Offer, Responding
<1> QED BY <1>2, <1>3, <1>4, <1>5, <1>6, <1>7 DEF respond

\* Time passes; the cron reads what is open; it expires a row it has read.
Ticked == /\ UNCHANGED <<seller, inspections, calls, sweep>>
          /\ \A t \in Sellers : /\ negotiation'[t].status = negotiation[t].status
                                /\ negotiation'[t].final = negotiation[t].final
Swept == /\ UNCHANGED <<seller, negotiation, inspections, calls>>
         /\ sweep' \subseteq Sellers /\ \A s \in sweep' : Open(s)
Expires(s) ==
  /\ \A c \in Calls : calls[c] = Idle
  /\ UNCHANGED <<inspections, calls>>
  /\ s \in sweep /\ sweep' \subseteq sweep
  /\ \A t \in Sellers \ {s} : /\ seller'[t] = seller[t]
                              /\ negotiation'[t] = negotiation[t]
  /\ negotiation'[s].status = EXPIRED /\ seller'[s].status = REJECTED
  /\ seller[s].isVerified = TRUE => seller'[s].isVerified = TRUE

\* The kinds of steps.
RequestStep(c) == /\ Effect(c) /\ Alone(c) /\ calls[c].pc # "idle"
                  /\ fresh' => fresh
OfferStep(c, s) == /\ Begun(c, s) /\ Alone(c) /\ Attaches(s)
                   /\ calls'[c].pc \in {"offer", "send"}
                   /\ fresh' => fresh /\ ~Negotiated(s)
ReplyStep(c, s) == /\ Begun(c, s) /\ Alone(c)
                   /\ calls'[c].pc \notin {"offer", "send"}
                   /\ UNCHANGED seller /\ (fresh' => fresh)
AttachStep(s) == /\ \A c \in Calls : calls[c] = Idle
                 /\ Attaches(s)
                 /\ UNCHANGED <<negotiation, inspections, calls, sweep>>
                 /\ fresh' => fresh
CronStep(s) == Expires(s) /\ (fresh' => fresh)

Kind == \/ \E c \in Calls : RequestStep(c)
        \/ \E c \in Calls, s \in Sellers : OfferStep(c, s) \/ ReplyStep(c, s)
        \/ \E s \in Sellers : AttachStep(s) \/ CronStep(s)
        \/ (Ticked \/ Swept) /\ (fresh' => fresh)

LEMMA Kinds == ASSUME TypeOK, OneAtATime, SequentialNext PROVE Kind
<1> USE DEF Kind
<1>1. OneAtATime'
  BY DEF SequentialNext
<1>2. ASSUME NEW c \in Calls, proceed(c), UNCHANGED fresh PROVE Kind
  <2>1. Effect(c) /\ calls[c].pc # "idle"
    BY <1>2, Effects
  <2>2. Alone(c)
    BY <1>1, <2>1, RequestsAlone DEF Effect, Idle
  <2> QED BY <1>2, <2>1, <2>2 DEF RequestStep
<1>3. ASSUME NEW s \in Sellers, tick(s), UNCHANGED fresh PROVE Kind
  BY <1>3 DEF tick, Ticked, TypeOK, OfferNegotiation
<1>4. ASSUME sweepRead, UNCHANGED fresh PROVE Kind
  BY <1>4 DEF sweepRead, Swept, Overdue, Open
<1>5. ASSUME NEW s \in Sellers, expire(s), UNCHANGED fresh PROVE Kind
  <2>1. \A c \in Calls : calls[c] = Idle
    BY <1>5 DEF expire, OneAtATime
  <2> QED BY <1>5, <2>1 DEF expire, CronStep, Expires, TypeOK, OfferNegotiation, TradeSeller
<1>6. ASSUME Quiet, NEW s \in Sellers, Work(s), UNCHANGED fresh PROVE Kind
  <2>1. ASSUME NEW c \in Calls, addSellersToTrade(c, s) PROVE Kind
    BY <1>6, <2>1 DEF addSellersToTrade, AttachStep, Attaches, Quiet, TypeOK, TradeSeller
  <2>2. ASSUME NEW c \in Calls, respond(c, s) PROVE Kind
    <3>1. /\ Begun(c, s) /\ calls'[c].pc \notin {"offer", "send"}
          /\ UNCHANGED seller
      BY <2>2, Responded
    <3>2. Alone(c)
      BY <1>6, <3>1 DEF Begun, Moves, Alone, Quiet
    <3> QED BY <1>6, <3>1, <3>2 DEF ReplyStep
  <2> QED BY <1>6, <2>1, <2>2 DEF Work
<1>7. ASSUME Quiet, NEW s \in Sellers, Offering(s), fresh' = (fresh /\ ~Negotiated(s))
      PROVE  Kind
  <2>1. PICK c \in Calls : /\ Begun(c, s) /\ calls'[c].pc \in {"offer", "send"}
                           /\ Attaches(s)
    BY <1>7, Offered
  <2>2. Alone(c)
    BY <1>7, <2>1 DEF Begun, Moves, Alone, Quiet
  <2> QED BY <1>7, <2>1, <2>2 DEF OfferStep
<1> QED BY <1>2, <1>3, <1>4, <1>5, <1>6, <1>7 DEF SequentialNext, Running, cron

-----------------------------------------------------------------------------
(* Each part of the invariant is kept by each kind of step.                *)

LEMMA AgreeingKept == ASSUME TypeOK, Agreeing, Kind PROVE Agreeing'
<1> USE DEF Agreeing, Responding, Alone, Idle
<1>1. ASSUME NEW c \in Calls, RequestStep(c) PROVE Agreeing'
  <2>1. calls[c].s \in Sellers /\ calls[c].verdict \in {REJECTED, WITHDRAWN}
    BY <1>1, UnderWay DEF RequestStep
  <2> QED BY <1>1, <2>1 DEF RequestStep, Effect, Stays, Moves, Follows, Elsewhere,
                            WritesSeller, WritesNegotiation
<1>2. ASSUME NEW c \in Calls, NEW s \in Sellers, OfferStep(c, s) PROVE Agreeing'
  BY <1>2 DEF OfferStep, Begun, Attaches
<1>3. ASSUME NEW c \in Calls, NEW s \in Sellers, ReplyStep(c, s) PROVE Agreeing'
  BY <1>3 DEF ReplyStep, Begun
<1>4. ASSUME NEW s \in Sellers, AttachStep(s) PROVE Agreeing'
  BY <1>4 DEF AttachStep, Attaches
<1>5. ASSUME NEW s \in Sellers, CronStep(s) PROVE Agreeing'
  BY <1>5 DEF CronStep, Expires, TypeOK
<1>6. CASE Ticked
  <2>1. \A c \in Calls : calls[c].pc \in Responding => calls[c].s \in Sellers
    BY UnderWay
  <2> QED BY <1>6, <2>1 DEF Ticked, TypeOK
<1>7. CASE Swept
  BY <1>7 DEF Swept, Open
<1> QED BY <1>1, <1>2, <1>3, <1>4, <1>5, <1>6, <1>7 DEF Kind

LEMMA InspectionsKept == ASSUME TypeOK, Inspections, Kind PROVE Inspections'
<1> USE DEF Inspections, Inspecting, Inspected, Alone, Idle
<1>1. ASSUME NEW c \in Calls, RequestStep(c) PROVE Inspections'
  <2>0. calls[c].s \in Sellers /\ calls[c].verdict \in {REJECTED, WITHDRAWN}
    BY <1>1, UnderWay DEF RequestStep
  <2>1. PICK s \in Sellers : s = calls[c].s /\ calls[c].verdict \in {REJECTED, WITHDRAWN}
    BY <2>0
  <2>2. /\ \A t \in Sellers : inspections'[t] \in {0, 1}
        /\ calls'[c].pc = "inspect" =>
             s \notin Graded /\ inspections'[s] = 0
    BY <1>1, <2>1 DEF RequestStep, Effect, Stays, Follows, Elsewhere, WritesSeller
  <2>3. ASSUME NEW t \in Sellers \ {s}, negotiation'[t].status = ACCEPTED
        PROVE  Inspected(t)'
    BY <1>1, <2>1, <2>3 DEF RequestStep, Effect, Elsewhere
  <2>4. ASSUME negotiation'[s].status = ACCEPTED
        PROVE  Inspected(s)' \/ (calls'[c].pc \in Inspecting /\ calls'[c].s = s)
    <3>1. CASE calls[c].pc \in Inspecting
      <4>1. CASE calls'[c].pc \in Inspecting
        BY <1>1, <2>1, <3>1, <4>1 DEF RequestStep, Effect, Stays
      <4>2. CASE calls[c].pc = "check" /\ calls'[c].pc \notin Inspecting
        BY <1>1, <2>1, <4>2 DEF RequestStep, Effect, Follows, WritesSeller
      <4>3. CASE calls[c].pc = "inspect"
        BY <1>1, <2>1, <4>3 DEF RequestStep, Effect, WritesSeller
      <4> QED BY <1>1, <2>1, <3>1, <4>1, <4>2, <4>3 DEF RequestStep, Effect, Follows
    <3>2. CASE calls[c].pc = "conclude"
      BY <1>1, <2>1, <3>2 DEF RequestStep, Effect, Stays, Follows
    <3>3. CASE calls[c].pc \notin Inspecting \cup {"conclude"}
      <4>1. negotiation[s].status = ACCEPTED
        BY <1>1, <2>1, <2>4, <3>3 DEF RequestStep, Effect, WritesNegotiation
      <4>2. Inspected(s)
        BY <1>1, <2>1, <3>3, <4>1 DEF RequestStep
      <4> QED BY <1>1, <2>1, <3>3, <4>2 DEF RequestStep, Effect, WritesSeller
    <3> QED BY <3>1, <3>2, <3>3
  <2>5. calls'[c].pc # "idle" => calls'[c].s = s
    BY <1>1, <2>1 DEF RequestStep, Effect, Stays
  <2>6. ASSUME NEW d \in Calls, calls'[d].pc = "inspect"
        PROVE  calls'[d].s \notin Graded /\ inspections'[calls'[d].s] = 0
    BY <1>1, <2>1, <2>2, <2>5, <2>6 DEF RequestStep
  <2>7. ASSUME NEW t \in Sellers, negotiation'[t].status = ACCEPTED
        PROVE  \/ Inspected(t)'
               \/ \E d \in Calls : calls'[d].pc \in Inspecting /\ calls'[d].s = t
    BY <2>3, <2>4, <2>7
  <2> QED BY <2>2, <2>6, <2>7
<1>2. ASSUME NEW c \in Calls, NEW s \in Sellers, OfferStep(c, s) \/ ReplyStep(c, s)
      PROVE  Inspections'
  <2>1. \A t \in Sellers : seller[t].isVerified = TRUE => seller'[t].isVerified = TRUE
    BY <1>2 DEF OfferStep, ReplyStep, Attaches
  <2> QED BY <1>2, <2>1 DEF OfferStep, ReplyStep, Begun
<1>3. ASSUME NEW s \in Sellers, AttachStep(s) PROVE Inspections'
  BY <1>3 DEF AttachStep, Attaches
<1>4. ASSUME NEW s \in Sellers, CronStep(s) PROVE Inspections'
  BY <1>4 DEF CronStep, Expires
<1>5. CASE Ticked \/ Swept
  BY <1>5 DEF Ticked, Swept
<1> QED BY <1>1, <1>2, <1>3, <1>4, <1>5 DEF Kind

LEMMA AskedKept ==
  ASSUME TypeOK, Agreeing, Asked,
         \/ \E c \in Calls : RequestStep(c)
         \/ \E c \in Calls, s \in Sellers :
              (OfferStep(c, s) /\ ~Negotiated(s)) \/ ReplyStep(c, s)
         \/ \E s \in Sellers : AttachStep(s) \/ CronStep(s)
         \/ Ticked \/ Swept
  PROVE  Asked'
<1> USE DEF Asked, Open, Alone, Idle
<1>1. ASSUME NEW c \in Calls, RequestStep(c) PROVE Asked'
  <2>0. calls[c].s \in Sellers /\ calls[c].verdict \in {REJECTED, WITHDRAWN}
    BY <1>1, UnderWay DEF RequestStep
  <2>1. PICK s \in Sellers : s = calls[c].s /\ calls[c].verdict \in {REJECTED, WITHDRAWN}
    BY <2>0
  <2>2. calls'[c].pc = "engage" => Open(s)'
    BY <1>1, <2>1 DEF RequestStep, Effect, Stays, Follows, WritesNegotiation
  <2>3. ASSUME NEW t \in Sellers \ {s}, seller'[t].status = NEGOTIATING PROVE Open(t)'
    BY <1>1, <2>1, <2>3 DEF RequestStep, Effect, Elsewhere
  <2>4. ASSUME seller'[s].status = NEGOTIATING
        PROVE  Open(s)' \/ (calls'[c].pc = "release" /\ calls'[c].s = s)
    <3>1. calls[c].pc = "conclude" => seller[s].status = ACCEPTED
      BY <2>1 DEF Agreeing
    <3>2. /\ calls[c].pc = "close" => calls'[c].pc = "release" /\ calls'[c].s = s
          /\ calls[c].pc # "idle"
      BY <1>1, <2>1 DEF RequestStep, Effect, Stays, Follows
    <3>3. calls[c].pc # "agree" /\ calls[c].pc # "release"
          /\ (calls[c].pc # "engage" => seller[s].status = NEGOTIATING)
      BY <1>1, <2>1, <2>4 DEF RequestStep, Effect, WritesSeller
    <3>4. Open(s)
      BY <1>1, <2>1, <3>3 DEF RequestStep
    <3>5. calls[c].pc # "conclude"
      BY <3>1, <3>3
    <3>6. calls[c].pc # "close" =>
            negotiation'[s].status \in {PENDING, COUNTERED, negotiation[s].status}
      BY <1>1, <2>1, <3>5 DEF RequestStep, Effect, WritesNegotiation
    <3> QED BY <3>2, <3>4, <3>6
  <2>5. /\ calls'[c].pc \notin {"offer", "send"}
        /\ calls'[c].pc # "idle" => calls'[c].s = s
    BY <1>1, <2>1 DEF RequestStep, Effect, Stays, Follows
  <2> QED BY <1>1, <2>1, <2>2, <2>3, <2>4, <2>5 DEF RequestStep
<1>2. ASSUME NEW c \in Calls, NEW s \in Sellers, OfferStep(c, s), ~Negotiated(s)
      PROVE  Asked'
  <2>1. \A t \in Sellers : seller'[t].status = NEGOTIATING
                             => seller[t].status = NEGOTIATING
    BY <1>2 DEF OfferStep, Attaches
  <2> QED BY <1>2, <2>1 DEF OfferStep, Begun, Negotiated
<1>3. ASSUME NEW c \in Calls, NEW s \in Sellers, ReplyStep(c, s) PROVE Asked'
  BY <1>3 DEF ReplyStep, Begun
<1>4. ASSUME NEW s \in Sellers, AttachStep(s) PROVE Asked'
  BY <1>4 DEF AttachStep, Attaches
<1>5. ASSUME NEW s \in Sellers, CronStep(s) PROVE Asked'
  BY <1>5 DEF CronStep, Expires
<1>6. CASE Ticked \/ Swept
  <2>1. \A c \in Calls : calls[c].pc \in {"offer", "send", "engage"}
                           => calls[c].s \in Sellers
    BY UnderWay
  <2> QED BY <1>6, <2>1 DEF Ticked, Swept
<1> QED BY <1>1, <1>2, <1>3, <1>4, <1>5, <1>6

LEMMA AnswerableKept ==
  ASSUME TypeOK, Agreeing, Answerable, Kind
  PROVE  Answerable'
<1>1. fresh' => fresh
  BY DEF Kind, RequestStep, OfferStep, ReplyStep, AttachStep, CronStep
<1>2. SUFFICES ASSUME fresh' PROVE Asked'
  BY DEF Answerable
<1>3. \A c \in Calls, s \in Sellers : OfferStep(c, s) => ~Negotiated(s)
  BY <1>2 DEF OfferStep
<1> QED BY <1>1, <1>2, <1>3, AskedKept DEF Answerable, Kind

-----------------------------------------------------------------------------
\* Whole requests are among the behaviours of Negotiation, so that its types hold.
LEMMA IsNegotiation == SequentialSpec => Spec
<1>1. SequentialInit => Init
  BY DEF SequentialInit
<1>2. [SequentialNext]_allVars => [Next]_vars
  <2>1. SequentialNext => Next
    <3>1. Running => Next
      BY DEF Next, Live, Trading
    <3>2. ASSUME NEW s \in Sellers, Work(s) \/ Offering(s) PROVE Next
      BY <3>2 DEF Next, Live, Trading
    <3> QED BY <3>1, <3>2 DEF SequentialNext
  <2>2. UNCHANGED allVars => UNCHANGED vars
    BY DEF allVars
  <2> QED BY <2>1, <2>2
<1>3. SequentialSpec => SequentialInit /\ [][SequentialNext]_allVars
  BY PTL DEF SequentialSpec
<1> QED BY <1>1, <1>2, <1>3, PTL DEF Spec

LEMMA Typed == SequentialSpec => []TypeOK
BY IsNegotiation, TypesKept, PTL

LEMMA Initially == SequentialInit => SeqInv
BY DEF SequentialInit, Init, SeqInv, OneAtATime, Agreeing, Inspections,
       Answerable, Asked, Idle, Responding

LEMMA StepKeeps ==
  ASSUME TypeOK, SeqInv, [SequentialNext]_allVars
  PROVE  SeqInv'
<1>1. CASE SequentialNext
  <2>1. Kind
    BY <1>1, Kinds DEF SeqInv
  <2>2. OneAtATime'
    BY <1>1 DEF SequentialNext
  <2> QED BY <2>1, <2>2, AgreeingKept, InspectionsKept, AnswerableKept
             DEF SeqInv
<1>2. CASE UNCHANGED allVars
  BY <1>2 DEF allVars, vars, SeqInv, OneAtATime, Agreeing, Inspections,
              Answerable, Asked, Inspected, Open, AllAccepted, Attached
<1> QED BY <1>1, <1>2

\* What requests rely on between their awaits is true as long as no other request
\* comes in between.
THEOREM SequentialInvariant == SequentialSpec => []SeqInv
<1>1. SequentialInit => SeqInv
  BY Initially
<1>2. TypeOK /\ SeqInv /\ [SequentialNext]_allVars => SeqInv'
  <2> SUFFICES ASSUME TypeOK, SeqInv, [SequentialNext]_allVars PROVE SeqInv'
    OBVIOUS
  <2> QED BY StepKeeps
<1>3. SequentialSpec => SequentialInit /\ [][SequentialNext]_allVars
  BY PTL DEF SequentialSpec
<1> QED BY <1>1, <1>2, <1>3, Typed, PTL

\* Between requests the two rows name one price (acceptOffer writes both).
THEOREM OnePrice == SequentialSpec => []FinalIsAgreed
<1>1. SeqInv => FinalIsAgreed
  BY DEF SeqInv, Agreeing, FinalIsAgreed
<1> QED BY <1>1, SequentialInvariant, PTL

\* Between requests an accepted listing is graded or has exactly one inspection
\* (autoCreateInspection).
THEOREM Examined == SequentialSpec => []InspectedOnce
<1>1. TypeOK /\ SeqInv => InspectedOnce
  <2> SUFFICES ASSUME TypeOK, SeqInv, Quiet, NEW s \in Sellers,
                      negotiation[s].status = ACCEPTED
               PROVE  IF s \in Graded THEN seller[s].isVerified ELSE inspections[s] = 1
    BY DEF InspectedOnce
  <2>1. Inspected(s)
    BY DEF SeqInv, Inspections, Quiet, Idle, Inspecting
  <2> QED BY <2>1 DEF Inspected
<1> QED BY <1>1, Typed, SequentialInvariant, PTL

\* A seller who is asked can answer, as long as nobody was made a second offer.
THEOREM CanAnswer == SequentialSpec => []NoDeadEnd
<1>1. SeqInv => NoDeadEnd
  <2> SUFFICES ASSUME SeqInv, fresh, Quiet, NEW s \in Sellers,
                      seller[s].status = NEGOTIATING
               PROVE  Open(s)
    BY DEF NoDeadEnd, Open
  <2>1. Asked
    BY DEF SeqInv, Answerable
  <2> QED BY <2>1 DEF Asked, Quiet, Idle
<1> QED BY <1>1, SequentialInvariant, PTL

\* An accepted negotiation stays accepted: no request and no round of the cron
\* that begins after the acceptance undoes it.
THEOREM Final == SequentialSpec => AcceptedIsFinal
<1> DEFINE Keeping == \A s \in Sellers :
             negotiation[s].status = ACCEPTED => negotiation'[s].status = ACCEPTED
<1>1. TypeOK /\ SeqInv /\ [SequentialNext]_allVars => [Keeping]_vars
  <2> SUFFICES ASSUME TypeOK, SeqInv, SequentialNext PROVE Keeping
    BY DEF allVars
  <2>1. Kind
    BY Kinds DEF SeqInv
  <2>2. ASSUME NEW c \in Calls, RequestStep(c) PROVE Keeping
    <3>1. calls[c].s \in Sellers
      BY <2>2, UnderWay DEF RequestStep
    <3>2. calls[c].pc \in Responding => negotiation[calls[c].s].status # ACCEPTED
      BY DEF SeqInv, Agreeing
    <3> QED BY <2>2, <3>1, <3>2 DEF RequestStep, Effect, Elsewhere, WritesNegotiation,
                                    Responding
  <2>3. ASSUME NEW s \in Sellers, CronStep(s) PROVE Keeping
    BY <2>3 DEF CronStep, Expires, SeqInv, Agreeing
  <2>4. ASSUME UNCHANGED negotiation PROVE Keeping
    BY <2>4
  <2>5. ASSUME Ticked PROVE Keeping
    BY <2>5 DEF Ticked
  <2>6. ASSUME NEW c \in Calls, NEW s \in Sellers, OfferStep(c, s) \/ ReplyStep(c, s)
        PROVE  Keeping
    BY <2>4, <2>6 DEF OfferStep, ReplyStep, Begun
  <2>7. ASSUME NEW s \in Sellers, AttachStep(s) PROVE Keeping
    BY <2>4, <2>7 DEF AttachStep
  <2>8. ASSUME Swept PROVE Keeping
    BY <2>4, <2>8 DEF Swept
  <2> HIDE DEF Keeping
  <2> QED BY <2>1, <2>2, <2>3, <2>5, <2>6, <2>7, <2>8 DEF Kind
<1>2. SequentialSpec => [][SequentialNext]_allVars
  BY PTL DEF SequentialSpec
<1>3. SequentialSpec => [][Keeping]_vars
  BY <1>1, <1>2, Typed, SequentialInvariant, PTL
<1> QED BY <1>3 DEF AcceptedIsFinal

-----------------------------------------------------------------------------
(***************************************************************************)
(* The purchase cost.  That a sum of nothing is nothing takes an induction *)
(* over the sellers, here as a smallest counterexample.                    *)
(***************************************************************************)
\* The sums that Cost goes through, one for each set of sellers.
Sums(prices) == CHOOSE sum : sum = [S \in SUBSET Sellers |->
  IF S = {} THEN 0
  ELSE prices[CHOOSE s \in S : TRUE] + sum[S \ {CHOOSE s \in S : TRUE}]]

LEMMA CostIsSum == ASSUME NEW prices PROVE Cost(prices) = Sums(prices)[Sellers]
BY DEF Cost, MapThenSumSet, MapThenFoldSet, Sums

LEMMA NothingCosts == Cost(NoPrices) = 0
<1> DEFINE zero == [S \in SUBSET Sellers |-> 0]
           sum == Sums(NoPrices)
           first(S) == CHOOSE s \in S : TRUE
<1>1. \A S \in SUBSET Sellers : S # {} => NoPrices[first(S)] = 0
  BY DEF NoPrices
<1>2. zero = [S \in SUBSET Sellers |->
               IF S = {} THEN 0 ELSE NoPrices[first(S)] + zero[S \ {first(S)}]]
  BY <1>1
<1>3. sum = [S \in SUBSET Sellers |->
               IF S = {} THEN 0 ELSE NoPrices[first(S)] + sum[S \ {first(S)}]]
  BY <1>2 DEF Sums
<1> HIDE DEF sum, zero
<1> DEFINE Bad == {n \in Nat : \E S \in SUBSET Sellers : Cardinality(S) = n /\ sum[S] # 0}
<1>4. ASSUME Bad # {} PROVE FALSE
  <2>1. PICK n \in Bad : \A m \in Bad : ~(<<m, n>> \in OpToRel(<, Nat))
    BY <1>4, NatLessThanWellFounded, WFMin
  <2>2. \A m \in Bad : ~(m < n)
    BY <2>1 DEF OpToRel
  <2>3. PICK S \in SUBSET Sellers : Cardinality(S) = n /\ sum[S] # 0
    OBVIOUS
  <2>4. IsFiniteSet(S)
    BY SellersAssumption, FS_Subset
  <2>5. S # {}
    BY <1>3, <2>3
  <2>6. first(S) \in S
    BY <2>5
  <2>7. Cardinality(S \ {first(S)}) = n - 1 /\ IsFiniteSet(S \ {first(S)})
    BY <2>3, <2>4, <2>6, FS_RemoveElement
  <2>8. n - 1 \in Nat
    BY <2>7, FS_CardinalityType
  <2>9. sum[S \ {first(S)}] = 0
    BY <2>2, <2>7, <2>8
  <2> QED BY <1>1, <1>3, <2>3, <2>5, <2>9
<1>5. sum[Sellers] = 0
  BY <1>4, SellersAssumption, FS_CardinalityType
<1> QED BY <1>5, CostIsSum DEF sum

\* The total is the cost of the agreed prices, or an acceptance is on its way
\* to see to that; the prices it has read are the ones that are agreed.
Tallying == {"conclude", "totals", "record"}
Tallied ==
  /\ \A c \in Calls : calls[c].pc = "record" => calls[c].prices = Prices
  /\ total = Cost(Prices) \/ \E c \in Calls : calls[c].pc \in Tallying

\* A step of a request that is alone.
LEMMA TalliedByRequest ==
  ASSUME TypeOK, Tallied, NEW c \in Calls, proceed(c), Effect(c), Alone(c)
  PROVE  Tallied'
<1> DEFINE s == calls[c].s
<1>1. /\ \A d \in Calls : d # c => calls'[d].pc = "idle" /\ calls[d].pc = "idle"
      /\ calls[c].pc # "idle"
  BY Effects DEF Alone, Idle
<1>2. calls[c].pc # "agree" => Prices' = Prices
  BY <1>1, UnderWay DEF Effect, Elsewhere, WritesSeller, Prices, TypeOK
<1>3. CASE calls[c].pc \in {"agree", "conclude"}
  <2>1. calls'[c].pc \in {"conclude", "totals"}
    BY <1>3 DEF Effect, Follows
  <2> QED BY <1>1, <2>1 DEF Tallied, Tallying
<1>4. CASE calls[c].pc = "totals"
  <2>1. totalsRead(c)
    BY <1>4 DEF proceed, upsert, engage, setInitialNegotiationPhase, counterWrite,
         agree, conclude, totalsWrite, inspectionCheck, createInspectionRequest,
         autoAdvancePhase, phaseWrite, closeNegotiation, releaseSeller, relist,
         extendWrite
  <2>2. calls[c] \in Request
    BY <1>1, Busy, IdleSlot DEF TypeOK, Rows
  <2> DEFINE prices == Prices
  <2>3. calls' = [calls EXCEPT ![c] = [calls[c] EXCEPT !.pc = "record", !.prices = prices]]
    BY <2>1 DEF totalsRead
  <2> HIDE DEF prices
  <2>4. calls'[c].pc = "record" /\ calls'[c].prices = prices
    BY <2>2, <2>3 DEF TypeOK, Request
  <2> QED BY <1>1, <1>2, <1>4, <2>4 DEF Tallied, Tallying, prices
<1>5. CASE calls[c].pc = "record"
  <2>1. total' = Cost(calls[c].prices)
    BY <1>5 DEF proceed, upsert, engage, setInitialNegotiationPhase, counterWrite,
         agree, conclude, totalsRead, totalsWrite, inspectionCheck,
         createInspectionRequest, autoAdvancePhase, phaseWrite, closeNegotiation,
         releaseSeller, relist, extendWrite
  <2>2. calls[c].prices = Prices /\ calls'[c].pc = "check"
    BY <1>5 DEF Tallied, Effect, Follows
  <2>3. total' = Cost(Prices')
    BY <1>2, <1>5, <2>1, <2>2
  <2> QED BY <1>1, <2>2, <2>3 DEF Tallied
<1>6. CASE calls[c].pc \notin {"agree", "conclude", "totals", "record"}
  <2>1. UNCHANGED total
    BY <1>6 DEF proceed, upsert, engage, setInitialNegotiationPhase, counterWrite,
         agree, conclude, totalsRead, totalsWrite, inspectionCheck,
         createInspectionRequest, autoAdvancePhase, phaseWrite, closeNegotiation,
         releaseSeller, relist, extendWrite
  <2>2. calls'[c].pc # "record"
    BY <1>6 DEF Effect, Follows
  <2>3. total = Cost(Prices)
    BY <1>1, <1>6 DEF Tallied, Tallying
  <2>4. Prices' = Prices
    BY <1>2, <1>6
  <2>5. total' = Cost(Prices')
    BY <2>1, <2>3, <2>4
  <2> QED BY <1>1, <2>2, <2>5 DEF Tallied
<1> QED BY <1>3, <1>4, <1>5, <1>6

\* No step but those touches a price or the total.
LEMMA TalliedKept ==
  ASSUME TypeOK, OneAtATime, Tallied, SequentialNext
  PROVE  Tallied'
<1>1. ASSUME NEW c \in Calls, proceed(c) PROVE Tallied'
  <2>1. Effect(c) /\ calls[c].pc # "idle"
    BY <1>1, Effects
  <2>2. Alone(c)
    BY <2>1, RequestsAlone DEF SequentialNext, Effect, Idle
  <2> QED BY <1>1, <2>1, <2>2, TalliedByRequest
<1>2. ASSUME UNCHANGED total, \A s \in Sellers : seller'[s].agreed = seller[s].agreed,
             \A c \in Calls : \/ calls'[c] = calls[c]
                              \/ calls[c] = Idle /\ calls'[c].pc \notin Tallying
      PROVE  Tallied'
  <2>1. Prices' = Prices
    BY <1>2 DEF Prices
  <2>2. total = Cost(Prices) => total' = Cost(Prices')
    BY <1>2, <2>1
  <2>3. \A c \in Calls : calls[c].pc \in Tallying => calls'[c] = calls[c]
    BY <1>2 DEF Idle, Tallying
  <2>4. \A c \in Calls : calls'[c].pc = "record" => calls'[c] = calls[c]
    BY <1>2 DEF Tallying
  <2> QED BY <2>1, <2>2, <2>3, <2>4 DEF Tallied
<1>3. ASSUME NEW s \in Sellers, tick(s) PROVE Tallied'
  BY <1>2, <1>3 DEF tick
<1>4. CASE cron
  BY <1>2, <1>4 DEF cron, sweepRead, expire, TypeOK, TradeSeller
<1>5. ASSUME NEW s \in Sellers, NEW c \in Calls, addSellersToTrade(c, s)
      PROVE  Tallied'
  BY <1>2, <1>5 DEF addSellersToTrade, TypeOK, TradeSeller
<1>6. ASSUME NEW s \in Sellers, NEW c \in Calls, respond(c, s)
      PROVE  Tallied'
  <2>1. Begun(c, s) /\ UNCHANGED seller
    BY <1>6, Responded
  <2>2. UNCHANGED total
    BY <1>6 DEF respond, counterOffer, acceptOffer, rejectOffer, withdrawOffer,
                extendExpiry, updatePhase
  <2> QED BY <1>2, <2>1, <2>2 DEF Begun, Moves, Tallying
<1>7. ASSUME NEW s \in Sellers, Offering(s)
      PROVE  Tallied'
  <2>1. PICK c \in Calls : Begun(c, s) /\ Attaches(s)
    BY <1>7, Offered
  <2>2. UNCHANGED total
    BY <1>7 DEF Offering, offer, createTradeSellersWithOffers, sendOffer
  <2>3. \A t \in Sellers : seller'[t].agreed = seller[t].agreed
    BY <2>1 DEF Attaches
  <2> QED BY <1>2, <2>1, <2>2, <2>3 DEF Begun, Moves, Tallying
<1> QED BY <1>1, <1>3, <1>4, <1>5, <1>6, <1>7 DEF SequentialNext, Running, Work

\* Between requests the trade's purchase cost is what its sellers agreed to
\* (updateTradeOperationTotals), for any number of sellers and prices.
THEOREM TotalsFollow == SequentialSpec => []TotalsMatch
<1>1. SequentialInit => Tallied
  <2> SUFFICES ASSUME SequentialInit PROVE Tallied
    OBVIOUS
  <2>1. Prices = NoPrices
    BY DEF SequentialInit, Init, Prices, NoPrices
  <2>2. total = 0 /\ \A c \in Calls : calls[c].pc = "idle"
    BY DEF SequentialInit, Init, Idle
  <2> QED BY <2>1, <2>2, NothingCosts DEF Tallied
<1>2. TypeOK /\ SeqInv /\ Tallied /\ [SequentialNext]_allVars => Tallied'
  <2> SUFFICES ASSUME TypeOK, SeqInv, Tallied, [SequentialNext]_allVars
               PROVE  Tallied'
    OBVIOUS
  <2>1. CASE SequentialNext
    BY <2>1, TalliedKept DEF SeqInv
  <2>2. CASE UNCHANGED allVars
    <3>1. UNCHANGED <<seller, total, calls>>
      BY <2>2 DEF allVars, vars
    <3>2. Prices' = Prices
      BY <3>1 DEF Prices
    <3>3. total = Cost(Prices) => total' = Cost(Prices')
      BY <3>1, <3>2
    <3> QED BY <3>1, <3>2, <3>3 DEF Tallied
  <2> QED BY <2>1, <2>2
<1>3. SequentialSpec => SequentialInit /\ [][SequentialNext]_allVars
  BY PTL DEF SequentialSpec
<1>4. SequentialSpec => []Tallied
  BY <1>1, <1>2, <1>3, Typed, SequentialInvariant, PTL
<1>5. Tallied => TotalsMatch
  BY DEF Tallied, TotalsMatch, Quiet, Idle, Tallying
<1> QED BY <1>4, <1>5, PTL
=============================================================================
